---------------------------- MODULE TransfersProofs ----------------------------
(***************************************************************************)
(* Theorems about the one-sided operations: what the NIC executes is whole *)
(* WQEs, and each unit of data is moved once, before its signal or DUMP.   *)
(*                                                                         *)
(* The inductive invariant TrInv has two parts.  QueueInv is about the     *)
(* ring: from done to ready one whole WQE follows the other, each in the   *)
(* segments its format stores, and a caller that fills has stored what it  *)
(* says it has.  History and Outcome are about the calls: there is a B,    *)
(* the first index of each call of each actor, such that every WQE         *)
(* executed or published is one of a call's plan, and every one of a plan  *)
(* is, once its index is reached.                                          *)
(***************************************************************************)
EXTENDS Transfers, ModArith, FiniteSetTheorems, SequenceTheorems

USE DEF trVars

-----------------------------------------------------------------------------
(* What a call posts.                                                      *)

CallsOf(p) == IF p = Warp THEN WarpCalls ELSE ThreadCalls
Body(p, c) == IF p = Warp THEN WarpData(c) ELSE Data(c)
Wqes == [op : DOMAIN Formats, off : Nat, len : Nat]

LEMMA FormatNames ==
  DOMAIN Formats = {"NOP", "WRITE", "WRITE_2SGE", "WRITE_INL", "WRITE_INL13", "READ", "READ_2SGE",
                    "ATOMIC", "MASKED", "MASKED_CS8", "WAIT", "DUMP"}
  BY DEF Formats, WriteFormats, InlineFormats, ReadFormats, AtomicFormats, OrderFormats, Joined

(* A format stores what its control segment says, in one slot or two.      *)
LEMMA FormatKnown ==
  ASSUME NEW o \in DOMAIN Formats
  PROVE  /\ Formats[o].ds \in 1 .. 5 /\ Formats[o].stored = 0 .. Formats[o].ds - 1
         /\ Slots(o) = IF Formats[o].ds = 5 THEN 2 ELSE 1
         /\ o # "MASKED_CS8" => Slots(o) = 1
<1>1. /\ Formats["NOP"] = Format(1, {0})
      /\ Formats["WRITE"] = Format(3, 0 .. 2)
      /\ Formats["WRITE_2SGE"] = Format(4, 0 .. 3)
      /\ Formats["WRITE_INL"] = Format(3, 0 .. 2)
      /\ Formats["WRITE_INL13"] = Format(4, 0 .. 3)
      /\ Formats["READ"] = Format(3, 0 .. 2)
      /\ Formats["READ_2SGE"] = Format(4, 0 .. 3)
      /\ Formats["ATOMIC"] = Format(4, 0 .. 3)
      /\ Formats["MASKED"] = Format(4, 0 .. 3)
      /\ Formats["MASKED_CS8"] = Format(5, 0 .. 4)
      /\ Formats["WAIT"] = Format(2, 0 .. 1)
      /\ Formats["DUMP"] = Format(2, 0 .. 1)
  BY DEF Formats, WriteFormats, InlineFormats, ReadFormats, AtomicFormats, OrderFormats, Joined
<1>2. /\ Formats["NOP"].ds = 1 /\ Formats["NOP"].stored = 0 .. 0
      /\ Formats["WRITE"].ds = 3 /\ Formats["WRITE"].stored = 0 .. 2
      /\ Formats["WRITE_2SGE"].ds = 4 /\ Formats["WRITE_2SGE"].stored = 0 .. 3
      /\ Formats["WRITE_INL"].ds = 3 /\ Formats["WRITE_INL"].stored = 0 .. 2
      /\ Formats["WRITE_INL13"].ds = 4 /\ Formats["WRITE_INL13"].stored = 0 .. 3
      /\ Formats["READ"].ds = 3 /\ Formats["READ"].stored = 0 .. 2
      /\ Formats["READ_2SGE"].ds = 4 /\ Formats["READ_2SGE"].stored = 0 .. 3
      /\ Formats["ATOMIC"].ds = 4 /\ Formats["ATOMIC"].stored = 0 .. 3
      /\ Formats["MASKED"].ds = 4 /\ Formats["MASKED"].stored = 0 .. 3
      /\ Formats["MASKED_CS8"].ds = 5 /\ Formats["MASKED_CS8"].stored = 0 .. 4
      /\ Formats["WAIT"].ds = 2 /\ Formats["WAIT"].stored = 0 .. 1
      /\ Formats["DUMP"].ds = 2 /\ Formats["DUMP"].stored = 0 .. 1
  <2>1. {0} = 0 .. 0
    OBVIOUS
  <2> QED BY <1>1, <2>1 DEF Format
<1>4. \/ Formats[o].ds = 1 /\ Formats[o].stored = 0 .. 0 /\ o # "MASKED_CS8"
      \/ Formats[o].ds = 2 /\ Formats[o].stored = 0 .. 1 /\ o # "MASKED_CS8"
      \/ Formats[o].ds = 3 /\ Formats[o].stored = 0 .. 2 /\ o # "MASKED_CS8"
      \/ Formats[o].ds = 4 /\ Formats[o].stored = 0 .. 3 /\ o # "MASKED_CS8"
      \/ Formats[o].ds = 5 /\ Formats[o].stored = 0 .. 4 /\ o = "MASKED_CS8"
  BY <1>2, FormatNames, Zenon
<1>5. Formats[o].ds \in 1 .. 5 /\ (o # "MASKED_CS8" => Formats[o].ds < 5)
  BY <1>4
<1>6. Formats[o].stored = 0 .. Formats[o].ds - 1
  <2>1. 1 - 1 = 0 /\ 2 - 1 = 1 /\ 3 - 1 = 2 /\ 4 - 1 = 3 /\ 5 - 1 = 4
    OBVIOUS
  <2> QED BY <1>4, <2>1, Zenon
<1> QED BY <1>5, <1>6 DEF Slots

LEMMA SlotsKnown == \A o \in DOMAIN Formats : Slots(o) \in {1, 2}
<1>1. ASSUME NEW o \in DOMAIN Formats PROVE Slots(o) \in {1, 2}
  BY FormatKnown
<1> QED BY <1>1

LEMMA ChunksKnown ==
  ASSUME NEW o \in {"WRITE", "READ"}, NEW size \in Nat
  PROVE  /\ NumChunks(size) \in Nat \ {0}
         /\ Chunks(o, size) \in Seq(Wqes) /\ Len(Chunks(o, size)) = NumChunks(size)
         /\ \A k \in 1 .. NumChunks(size) : Chunks(o, size)[k].op \in {o, "NOP"}
<1>1. MaxTransfer \in Nat \ {0}
  BY TransfersAssumption
<1>2. size \div MaxTransfer \in Int
  BY <1>1, DivMod
<1>3. NumChunks(size) \in Nat \ {0}
  BY <1>2 DEF NumChunks
<1> DEFINE n == NumChunks(size)
           Chunk(i) == LET off == (i - 1) * MaxTransfer
                           left == size - off
                       IN  IF left > 0 THEN W(o, off, IF left > MaxTransfer THEN MaxTransfer ELSE left)
                                       ELSE W("NOP", 0, 0)
<1>4. ASSUME NEW i \in 1 .. n PROVE Chunk(i) \in Wqes /\ Chunk(i).op \in {o, "NOP"}
  <2>1. (i - 1) * MaxTransfer \in Nat
    <3>1. i - 1 \in Nat
      BY <1>3
    <3> QED BY <1>1, <3>1
  <2> DEFINE off == (i - 1) * MaxTransfer
  <2>2. off \in Nat
    BY <2>1
  <2>3. Chunk(i) = IF size - off > 0
                   THEN W(o, off, IF size - off > MaxTransfer THEN MaxTransfer ELSE size - off)
                   ELSE W("NOP", 0, 0)
    OBVIOUS
  <2> HIDE DEF off, Chunk
  <2>4. "NOP" \in DOMAIN Formats /\ o \in DOMAIN Formats
    BY FormatNames
  <2> QED BY <1>1, <2>2, <2>3, <2>4 DEF W, Wqes
<1>5. Chunks(o, size) = [i \in 1 .. n |-> Chunk(i)]
  BY DEF Chunks
<1> HIDE DEF n, Chunk
<1>6. n \in Nat
  BY <1>3 DEF n
<1> QED BY <1>3, <1>4, <1>5, <1>6 DEF n

LEMMA DataOfChunks ==
  ASSUME NEW c
  PROVE  /\ c.kind \in Puts => Data(c) = Chunks("WRITE", c.size)
         /\ c.kind = "get" => Data(c) = Chunks("READ", c.size)
<1>1. ASSUME c.kind = "get" PROVE Data(c) = Chunks("READ", c.size)
  BY <1>1 DEF Data, Puts, Inlines
<1>2. ASSUME c.kind \in Puts PROVE Data(c) = Chunks("WRITE", c.size)
  BY <1>2 DEF Data, Puts, Inlines
<1> QED BY <1>1, <1>2

(* The data WQEs of a thread's call.                                       *)
LEMMA DataKnown ==
  ASSUME NEW c \in ThreadCalls
  PROVE  /\ Data(c) \in Seq(Wqes)
         /\ c.kind \notin {"signal", "get_wait"} => Len(Data(c)) >= 1
         /\ c.kind # "post" => \A k \in 1 .. Len(Data(c)) :
              Data(c)[k].op \in {"WRITE", "READ", "WRITE_INL", "NOP"}
         /\ c.kind = "post" => Data(c) = <<W(c.op, 0, c.size)>>
<1>1. /\ c.size \in Nat
      /\ c.kind \in Puts \cup Inlines \cup Signals \cup {"get", "get_wait", "post"}
      /\ c.kind = "post" => c.op \in DOMAIN Formats
  BY TransfersAssumption
<1>2. CASE c.kind \in Puts
  <2>1. Data(c) = Chunks("WRITE", c.size)
    BY <1>2, DataOfChunks
  <2>2. c.kind # "post"
    BY <1>2 DEF Puts
  <2>3. /\ Chunks("WRITE", c.size) \in Seq(Wqes) /\ Len(Chunks("WRITE", c.size)) >= 1
        /\ \A k \in 1 .. Len(Chunks("WRITE", c.size)) : Chunks("WRITE", c.size)[k].op \in {"WRITE", "NOP"}
    <3>1. "WRITE" \in {"WRITE", "READ"} /\ c.size \in Nat
      BY <1>1
    <3>2. /\ NumChunks(c.size) \in Nat \ {0}
          /\ Chunks("WRITE", c.size) \in Seq(Wqes) /\ Len(Chunks("WRITE", c.size)) = NumChunks(c.size)
          /\ \A k \in 1 .. NumChunks(c.size) : Chunks("WRITE", c.size)[k].op \in {"WRITE", "NOP"}
      BY <3>1, ChunksKnown, Zenon
    <3> QED BY <3>2
  <2> QED BY <2>1, <2>2, <2>3
<1>3. CASE c.kind = "get"
  <2>1. Data(c) = Chunks("READ", c.size)
    BY <1>3, DataOfChunks
  <2>2. /\ Chunks("READ", c.size) \in Seq(Wqes) /\ Len(Chunks("READ", c.size)) >= 1
        /\ \A k \in 1 .. Len(Chunks("READ", c.size)) : Chunks("READ", c.size)[k].op \in {"READ", "NOP"}
    <3>1. "READ" \in {"WRITE", "READ"} /\ c.size \in Nat
      BY <1>1
    <3>2. /\ NumChunks(c.size) \in Nat \ {0}
          /\ Chunks("READ", c.size) \in Seq(Wqes) /\ Len(Chunks("READ", c.size)) = NumChunks(c.size)
          /\ \A k \in 1 .. NumChunks(c.size) : Chunks("READ", c.size)[k].op \in {"READ", "NOP"}
      BY <3>1, ChunksKnown, Zenon
    <3> QED BY <3>2
  <2> QED BY <1>3, <2>1, <2>2
<1>4. CASE c.kind \in Inlines
  <2>1. Data(c) = <<W("WRITE_INL", 0, c.size)>> /\ c.kind # "post"
    BY <1>4 DEF Data, Puts, Inlines
  <2>2. W("WRITE_INL", 0, c.size) \in Wqes
    BY <1>1, FormatNames DEF W, Wqes
  <2> QED BY <2>1, <2>2 DEF W
<1>5. CASE c.kind = "post"
  <2>1. Data(c) = <<W(c.op, 0, c.size)>>
    BY <1>5 DEF Data, Puts, Inlines
  <2>2. W(c.op, 0, c.size) \in Wqes
    BY <1>1, <1>5 DEF W, Wqes
  <2> QED BY <1>5, <2>1, <2>2
<1>6. CASE c.kind \in {"signal", "get_wait"}
  <2>1. Data(c) = <<>>
    BY <1>6 DEF Data, Puts, Inlines
  <2> QED BY <1>6, <2>1
<1> QED BY <1>1, <1>2, <1>3, <1>4, <1>5, <1>6 DEF Signals, Puts, Inlines

LEMMA ClosingKnown ==
  ASSUME NEW c \in ThreadCalls \cup WarpCalls
  PROVE  \/ c.kind \in Signals /\ Closing(c) = <<W("ATOMIC", 0, 0)>>
         \/ c.kind \notin Signals /\ c.mcst /\ Closing(c) = <<W("DUMP", 0, 0)>>
         \/ c.kind \notin Signals /\ ~c.mcst /\ Closing(c) = <<>>
  BY DEF Closing

(* What a call posts: D, its data, and E, what closes it.                  *)
Parts(p, c, D, E, n, e) ==
  /\ D = Body(p, c) /\ E = Closing(c) /\ n = Len(D) /\ e = Len(E) /\ n + e >= 1
  /\ \A k \in 1 .. e : E[k].op \in {"ATOMIC", "DUMP"}
  /\ p = Warp => n = WarpSize /\ c.kind # "post"
  /\ c.kind # "post" => \A k \in 1 .. n : D[k].op \in {"WRITE", "READ", "WRITE_INL", "NOP"}
  /\ c.kind = "post" => D = <<W(c.op, 0, c.size)>> /\ E = <<>>
  /\ Plan(p, c) \in Seq(Wqes) /\ Len(Plan(p, c)) = n + e
  /\ \A k \in 1 .. n + e : Plan(p, c)[k] = IF k <= n THEN D[k] ELSE E[k - n]

LEMMA PlanParts ==
  ASSUME NEW p \in Callers, NEW c \in CallsOf(p)
  PROVE  \E D \in Seq(Wqes), E \in Seq(Wqes), n \in Nat, e \in {0, 1} : Parts(p, c, D, E, n, e)
<1> PICK D : D = Body(p, c)
  OBVIOUS
<1> PICK Q : Q = Plan(p, c)
  OBVIOUS
<1>1. c \in ThreadCalls \cup WarpCalls /\ c.size \in Nat /\ WarpSize \in Nat \ {0}
  BY TransfersAssumption DEF CallsOf
<1>2. Closing(c) \in Seq(Wqes) /\ Len(Closing(c)) \in {0, 1}
      /\ \A k \in 1 .. Len(Closing(c)) : Closing(c)[k].op \in {"ATOMIC", "DUMP"}
  <2>1. W("ATOMIC", 0, 0) \in Wqes /\ W("DUMP", 0, 0) \in Wqes
    BY FormatNames DEF W, Wqes
  <2>2. W("ATOMIC", 0, 0).op = "ATOMIC" /\ W("DUMP", 0, 0).op = "DUMP"
    BY DEF W
  <2>3. CASE Closing(c) = <<>>
    BY <2>3
  <2>4. CASE Closing(c) = <<W("ATOMIC", 0, 0)>>
    BY <2>1, <2>2, <2>4
  <2>5. CASE Closing(c) = <<W("DUMP", 0, 0)>>
    BY <2>1, <2>2, <2>5
  <2> QED BY <1>1, <2>3, <2>4, <2>5, ClosingKnown
<1>3. Q = D \o Closing(c)
  BY DEF Plan, Body
<1>4. /\ D \in Seq(Wqes) /\ Len(D) + Len(Closing(c)) >= 1
      /\ p = Warp => Len(D) = WarpSize
      /\ c.kind # "post" => \A k \in 1 .. Len(D) : D[k].op \in {"WRITE", "READ", "WRITE_INL", "NOP"}
      /\ c.kind = "post" => D = <<W(c.op, 0, c.size)>> /\ Closing(c) = <<>>
  <2>1. CASE p = Warp
    <3>1. c.kind \in {"put", "get"} /\ (c.mcst => c.kind = "get")
      BY <2>1, TransfersAssumption DEF CallsOf
    <3>2. \A k \in 1 .. WarpSize : W(IF c.kind = "put" THEN "WRITE" ELSE "READ", 0, c.size) \in Wqes
      BY <1>1, FormatNames DEF W, Wqes
    <3>3. D = [k \in 1 .. WarpSize |-> W(IF c.kind = "put" THEN "WRITE" ELSE "READ", 0, c.size)]
      BY <2>1 DEF WarpData, Body
    <3>4. D \in Seq(Wqes) /\ Len(D) = WarpSize
      BY <1>1, <3>2, <3>3
    <3>5. \A k \in 1 .. Len(D) : D[k].op \in {"WRITE", "READ", "WRITE_INL", "NOP"}
      BY <1>1, <3>3, <3>4 DEF W
    <3> QED BY <1>1, <1>2, <3>1, <3>4, <3>5
  <2>2. CASE p # Warp
    <3>1. c \in ThreadCalls /\ D = Data(c)
      BY <2>2 DEF CallsOf, Body
    <3>2. /\ c.mcst => c.kind \in {"get", "get_wait"}
          /\ c.kind = "get_wait" => c.mcst
      BY <3>1, TransfersAssumption
    <3>3. c.kind = "post" => c.kind \notin Signals /\ ~c.mcst
      BY <3>2 DEF Signals
    <3>4. c.kind = "post" => Closing(c) = <<>>
      BY <3>3, <1>1, ClosingKnown
    <3>5. c.kind \in {"signal", "get_wait"} => Len(Closing(c)) = 1
      BY <1>1, <3>2, ClosingKnown DEF Signals
    <3>6. Len(D) \in Nat
      BY <3>1, DataKnown
    <3>7. D \in Seq(Wqes) /\ (c.kind \notin {"signal", "get_wait"} => Len(D) >= 1)
      BY <3>1, DataKnown
    <3>8. Len(D) + Len(Closing(c)) >= 1
      <4>1. PICK m \in Nat, z \in {0, 1} : m = Len(D) /\ z = Len(Closing(c))
        BY <1>2, <3>6
      <4>2. m >= 1 \/ z = 1
        BY <3>5, <3>7, <4>1
      <4>3. m + z >= 1
        BY <4>2
      <4> QED BY <4>1, <4>3
    <3>9. c.kind # "post" => \A k \in 1 .. Len(D) : D[k].op \in {"WRITE", "READ", "WRITE_INL", "NOP"}
      BY <3>1, DataKnown
    <3>10. c.kind = "post" => D = <<W(c.op, 0, c.size)>>
      BY <3>1, DataKnown
    <3> QED BY <2>2, <3>4, <3>7, <3>8, <3>9, <3>10
  <2> QED BY <2>1, <2>2
<1>5. /\ Q \in Seq(Wqes) /\ Len(Q) = Len(D) + Len(Closing(c))
      /\ \A k \in 1 .. Len(D) + Len(Closing(c)) :
           Q[k] = IF k <= Len(D) THEN D[k] ELSE Closing(c)[k - Len(D)]
  BY <1>2, <1>3, <1>4, ConcatProperties
<1>6. p = Warp => c.kind # "post"
  BY TransfersAssumption DEF CallsOf
<1>7. PICK E : E = Closing(c)
  OBVIOUS
<1>8. PICK n \in Nat, e \in {0, 1} : n = Len(D) /\ e = Len(E)
  BY <1>2, <1>4, <1>7
<1>9. /\ D \in Seq(Wqes) /\ E \in Seq(Wqes) /\ n + e >= 1
      /\ \A k \in 1 .. e : E[k].op \in {"ATOMIC", "DUMP"}
      /\ p = Warp => n = WarpSize /\ c.kind # "post"
      /\ c.kind # "post" => \A k \in 1 .. n : D[k].op \in {"WRITE", "READ", "WRITE_INL", "NOP"}
      /\ c.kind = "post" => D = <<W(c.op, 0, c.size)>> /\ E = <<>>
      /\ Q \in Seq(Wqes) /\ Len(Q) = n + e
      /\ \A k \in 1 .. n + e : Q[k] = IF k <= n THEN D[k] ELSE E[k - n]
  BY <1>2, <1>4, <1>5, <1>6, <1>7, <1>8
<1>10. /\ D = Body(p, c) /\ E = Closing(c) /\ n = Len(D) /\ e = Len(E)
       /\ Plan(p, c) \in Seq(Wqes) /\ Len(Plan(p, c)) = n + e
       /\ \A k \in 1 .. n + e : Plan(p, c)[k] = IF k <= n THEN D[k] ELSE E[k - n]
  BY <1>7, <1>8, <1>9
<1>11. Parts(p, c, D, E, n, e)
  BY <1>9, <1>10 DEF Parts
<1> QED BY <1>9, <1>11

(* What a call posts, and what it reserves for it: one slot for every WQE  *)
(* but the last, which has what is left.                                   *)
LEMMA PlanKnown ==
  ASSUME NEW p \in Callers, NEW c \in CallsOf(p)
  PROVE  /\ Plan(p, c) \in Seq(Wqes) /\ Len(Plan(p, c)) >= 1
         /\ Span(p, c) \in Nat
         /\ \A k \in 1 .. Len(Plan(p, c)) :
              /\ Plan(p, c)[k] \in Wqes
              /\ k < Len(Plan(p, c)) => Slots(Plan(p, c)[k].op) = 1
              /\ k = Len(Plan(p, c)) => Span(p, c) = k - 1 + Slots(Plan(p, c)[k].op)
         /\ p = Warp => Len(Plan(p, c)) \in {WarpSize, WarpSize + 1}
<1>1. c \in ThreadCalls \cup WarpCalls /\ c.size \in Nat /\ WarpSize \in Nat \ {0}
  BY TransfersAssumption DEF CallsOf
<1>2. PICK D \in Seq(Wqes), E \in Seq(Wqes), n \in Nat, e \in {0, 1} : Parts(p, c, D, E, n, e)
  BY PlanParts
<1>3. PICK Q \in Seq(Wqes) : Q = Plan(p, c)
  BY <1>2 DEF Parts
<1>4. Len(Q) = n + e /\ \A k \in 1 .. n + e : Q[k] = IF k <= n THEN D[k] ELSE E[k - n]
  BY <1>2, <1>3 DEF Parts
<1>5. \A k \in 1 .. n + e : Q[k] \in Wqes
  BY <1>3, <1>4
<1>6. CASE c.kind = "post"
  <2>1. PICK v : v = W(c.op, 0, c.size)
    OBVIOUS
  <2>2. D = <<v>> /\ E = <<>> /\ p # Warp
    BY <1>2, <1>6, <2>1 DEF Parts
  <2>3. n = 1 /\ e = 0 /\ D[1] = v
    BY <1>2, <2>2 DEF Parts
  <2>4. Len(Q) = 1 /\ Q[1] = v
    BY <1>4, <2>3
  <2>5. v \in Wqes /\ v.op = c.op
    BY <1>5, <2>1, <2>3, <2>4 DEF W
  <2>6. Span(p, c) = Slots(v.op) /\ Slots(v.op) \in Nat
    <3>1. v.op \in DOMAIN Formats
      BY <2>5 DEF Wqes
    <3>2. Slots(v.op) \in Nat
      BY <3>1, SlotsKnown
    <3> QED BY <1>6, <2>5, <3>2 DEF Span
  <2>7. \A k \in 1 .. Len(Q) : k = 1
    BY <2>4
  <2>8. Span(p, c) = 1 - 1 + Slots(v.op)
    BY <2>6
  <2> QED BY <1>3, <2>2, <2>4, <2>5, <2>6, <2>7, <2>8
<1>7. CASE c.kind # "post"
  <2>1. ASSUME NEW k \in 1 .. n + e PROVE Slots(Q[k].op) = 1
    <3>1. Q[k].op \in {"WRITE", "READ", "WRITE_INL", "NOP", "ATOMIC", "DUMP"}
      <4>1. CASE k <= n
        BY <1>2, <1>4, <1>7, <4>1 DEF Parts
      <4>2. CASE k > n
        <5>1. k - n \in 1 .. e /\ Q[k] = E[k - n]
          BY <1>4, <4>2
          <5>2. E[k - n].op \in {"ATOMIC", "DUMP"}
            BY <1>2, <5>1 DEF Parts
          <5> QED BY <5>1, <5>2
      <4> QED BY <4>1, <4>2
    <3>2. Q[k].op # "MASKED_CS8" /\ Q[k].op \in DOMAIN Formats
      BY <3>1, FormatNames
    <3> QED BY <3>2, FormatKnown
  <2>2. Span(p, c) = n + e
    BY <1>2, <1>7 DEF Span, Parts
  <2>3. p = Warp => n + e \in {WarpSize, WarpSize + 1}
    <3>1. p = Warp => n = WarpSize
      BY <1>2 DEF Parts
    <3> QED BY <1>1, <3>1
  <2>4. n + e >= 1
    BY <1>2 DEF Parts
  <2> QED BY <1>3, <1>4, <1>5, <2>1, <2>2, <2>3, <2>4
<1> QED BY <1>6, <1>7

-----------------------------------------------------------------------------
(* The queue.  Segs: what a segment of a WQE holds.  Cell(i, x): where     *)
(* segment x of a WQE at index i lies.                                     *)

Segs == [idx : Nat, op : DOMAIN Formats, off : Nat, len : Nat, by : Actors, call : Nat \ {0}]
Cell(i, x) == slots[SegSlot(i, x)][x % 4]
Written(w) == \A x \in 0 .. Formats[w.op].ds - 1 : Cell(w.idx, x) = w
Start(i) == Cell(i, 0).idx = i

Ordered ==
  /\ done \in Nat /\ rung \in Nat /\ ready \in Nat /\ rsvd \in Nat
  /\ done <= rung /\ rung <= ready /\ ready <= rsvd /\ ready <= done + SlotNum

Ops == {"fill", "submit", "poll"}
OpTyped ==
  /\ DOMAIN slots = 0 .. SlotNum - 1
  /\ op = [p \in Callers |-> op[p]]
  /\ \A p \in Callers : op[p] # Idle =>
       /\ op[p] \in [pc : Ops, call : CallsOf(p), base : Nat, filled : SUBSET Nat, at : Int]
       /\ op[p].filled \subseteq 1 .. Len(Steps(p))
       /\ End(p) <= rsvd

(* The WQE a caller prepares as its k-th.                                  *)
Now(p, k) ==
  [idx |-> op[p].base + k - 1, op |-> Steps(p)[k].op, off |-> Steps(p)[k].off,
   len |-> Steps(p)[k].len, by |-> By(p, k), call |-> Len(asked[By(p, k)])]

Filling(p) ==
  /\ ready <= op[p].base
  /\ op[p].filled # {} => HasRoom(p)
  /\ \A k \in op[p].filled : Written(Now(p, k))

Published(p) ==
  /\ End(p) <= ready
  /\ op[p].pc = "submit" /\ done <= End(p) /\ End(p) < ready => Start(End(p))

OpsInv == \A p \in Callers :
  /\ op[p].pc = "fill" => Filling(p)
  /\ op[p].pc \in {"submit", "poll"} => Published(p)

(* From what completes next to what is published, one whole WQE after the  *)
(* other; the NIC's doorbell is between two.                               *)
Link(v) ==
  /\ v \in Segs /\ Written(v)
  /\ v.idx + Slots(v.op) <= ready
  /\ v.idx + Slots(v.op) < ready => Start(v.idx + Slots(v.op))
Chain ==
  /\ done < ready => Start(done)
  /\ rung < ready => Start(rung)
  /\ \A i \in done .. ready - 1 : Start(i) => Link(Cell(i, 0))

Run ==
  /\ executed \in Seq(Segs)
  /\ \A n \in 1 .. Len(executed) : executed[n].idx < done
  /\ \A n, m \in 1 .. Len(executed) : n < m => executed[n].idx < executed[m].idx

(* The history.  B: the first index of each of an actor's calls.           *)
CallerOf(a) == IF a \in Lanes THEN Warp ELSE a
PlanOf(a, c) == Plan(CallerOf(a), asked[a][c])
SpanOf(a, c) == Span(CallerOf(a), asked[a][c])
Mine(a, c) == {k \in 1 .. Len(PlanOf(a, c)) : By(CallerOf(a), k) = a}
Wqe(B, a, c, k) ==
  [idx |-> B[a][c] + k - 1, op |-> PlanOf(a, c)[k].op, off |-> PlanOf(a, c)[k].off,
   len |-> PlanOf(a, c)[k].len, by |-> a, call |-> c]
Known(B, w) ==
  /\ w.by \in Actors /\ w.call \in 1 .. Len(asked[w.by])
  /\ \E k \in Mine(w.by, w.call) : w = Wqe(B, w.by, w.call, k)

Asked(B) ==
  /\ DOMAIN asked = Actors /\ DOMAIN B = Actors
  /\ \A a \in Actors :
       /\ asked[a] \in Seq(CallsOf(CallerOf(a))) /\ B[a] \in Seq(Nat) /\ Len(B[a]) = Len(asked[a])
       /\ \A c \in 1 .. Len(asked[a]) : B[a][c] + SpanOf(a, c) <= rsvd
       /\ \A c, d \in 1 .. Len(asked[a]) : c < d => B[a][c] + SpanOf(a, c) <= B[a][d]
  /\ \A a, b \in Lanes : asked[a] = asked[b] /\ B[a] = B[b]
  /\ \A a, b \in Actors : CallerOf(a) # CallerOf(b) =>
       \A c \in 1 .. Len(asked[a]), d \in 1 .. Len(asked[b]) :
         B[a][c] + SpanOf(a, c) <= B[b][d] \/ B[b][d] + SpanOf(b, d) <= B[a][c]

Current(B) == \A p \in Callers : op[p] # Idle => \A a \in Members(p) :
  LET n == Len(asked[a])
  IN  n >= 1 /\ asked[a][n] = op[p].call /\ B[a][n] = op[p].base

Traced(B) ==
  /\ \A n \in 1 .. Len(executed) : Known(B, executed[n])
  /\ \A i \in done .. ready - 1 : Start(i) => Known(B, Cell(i, 0))
  /\ \A a \in Actors : \A c \in 1 .. Len(asked[a]) : \A k \in Mine(a, c) :
       LET w == Wqe(B, a, c, k)
       IN  /\ w.idx < done => \E n \in 1 .. Len(executed) : executed[n] = w
           /\ done <= w.idx /\ w.idx < ready => Cell(w.idx, 0) = w

(* Tickets and waits.                                                      *)
TicketIs(B, a, c) ==
  B[a][c] + IF a \in Lanes /\ ~(a = 0 /\ asked[a][c].mcst) THEN a ELSE Len(PlanOf(a, c)) - 1
Tickets(B) ==
  /\ ticket \in [Actors -> Int]
  /\ \A a \in Actors : op[CallerOf(a)].pc \in {"idle", "poll"} /\ asked[a] # <<>> =>
       ticket[a] = TicketIs(B, a, Len(asked[a]))
Waits(B) ==
  /\ DOMAIN waiting = Actors
  /\ \A a \in Actors : waiting[a] # Nowhere =>
       /\ waiting[a] \in [how : {"ticket", "all"}, at : Int]
       /\ ~InCall(a) /\ asked[a] # <<>>
       /\ waiting[a].how = "ticket" => waiting[a].at = ticket[a]
       /\ waiting[a].how = "all" => \A c \in 1 .. Len(asked[a]) : B[a][c] + SpanOf(a, c) - 1 <= waiting[a].at
SeenDone(B) ==
  /\ seen \in [Actors -> Nat] /\ vis \in [Actors -> Nat]
  /\ \A a \in Actors :
       /\ seen[a] <= Len(asked[a]) /\ vis[a] <= Len(asked[a])
       /\ \A c \in 1 .. seen[a] : \A k \in Mine(a, c) : B[a][c] + k - 1 < done
       /\ vis[a] > 0 => asked[a][vis[a]].mcst /\ B[a][vis[a]] + Len(PlanOf(a, vis[a])) - 1 < done

History(B) == Asked(B) /\ Current(B) /\ Traced(B)
Outcome(B) == Tickets(B) /\ Waits(B) /\ SeenDone(B)
QueueInv == Ordered /\ OpTyped /\ OpsInv /\ Chain /\ Run
TrInv == QueueInv /\ \E B \in [Actors -> Seq(Nat)] : History(B) /\ Outcome(B)

-----------------------------------------------------------------------------
(* Actors and callers.                                                     *)

LEMMA Callers_ ==
  /\ \A a \in Actors : CallerOf(a) \in Callers /\ a \in Members(CallerOf(a))
  /\ \A p \in Callers : \A a \in Members(p) : a \in Actors /\ CallerOf(a) = p
  /\ \A p \in Callers : Members(p) # {}
<1>1. WarpSize \in Nat \ {0} /\ Warp \notin Threads /\ \A x \in Threads : x \notin Lanes
  BY TransfersAssumption
<1>2. 0 \in Lanes
  BY <1>1 DEF Lanes
<1> QED BY <1>1, <1>2 DEF Actors, CallerOf, Callers, Members

LEMMA ByMember ==
  ASSUME NEW p \in Callers, NEW c \in CallsOf(p), NEW k \in 1 .. Len(Plan(p, c))
  PROVE  By(p, k) \in Members(p)
<1>1. WarpSize \in Nat \ {0}
  BY TransfersAssumption
<1>2. CASE p # Warp
  BY <1>2 DEF By, Members
<1>3. CASE p = Warp
  <2>1. Len(Plan(p, c)) \in {WarpSize, WarpSize + 1}
    BY <1>3, PlanKnown
  <2>2. k \in Nat /\ k >= 1
    BY <1>1, <2>1
  <2> QED BY <1>1, <1>3, <2>2 DEF By, Members, Lanes
<1> QED BY <1>2, <1>3

LEMMA SpanSum ==
  ASSUME NEW n \in Nat, n >= 1, NEW b \in Nat, NEW s \in Nat, NEW sz \in [1 .. n -> {1, 2}],
         \A k \in 1 .. n : (k < n => sz[k] = 1) /\ (k = n => s = k - 1 + sz[k])
  PROVE  /\ \A k \in 1 .. n : /\ k = n => b + k - 1 + sz[k] = b + s
                            /\ b + k - 1 + sz[k] <= b + s
         /\ b + n <= b + s
<1>1. n \in 1 .. n
  OBVIOUS
<1>2. s = n - 1 + sz[n] /\ sz[n] \in {1, 2}
  BY <1>1
<1>3. b + n <= b + s
  BY <1>2
<1>4. ASSUME NEW k \in 1 .. n
      PROVE  (k = n => b + k - 1 + sz[k] = b + s) /\ b + k - 1 + sz[k] <= b + s
  BY <1>2, <1>3
<1> QED BY <1>3, <1>4

(* What is known of a caller in a call.                                    *)
LEMMA StepsKnown ==
  ASSUME OpTyped, NEW p \in Callers, op[p] # Idle
  PROVE  /\ op[p].pc \in Ops /\ op[p].call \in CallsOf(p) /\ op[p].base \in Nat /\ op[p].at \in Int
         /\ Steps(p) = Plan(p, op[p].call) /\ Len(Steps(p)) \in Nat /\ Len(Steps(p)) >= 1
         /\ DOMAIN Steps(p) = 1 .. Len(Steps(p))
         /\ Span(p, op[p].call) \in Nat
         /\ End(p) = op[p].base + Span(p, op[p].call) /\ End(p) \in Nat /\ End(p) <= rsvd
         /\ op[p].base + Len(Steps(p)) <= End(p)
         /\ op[p].filled \subseteq 1 .. Len(Steps(p))
         /\ \A k \in 1 .. Len(Steps(p)) :
              /\ Steps(p)[k] \in Wqes /\ Slots(Steps(p)[k].op) \in {1, 2}
              /\ k < Len(Steps(p)) => Slots(Steps(p)[k].op) = 1
              /\ k = Len(Steps(p)) => op[p].base + k - 1 + Slots(Steps(p)[k].op) = End(p)
              /\ op[p].base + k - 1 + Slots(Steps(p)[k].op) <= End(p)
<1>1. /\ op[p].pc \in Ops /\ op[p].call \in CallsOf(p) /\ op[p].base \in Nat /\ op[p].at \in Int
      /\ op[p].filled \subseteq 1 .. Len(Steps(p)) /\ End(p) <= rsvd
  BY DEF OpTyped
<1> DEFINE Q == Plan(p, op[p].call)
<1>2. Steps(p) = Q /\ Q = Plan(p, op[p].call) /\ End(p) = op[p].base + Span(p, op[p].call)
  BY DEF Steps, End
<1>3. /\ Q \in Seq(Wqes) /\ Len(Q) >= 1 /\ Span(p, op[p].call) \in Nat
      /\ \A k \in 1 .. Len(Q) : /\ Q[k] \in Wqes
                                /\ k < Len(Q) => Slots(Q[k].op) = 1
                                /\ k = Len(Q) => Span(p, op[p].call) = k - 1 + Slots(Q[k].op)
  BY <1>1, PlanKnown
<1> HIDE DEF Q
<1>4. Len(Q) \in Nat /\ Len(Q) >= 1 /\ DOMAIN Q = 1 .. Len(Q)
  BY <1>3
<1>5. ASSUME NEW k \in 1 .. Len(Q)
      PROVE  Q[k] \in Wqes /\ Slots(Q[k].op) \in {1, 2}
  <2>1. Q[k] \in Wqes
    BY <1>3
  <2> QED BY <2>1, SlotsKnown DEF Wqes
<1>6. /\ \A k \in 1 .. Len(Q) : /\ k = Len(Q) => op[p].base + k - 1 + Slots(Q[k].op) = op[p].base + Span(p, op[p].call)
                                /\ op[p].base + k - 1 + Slots(Q[k].op) <= op[p].base + Span(p, op[p].call)
      /\ op[p].base + Len(Q) <= op[p].base + Span(p, op[p].call)
  <2> DEFINE sz == [k \in 1 .. Len(Q) |-> Slots(Q[k].op)]
  <2>1. /\ sz \in [1 .. Len(Q) -> {1, 2}]
        /\ \A k \in 1 .. Len(Q) : /\ sz[k] = Slots(Q[k].op)
                                  /\ k < Len(Q) => sz[k] = 1
                                  /\ k = Len(Q) => Span(p, op[p].call) = k - 1 + sz[k]
    BY <1>3, <1>5
  <2> HIDE DEF sz
  <2>2. /\ \A k \in 1 .. Len(Q) : /\ k = Len(Q) => op[p].base + k - 1 + sz[k] = op[p].base + Span(p, op[p].call)
                                  /\ op[p].base + k - 1 + sz[k] <= op[p].base + Span(p, op[p].call)
        /\ op[p].base + Len(Q) <= op[p].base + Span(p, op[p].call)
    <3>1. /\ Len(Q) \in Nat /\ Len(Q) >= 1 /\ op[p].base \in Nat /\ Span(p, op[p].call) \in Nat
          /\ \A k \in 1 .. Len(Q) : (k < Len(Q) => sz[k] = 1) /\ (k = Len(Q) => Span(p, op[p].call) = k - 1 + sz[k])
      BY <1>1, <1>3, <1>4, <2>1
    <3>2. sz \in [1 .. Len(Q) -> {1, 2}]
      BY <2>1
    <3> QED BY <3>1, <3>2, SpanSum, Zenon
  <2> QED BY <2>1, <2>2
<1>7. op[p].base + Span(p, op[p].call) \in Nat
  BY <1>1, <1>3
<1>8. \A k \in 1 .. Len(Q) : k < Len(Q) => Slots(Q[k].op) = 1
  BY <1>3
<1>9. End(p) \in Nat
  BY <1>2, <1>7
<1> QED BY <1>1, <1>2, <1>3, <1>4, <1>5, <1>6, <1>8, <1>9, Zenon

(* Where the segments of a WQE lie.                                        *)
LEMMA SegmentLies ==
  ASSUME NEW i \in Nat, NEW o \in DOMAIN Formats, NEW x \in 0 .. Formats[o].ds - 1
  PROVE  /\ x \div 4 \in 0 .. Slots(o) - 1 /\ x % 4 \in 0 .. 3
         /\ SegSlot(i, x) = (i + x \div 4) % SlotNum
         /\ SegSlot(i, x) \in 0 .. SlotNum - 1
<1>1. SlotNum \in Nat \ {0}
  BY TransfersAssumption
<1>2. Formats[o].ds \in 1 .. 5 /\ Slots(o) = IF Formats[o].ds = 5 THEN 2 ELSE 1
  BY FormatKnown
<1>3. x \div 4 \in 0 .. Slots(o) - 1 /\ x % 4 \in 0 .. 3
  <2>1. x \in 0 .. 4 /\ (x = 4 => Formats[o].ds = 5)
    BY <1>2
  <2>2. CASE x = 4
    BY <1>2, <2>1, <2>2
  <2>3. CASE x # 4
    <3>1. x \div 4 = 0 /\ x % 4 \in 0 .. 3
      BY <2>1, <2>3
    <3> QED BY <1>2, <3>1
  <2> QED BY <2>2, <2>3
<1>4. i + x \div 4 \in Int
  BY <1>2, <1>3
<1>5. (i + x \div 4) % SlotNum \in 0 .. SlotNum - 1
  BY <1>1, <1>4, DivMod
<1> QED BY <1>3, <1>5 DEF SegSlot

(* The second slot of a WQE does not look like the start of one.           *)
LEMMA Continued ==
  ASSUME NEW w \in Segs, Written(w), Slots(w.op) = 2
  PROVE  ~Start(w.idx + 1)
<1>1. w.idx \in Nat /\ w.op \in DOMAIN Formats
  BY DEF Segs
<1>2. Formats[w.op].ds = 5
  BY <1>1, FormatKnown
<1>3. Cell(w.idx, 4) = w
  BY <1>2 DEF Written
<1>4. SegSlot(w.idx, 4) = SegSlot(w.idx + 1, 0) /\ 4 % 4 = 0 % 4
  BY <1>1 DEF SegSlot
<1>5. Cell(w.idx + 1, 0) = w
  BY <1>3, <1>4 DEF Cell
<1> QED BY <1>1, <1>5 DEF Start

(* A call of the history: its plan and its place.                          *)
LEMMA CallKnown ==
  ASSUME NEW B, Asked(B), NEW a \in Actors, NEW c \in 1 .. Len(asked[a])
  PROVE  /\ B[a][c] \in Nat /\ asked[a][c] \in CallsOf(CallerOf(a))
         /\ PlanOf(a, c) \in Seq(Wqes) /\ Len(PlanOf(a, c)) \in Nat /\ Len(PlanOf(a, c)) >= 1
         /\ SpanOf(a, c) \in Nat /\ Len(PlanOf(a, c)) <= SpanOf(a, c)
         /\ B[a][c] + SpanOf(a, c) <= rsvd
         /\ \A k \in 1 .. Len(PlanOf(a, c)) :
              PlanOf(a, c)[k] \in Wqes /\ k - 1 + Slots(PlanOf(a, c)[k].op) <= SpanOf(a, c)
<1> DEFINE p == CallerOf(a)
           Q == Plan(p, asked[a][c])
<1>1. /\ asked[a] \in Seq(CallsOf(p)) /\ B[a] \in Seq(Nat) /\ Len(B[a]) = Len(asked[a])
      /\ B[a][c] + SpanOf(a, c) <= rsvd
  BY DEF Asked
<1>2. B[a][c] \in Nat /\ asked[a][c] \in CallsOf(p)
  BY <1>1
<1>3. p \in Callers
  BY Callers_
<1>4. /\ Q \in Seq(Wqes) /\ Len(Q) >= 1 /\ Span(p, asked[a][c]) \in Nat
      /\ \A k \in 1 .. Len(Q) : /\ Q[k] \in Wqes
                                /\ k < Len(Q) => Slots(Q[k].op) = 1
                                /\ k = Len(Q) => Span(p, asked[a][c]) = k - 1 + Slots(Q[k].op)
  BY <1>2, <1>3, PlanKnown
<1>5. PlanOf(a, c) = Q /\ SpanOf(a, c) = Span(p, asked[a][c])
  BY DEF PlanOf, SpanOf
<1> HIDE DEF Q, p
<1>6. Len(Q) \in Nat
  BY <1>4
<1>7. \A k \in 1 .. Len(Q) : Q[k] \in Wqes /\ Slots(Q[k].op) \in {1, 2}
  BY <1>4, SlotsKnown DEF Wqes
<1> DEFINE sz == [k \in 1 .. Len(Q) |-> Slots(Q[k].op)]
<1>8. /\ sz \in [1 .. Len(Q) -> {1, 2}]
      /\ \A k \in 1 .. Len(Q) : /\ sz[k] = Slots(Q[k].op)
                                /\ k < Len(Q) => sz[k] = 1
                                /\ k = Len(Q) => Span(p, asked[a][c]) = k - 1 + sz[k]
  BY <1>4, <1>7
<1> HIDE DEF sz
<1>9. /\ \A k \in 1 .. Len(Q) : 0 + k - 1 + sz[k] <= 0 + Span(p, asked[a][c])
      /\ 0 + Len(Q) <= 0 + Span(p, asked[a][c])
  <2>1. /\ Len(Q) \in Nat /\ Len(Q) >= 1 /\ 0 \in Nat /\ Span(p, asked[a][c]) \in Nat
        /\ \A k \in 1 .. Len(Q) : (k < Len(Q) => sz[k] = 1) /\ (k = Len(Q) => Span(p, asked[a][c]) = k - 1 + sz[k])
        /\ sz \in [1 .. Len(Q) -> {1, 2}]
    BY <1>4, <1>6, <1>8
  <2> QED BY <2>1, SpanSum, Zenon
<1>10. ASSUME NEW k \in 1 .. Len(Q) PROVE k - 1 + Slots(Q[k].op) <= Span(p, asked[a][c])
  BY <1>4, <1>6, <1>8, <1>9
<1>11. Len(Q) <= Span(p, asked[a][c])
  BY <1>4, <1>6, <1>9
<1>12. Q \in Seq(Wqes) /\ Len(Q) >= 1 /\ Span(p, asked[a][c]) \in Nat
  BY <1>4
<1>13. asked[a][c] \in CallsOf(CallerOf(a))
  BY <1>2 DEF p
<1> QED BY <1>1, <1>2, <1>5, <1>6, <1>7, <1>10, <1>11, <1>12, <1>13, Zenon

LEMMA WqeKnown ==
  ASSUME NEW B, Asked(B), NEW a \in Actors, NEW c \in 1 .. Len(asked[a]), NEW k \in Mine(a, c)
  PROVE  /\ Wqe(B, a, c, k) \in Segs /\ Wqe(B, a, c, k).idx \in Nat
         /\ Wqe(B, a, c, k).idx = B[a][c] + k - 1 /\ Wqe(B, a, c, k).op = PlanOf(a, c)[k].op
         /\ Wqe(B, a, c, k).by = a /\ Wqe(B, a, c, k).call = c
         /\ k \in 1 .. Len(PlanOf(a, c)) /\ k \in Nat /\ B[a][c] \in Nat /\ B[a][c] <= Wqe(B, a, c, k).idx
         /\ Wqe(B, a, c, k).idx + Slots(Wqe(B, a, c, k).op) <= B[a][c] + SpanOf(a, c)
         /\ Wqe(B, a, c, k).idx < B[a][c] + SpanOf(a, c)
<1>1. /\ B[a][c] \in Nat /\ Len(PlanOf(a, c)) \in Nat /\ SpanOf(a, c) \in Nat
      /\ Len(PlanOf(a, c)) <= SpanOf(a, c)
      /\ \A j \in 1 .. Len(PlanOf(a, c)) :
           PlanOf(a, c)[j] \in Wqes /\ j - 1 + Slots(PlanOf(a, c)[j].op) <= SpanOf(a, c)
  BY CallKnown
<1>2. k \in 1 .. Len(PlanOf(a, c)) /\ k \in Nat
  BY <1>1 DEF Mine
<1>3. /\ PlanOf(a, c)[k] \in Wqes /\ k - 1 + Slots(PlanOf(a, c)[k].op) <= SpanOf(a, c)
      /\ Slots(PlanOf(a, c)[k].op) \in {1, 2}
  BY <1>1, <1>2, SlotsKnown DEF Wqes
<1>4. c \in Nat \ {0}
  BY DEF Asked
<1>5. /\ B[a][c] + k - 1 \in Nat /\ B[a][c] <= B[a][c] + k - 1
      /\ B[a][c] + k - 1 + Slots(PlanOf(a, c)[k].op) <= B[a][c] + SpanOf(a, c)
      /\ B[a][c] + k - 1 < B[a][c] + SpanOf(a, c)
  <2>1. ASSUME NEW b \in Nat, NEW s \in Nat, NEW z \in {1, 2}, k - 1 + z <= s
        PROVE  b + k - 1 \in Nat /\ b <= b + k - 1 /\ b + k - 1 + z <= b + s /\ b + k - 1 < b + s
    <3>1. k >= 1
      BY <1>1, <1>2
    <3> QED BY <1>2, <2>1, <3>1
  <2> QED BY <1>1, <1>3, <2>1
<1>6. Wqe(B, a, c, k) \in Segs
  BY <1>3, <1>4, <1>5 DEF Wqe, Segs, Wqes
<1> QED BY <1>1, <1>2, <1>3, <1>5, <1>6 DEF Wqe

(* A caller in a call, and the last call of its members.                   *)
LEMMA MemberKnown ==
  ASSUME NEW B, OpTyped, Asked(B), Current(B), NEW p \in Callers, op[p] # Idle, NEW a \in Members(p)
  PROVE  /\ a \in Actors /\ CallerOf(a) = p
         /\ Len(asked[a]) \in 1 .. Len(asked[a]) /\ Len(asked[a]) \in Nat
         /\ asked[a][Len(asked[a])] = op[p].call /\ B[a][Len(asked[a])] = op[p].base
         /\ PlanOf(a, Len(asked[a])) = Steps(p) /\ SpanOf(a, Len(asked[a])) = Span(p, op[p].call)
<1>1. a \in Actors /\ CallerOf(a) = p
  BY Callers_
<1>2. Len(asked[a]) \in Nat
  BY <1>1 DEF Asked
<1>3. Len(asked[a]) >= 1 /\ asked[a][Len(asked[a])] = op[p].call /\ B[a][Len(asked[a])] = op[p].base
  BY DEF Current
<1> QED BY <1>1, <1>2, <1>3 DEF PlanOf, SpanOf, Steps

LEMMA NowKnown ==
  ASSUME NEW B, OpTyped, Asked(B), Current(B), NEW p \in Callers, op[p] # Idle,
         NEW k \in 1 .. Len(Steps(p))
  PROVE  LET a == By(p, k)
             n == Len(asked[a])
         IN  /\ a \in Members(p) /\ a \in Actors /\ n \in 1 .. Len(asked[a]) /\ k \in Mine(a, n)
             /\ Now(p, k) = Wqe(B, a, n, k)
             /\ Now(p, k) \in Segs /\ Now(p, k).idx = op[p].base + k - 1
             /\ Now(p, k).op = Steps(p)[k].op /\ Now(p, k).op \in DOMAIN Formats
<1> DEFINE a == By(p, k)
           n == Len(asked[a])
<1>1. a \in Members(p)
  BY StepsKnown, ByMember
<1>2. /\ a \in Actors /\ CallerOf(a) = p /\ n \in 1 .. Len(asked[a])
      /\ B[a][n] = op[p].base /\ PlanOf(a, n) = Steps(p)
  BY <1>1, MemberKnown
<1>3. k \in Mine(a, n)
  BY <1>2 DEF Mine
<1>4. Now(p, k) = Wqe(B, a, n, k)
  BY <1>2 DEF Now, Wqe
<1>5. Wqe(B, a, n, k) \in Segs /\ Wqe(B, a, n, k).idx = op[p].base + k - 1
      /\ Wqe(B, a, n, k).op = Steps(p)[k].op
  BY <1>2, <1>3, WqeKnown
<1>6. Now(p, k).op \in DOMAIN Formats
  BY <1>4, <1>5 DEF Segs
<1> QED BY <1>1, <1>2, <1>3, <1>4, <1>5, <1>6

(* Two callers' calls lie apart.                                           *)
LEMMA OpsApart ==
  ASSUME NEW B, OpTyped, Asked(B), Current(B),
         NEW p \in Callers, op[p] # Idle, NEW q \in Callers, op[q] # Idle, p # q
  PROVE  End(p) <= op[q].base \/ End(q) <= op[p].base
<1>1. PICK a \in Members(p) : TRUE
  BY Callers_
<1>2. PICK b \in Members(q) : TRUE
  BY Callers_
<1>3. /\ a \in Actors /\ CallerOf(a) = p /\ Len(asked[a]) \in 1 .. Len(asked[a])
      /\ B[a][Len(asked[a])] = op[p].base /\ SpanOf(a, Len(asked[a])) = Span(p, op[p].call)
  BY MemberKnown
<1>4. /\ b \in Actors /\ CallerOf(b) = q /\ Len(asked[b]) \in 1 .. Len(asked[b])
      /\ B[b][Len(asked[b])] = op[q].base /\ SpanOf(b, Len(asked[b])) = Span(q, op[q].call)
  BY MemberKnown
<1>5. \/ op[p].base + Span(p, op[p].call) <= op[q].base
      \/ op[q].base + Span(q, op[q].call) <= op[p].base
  BY <1>3, <1>4 DEF Asked
<1> QED BY <1>5 DEF End

(* Two segments at places of a window of the queue's size are two cells.   *)
LEMMA CellsApart ==
  ASSUME NEW i \in Nat, NEW o \in DOMAIN Formats, NEW x \in 0 .. Formats[o].ds - 1,
         NEW j \in Nat, NEW r \in DOMAIN Formats, NEW y \in 0 .. Formats[r].ds - 1,
         NEW d \in Nat, d <= i, i + Slots(o) <= d + SlotNum, d <= j, j + Slots(r) <= d + SlotNum,
         i + Slots(o) <= j \/ j + Slots(r) <= i
  PROVE  SegSlot(i, x) # SegSlot(j, y)
<1>1. SlotNum \in Nat \ {0} /\ Slots(o) \in {1, 2} /\ Slots(r) \in {1, 2}
  BY SlotsKnown, TransfersAssumption
<1>2. SegSlot(i, x) = (i + x \div 4) % SlotNum /\ x \div 4 \in 0 .. Slots(o) - 1
  BY SegmentLies
<1>3. SegSlot(j, y) = (j + y \div 4) % SlotNum /\ y \div 4 \in 0 .. Slots(r) - 1
  BY SegmentLies
<1>4. ASSUME NEW e \in 0 .. Slots(o) - 1, NEW f \in 0 .. Slots(r) - 1
      PROVE  (i + e) % SlotNum # (j + f) % SlotNum
  <2>1. i + e \in Int /\ j + f \in Int /\ i + e # j + f /\ i + e < (j + f) + SlotNum /\ j + f < (i + e) + SlotNum
    BY <1>1
  <2>2. CASE i + e <= j + f
    BY <1>1, <2>1, <2>2, SameSlot
  <2>3. CASE j + f <= i + e
    BY <1>1, <2>1, <2>3, SameSlot
  <2> QED BY <2>1, <2>2, <2>3
<1> QED BY <1>2, <1>3, <1>4

-----------------------------------------------------------------------------
(* Filling.                                                                *)

LEMMA FillCells ==
  ASSUME NEW B, Ordered, OpTyped, OpsInv, Asked(B), Current(B),
         NEW p \in Callers, op[p] # Idle, NEW k \in 1 .. Len(Steps(p)), Fill(p, k),
         NEW w, w = Now(p, k)
  PROVE  /\ done <= w.idx /\ w.idx + Slots(w.op) <= done + SlotNum
         /\ \A x \in 0 .. Formats[w.op].ds - 1 : Cell(w.idx, x)' = w
         /\ \A i \in Nat, o \in DOMAIN Formats : \A x \in 0 .. Formats[o].ds - 1 :
              /\ done <= i /\ i + Slots(o) <= done + SlotNum
              /\ i + Slots(o) <= w.idx \/ w.idx + Slots(w.op) <= i
              => Cell(i, x)' = Cell(i, x)
<1>1. /\ op[p].pc = "fill" /\ HasRoom(p) /\ DOMAIN slots = 0 .. SlotNum - 1 /\ ready <= op[p].base
  BY DEF Fill, OpTyped, OpsInv, Filling
<1>2. /\ w \in Segs /\ w.idx = op[p].base + k - 1 /\ w.op = Steps(p)[k].op /\ w.op \in DOMAIN Formats
  BY NowKnown
<1>3. /\ op[p].base \in Nat /\ End(p) \in Nat /\ Slots(w.op) \in {1, 2}
      /\ op[p].base + k - 1 + Slots(w.op) <= End(p)
  BY <1>2, StepsKnown
<1>4. SlotNum \in Nat \ {0} /\ w.idx \in Nat
  BY <1>2, TransfersAssumption DEF Segs
<1>5. done <= w.idx /\ w.idx + Slots(w.op) <= done + SlotNum
  <2>1. /\ done \in Nat /\ ready \in Nat /\ done <= ready /\ ready <= op[p].base
        /\ End(p) <= done + SlotNum /\ Len(Steps(p)) \in Nat
    BY <1>1, StepsKnown DEF Ordered, HasRoom
  <2>2. PICK b \in Nat, e \in Nat, z \in {1, 2}, n \in Nat :
          b = op[p].base /\ e = End(p) /\ z = Slots(w.op) /\ n = SlotNum
    BY <1>3, <1>4
  <2>3. k \in Nat /\ k >= 1
    BY <2>1
  <2>4. done <= b /\ b + k - 1 + z <= e /\ e <= done + n /\ w.idx = b + k - 1
    BY <1>2, <1>3, <2>1, <2>2
  <2>5. done <= b + k - 1 /\ b + k - 1 + z <= done + n
    BY <2>1, <2>3, <2>4
  <2> QED BY <2>2, <2>4, <2>5
<1> DEFINE At(s, g) == \E x \in Formats[w.op].stored : SegSlot(w.idx, x) = s /\ x % 4 = g
<1>6. slots' = [s \in DOMAIN slots |-> [g \in 0 .. 3 |-> IF At(s, g) THEN w ELSE slots[s][g]]]
  BY <1>2 DEF Fill, Now
<1>7. Formats[w.op].stored = 0 .. Formats[w.op].ds - 1
  BY <1>2, FormatKnown
<1>8. ASSUME NEW x \in 0 .. Formats[w.op].ds - 1 PROVE Cell(w.idx, x)' = w
  <2>1. SegSlot(w.idx, x) \in 0 .. SlotNum - 1 /\ x % 4 \in 0 .. 3
    BY <1>2, <1>4, SegmentLies
  <2>2. At(SegSlot(w.idx, x), x % 4)
    BY <1>7
  <2>3. slots'[SegSlot(w.idx, x)][x % 4] = w
    BY <1>1, <1>6, <2>1, <2>2
  <2> QED BY <2>3 DEF Cell
<1>9. ASSUME NEW i \in Nat, NEW o \in DOMAIN Formats, NEW x \in 0 .. Formats[o].ds - 1,
             done <= i, i + Slots(o) <= done + SlotNum,
             i + Slots(o) <= w.idx \/ w.idx + Slots(w.op) <= i
      PROVE  Cell(i, x)' = Cell(i, x)
  <2>1. SegSlot(i, x) \in 0 .. SlotNum - 1 /\ x % 4 \in 0 .. 3
    BY SegmentLies
  <2>2. done \in Nat
    BY DEF Ordered
  <2>3. \A y \in 0 .. Formats[w.op].ds - 1 : SegSlot(i, x) # SegSlot(w.idx, y)
    <3> SUFFICES ASSUME NEW y \in 0 .. Formats[w.op].ds - 1
                 PROVE  SegSlot(i, x) # SegSlot(w.idx, y)
      OBVIOUS
    <3>1. /\ w.idx \in Nat /\ w.op \in DOMAIN Formats /\ done <= i /\ i + Slots(o) <= done + SlotNum
          /\ done <= w.idx /\ w.idx + Slots(w.op) <= done + SlotNum
          /\ i + Slots(o) <= w.idx \/ w.idx + Slots(w.op) <= i
      BY <1>2, <1>4, <1>5, <1>9
    <3> QED BY <2>2, <3>1, CellsApart, Zenon
  <2>4. ~At(SegSlot(i, x), x % 4)
    BY <1>7, <2>3
  <2> HIDE DEF At
  <2>5. slots'[SegSlot(i, x)][x % 4] = slots[SegSlot(i, x)][x % 4]
    BY <1>1, <1>6, <2>1, <2>4
  <2> QED BY <2>5 DEF Cell
<1> QED BY <1>5, <1>8, <1>9

(* A step that leaves an actor's last call, and a caller, alone leaves the *)
(* WQEs that caller prepares alone.                                        *)
LEMMA NowKept ==
  ASSUME OpTyped, NEW p \in Callers, op[p] # Idle, op'[p].base = op[p].base, op'[p].call = op[p].call,
         \A a \in Members(p) : asked'[a] = asked[a], NEW k \in 1 .. Len(Steps(p))
  PROVE  Now(p, k)' = Now(p, k) /\ Steps(p)' = Steps(p) /\ End(p)' = End(p)
<1>1. By(p, k) \in Members(p)
  BY StepsKnown, ByMember
<1>2. Steps(p)' = Steps(p) /\ End(p)' = End(p)
  BY DEF Steps, End
<1> QED BY <1>1, <1>2 DEF Now

LEMMA FillQueue ==
  ASSUME NEW B, QueueInv, Asked(B), Current(B), NEW p \in Callers, op[p] # Idle,
         NEW k \in 1 .. Len(Steps(p)), Fill(p, k)
  PROVE  QueueInv'
<1> PICK w : w = Now(p, k)
  OBVIOUS
<1>0. Ordered /\ OpTyped /\ OpsInv /\ Chain /\ Run
  BY DEF QueueInv
<1>1. /\ op[p].pc = "fill" /\ HasRoom(p) /\ ready <= op[p].base
      /\ op' = [op EXCEPT ![p].filled = @ \cup {k}]
      /\ DOMAIN slots' = DOMAIN slots
      /\ UNCHANGED <<rsvd, ready, rung, done, executed, asked, ticket, waiting, seen, vis>>
  BY <1>0 DEF Fill, OpsInv, Filling
<1>2. /\ w \in Segs /\ w.idx = op[p].base + k - 1 /\ w.op = Steps(p)[k].op /\ w.op \in DOMAIN Formats
  BY <1>0, NowKnown
<1>3. /\ op[p].base \in Nat /\ End(p) \in Nat /\ Slots(w.op) \in {1, 2} /\ w.idx \in Nat
      /\ op[p].base + k - 1 + Slots(w.op) <= End(p) /\ op[p].filled \subseteq 1 .. Len(Steps(p))
      /\ Len(Steps(p)) \in Nat
  BY <1>0, <1>2, StepsKnown DEF Segs
<1>4. /\ done <= w.idx /\ w.idx + Slots(w.op) <= done + SlotNum
      /\ \A x \in 0 .. Formats[w.op].ds - 1 : Cell(w.idx, x)' = w
      /\ \A i \in Nat, o \in DOMAIN Formats : \A x \in 0 .. Formats[o].ds - 1 :
           /\ done <= i /\ i + Slots(o) <= done + SlotNum
           /\ i + Slots(o) <= w.idx \/ w.idx + Slots(w.op) <= i
           => Cell(i, x)' = Cell(i, x)
  BY <1>0, FillCells
<1>5. done \in Nat /\ ready \in Nat /\ SlotNum \in Nat \ {0} /\ ready <= done + SlotNum /\ done <= ready
  BY <1>0, TransfersAssumption DEF Ordered
<1>20. ready \in Int /\ w.idx \in Int /\ ready <= w.idx
  <2>1. PICK b \in Nat, i \in Nat : b = op[p].base /\ i = w.idx
    BY <1>3
  <2>2. k \in Nat /\ k >= 1 /\ i = b + k - 1 /\ ready <= b
    BY <1>1, <1>2, <1>3, <2>1
  <2> QED BY <1>5, <2>1, <2>2
<1>6. ASSUME NEW v \in Segs, Written(v), done <= v.idx, v.idx + Slots(v.op) <= done + SlotNum,
             v.idx + Slots(v.op) <= w.idx \/ w.idx + Slots(w.op) <= v.idx
      PROVE  \A x \in 0 .. Formats[v.op].ds - 1 : Cell(v.idx, x)' = v
  <2>1. v.idx \in Nat /\ v.op \in DOMAIN Formats
    BY DEF Segs
  <2> QED BY <1>4, <1>6, <2>1 DEF Written
<1>7. \A i \in done .. ready - 1 : Cell(i, 0)' = Cell(i, 0)
  <2> SUFFICES ASSUME NEW i \in done .. ready - 1 PROVE Cell(i, 0)' = Cell(i, 0)
    OBVIOUS
  <2>1. "NOP" \in DOMAIN Formats /\ Slots("NOP") = 1
    BY FormatNames, FormatKnown
  <2>2. 0 \in 0 .. Formats["NOP"].ds - 1
    BY <2>1, FormatKnown
  <2>3. i \in Nat /\ done <= i /\ i + 1 <= done + SlotNum /\ i + 1 <= w.idx
    BY <1>5, <1>20
  <2> QED BY <1>4, <2>1, <2>2, <2>3
<1>8. /\ \A q \in Callers \ {p} : op'[q] = op[q]
      /\ op'[p] = [op[p] EXCEPT !.filled = op[p].filled \cup {k}]
      /\ op' = [q \in Callers |-> op'[q]]
  BY <1>0, <1>1 DEF OpTyped
<1>9. /\ op'[p].pc = "fill" /\ op'[p].base = op[p].base /\ op'[p].call = op[p].call
      /\ op'[p].filled = op[p].filled \cup {k}
      /\ op'[p] \in [pc : Ops, call : CallsOf(p), base : Nat, filled : SUBSET Nat, at : Int]
  <2>1. op[p] \in [pc : Ops, call : CallsOf(p), base : Nat, filled : SUBSET Nat, at : Int]
    BY <1>0 DEF OpTyped
  <2> QED BY <1>1, <1>8, <2>1
<1>10. Steps(p)' = Steps(p) /\ End(p)' = End(p)
  BY <1>9 DEF Steps, End
<1>11. \A q \in Callers : op[q] # Idle => \A j \in 1 .. Len(Steps(q)) : Now(q, j)' = Now(q, j)
  BY <1>0, <1>1, <1>8, <1>9, NowKept
<1>12. Ordered'
  BY <1>0, <1>1 DEF Ordered
<1>13. OpTyped'
  <2>1. ASSUME NEW q \in Callers, op'[q] # Idle
        PROVE  (/\ op[q] \in [pc : Ops, call : CallsOf(q), base : Nat, filled : SUBSET Nat, at : Int]
                /\ op[q].filled \subseteq 1 .. Len(Steps(q))
                /\ End(q) <= rsvd)'
    <3>1. CASE q = p
      BY <1>0, <1>1, <1>3, <1>9, <1>10, <3>1 DEF OpTyped
    <3>2. CASE q # p
      BY <1>0, <1>1, <1>8, <2>1, <3>2 DEF OpTyped, Steps, End
    <3> QED BY <3>1, <3>2
  <2> QED BY <1>0, <1>1, <1>8, <2>1 DEF OpTyped
<1>14. ASSUME NEW q \in Callers, op[q] # Idle, op[q].pc = "fill", NEW j \in op[q].filled, q # p \/ j # k
       PROVE  Written(Now(q, j))'
  <2>1. /\ j \in 1 .. Len(Steps(q)) /\ Now(q, j) \in Segs /\ Now(q, j).idx = op[q].base + j - 1
        /\ Now(q, j).op = Steps(q)[j].op /\ Now(q, j).op \in DOMAIN Formats
    BY <1>0, <1>14, NowKnown, StepsKnown
  <2>2. /\ op[q].base \in Nat /\ End(q) \in Nat /\ Len(Steps(q)) \in Nat
        /\ op[q].base + j - 1 + Slots(Steps(q)[j].op) <= End(q)
        /\ j < Len(Steps(q)) => Slots(Steps(q)[j].op) = 1
        /\ Slots(Steps(q)[j].op) \in {1, 2}
    BY <1>0, <1>14, <2>1, StepsKnown
  <2>3. Written(Now(q, j)) /\ ready <= op[q].base /\ End(q) <= done + SlotNum
    BY <1>0, <1>14 DEF OpsInv, Filling, HasRoom
  <2>4. done <= Now(q, j).idx /\ Now(q, j).idx + Slots(Now(q, j).op) <= done + SlotNum
    BY <1>5, <2>1, <2>2, <2>3
  <2>5. Now(q, j).idx + Slots(Now(q, j).op) <= w.idx \/ w.idx + Slots(w.op) <= Now(q, j).idx
    <3>1. CASE q # p
      <4>1. End(p) <= op[q].base \/ End(q) <= op[p].base
        BY <1>0, <1>14, <3>1, OpsApart
      <4>2. j \in Nat /\ j >= 1 /\ k \in Nat /\ k >= 1
        BY <1>3, <2>1, <2>2
      <4>3. PICK b \in Nat, e \in Nat, c \in Nat, f \in Nat, z \in {1, 2}, y \in {1, 2} :
              /\ b = op[p].base /\ e = End(p) /\ c = op[q].base /\ f = End(q)
              /\ z = Slots(w.op) /\ y = Slots(Now(q, j).op)
        BY <1>3, <2>1, <2>2
      <4>4. /\ b + k - 1 + z <= e /\ c + j - 1 + y <= f
            /\ e <= c \/ f <= b
            /\ w.idx = b + k - 1 /\ Now(q, j).idx = c + j - 1
        BY <1>2, <1>3, <2>1, <2>2, <4>1, <4>3
      <4>5. c + j - 1 + y <= b + k - 1 \/ b + k - 1 + z <= c + j - 1
        BY <4>2, <4>4
      <4> QED BY <4>3, <4>4, <4>5
    <3>2. CASE q = p
      <4>1. j # k /\ (k < Len(Steps(p)) => Slots(Steps(p)[k].op) = 1)
        BY <1>0, <1>14, <3>2, StepsKnown
      <4>2. j \in Nat /\ k \in Nat /\ j <= Len(Steps(p)) /\ k <= Len(Steps(p))
        BY <1>3, <2>1, <3>2
      <4>3. CASE j < k
        BY <1>2, <1>3, <2>1, <2>2, <3>2, <4>2, <4>3
      <4>4. CASE k < j
        BY <1>2, <1>3, <2>1, <2>2, <3>2, <4>1, <4>2, <4>4
      <4> QED BY <4>1, <4>2, <4>3, <4>4
    <3> QED BY <3>1, <3>2
  <2>6. PICK v : v = Now(q, j)
    OBVIOUS
  <2>7. /\ v \in Segs /\ Written(v) /\ done <= v.idx /\ v.idx + Slots(v.op) <= done + SlotNum
        /\ v.idx + Slots(v.op) <= w.idx \/ w.idx + Slots(w.op) <= v.idx
    BY <2>1, <2>3, <2>4, <2>5, <2>6
  <2>8. \A x \in 0 .. Formats[v.op].ds - 1 : Cell(v.idx, x)' = v
    BY <1>6, <2>7
  <2>9. Now(q, j)' = v
    BY <1>11, <1>14, <2>1, <2>6
  <2> QED BY <2>8, <2>9 DEF Written
<1>15. Written(Now(p, k))'
  BY <1>4, <1>11 DEF Written
<1>16. \A i \in done .. ready - 1 : Start(i)' = Start(i)
  BY <1>7 DEF Start
<1>17. OpsInv'
  <2>1. ASSUME NEW q \in Callers, op'[q].pc = "fill" PROVE Filling(q)'
    <3>1. op[q].pc = "fill" /\ op[q] # Idle
      BY <1>1, <1>8, <2>1 DEF Idle
    <3>2. CASE q = p
      <4>1. (ready <= op[p].base /\ HasRoom(p))'
        BY <1>1, <1>9, <1>10 DEF HasRoom
      <4>2. \A j \in op'[p].filled : Written(Now(p, j))'
        BY <1>9, <1>14, <1>15, <3>1, <3>2
      <4> QED BY <3>2, <4>1, <4>2 DEF Filling
    <3>3. CASE q # p
      <4>1. ready <= op[q].base /\ (op[q].filled # {} => HasRoom(q))
        BY <1>0, <3>1 DEF OpsInv, Filling
      <4>2. \A j \in op[q].filled : Written(Now(q, j))'
        BY <1>14, <3>1, <3>3
      <4> QED BY <1>1, <1>8, <3>3, <4>1, <4>2 DEF Filling, HasRoom, End
    <3> QED BY <3>2, <3>3
  <2>2. ASSUME NEW q \in Callers, op'[q].pc \in {"submit", "poll"} PROVE Published(q)'
    <3>1. q # p /\ op'[q] = op[q]
      BY <1>8, <1>9, <2>2
    <3>2. op[q].pc \in {"submit", "poll"} /\ op[q] # Idle
      BY <2>2, <3>1 DEF Idle
    <3>3. Published(q)
      BY <1>0, <3>2 DEF OpsInv
    <3>4. End(q)' = End(q) /\ End(q) \in Nat
      BY <1>0, <3>1, <3>2, StepsKnown DEF End
    <3>5. done <= End(q) /\ End(q) < ready => Start(End(q))' = Start(End(q))
      BY <1>5, <1>16, <3>4
    <3> QED BY <1>1, <3>1, <3>3, <3>4, <3>5 DEF Published, Start, Cell
  <2> QED BY <2>1, <2>2 DEF OpsInv
<1>18. Chain'
  <2>1. (done < ready => Start(done))' /\ (rung < ready => Start(rung))'
    <3>1. (done < ready => Start(done)) /\ (rung < ready => Start(rung)) /\ rung \in Nat /\ done <= rung
      BY <1>0 DEF Chain, Ordered
    <3>2. done < ready => done \in done .. ready - 1
      BY <1>5
    <3>3. rung < ready => rung \in done .. ready - 1
      BY <1>5, <3>1
    <3>4. done < ready => Start(done)'
      BY <1>1, <1>16, <3>1, <3>2
    <3>5. rung < ready => Start(rung)'
      BY <1>1, <1>16, <3>1, <3>3
    <3> QED BY <1>1, <3>4, <3>5
  <2>2. ASSUME NEW i \in done .. ready - 1, Start(i)' PROVE Link(Cell(i, 0))'
    <3>1. PICK v : v = Cell(i, 0)
      OBVIOUS
    <3>2. v \in Segs /\ Written(v) /\ v.idx = i /\ i \in Nat
      BY <1>0, <1>5, <1>16, <2>2, <3>1 DEF Chain, Link, Start
    <3>3. PICK n \in {1, 2} : n = Slots(v.op)
      BY <3>2, SlotsKnown DEF Segs
    <3>4. i + n <= ready /\ (i + n < ready => Start(i + n))
      BY <1>0, <1>16, <2>2, <3>1, <3>2, <3>3 DEF Chain, Link
    <3>5. done <= i /\ i + n <= done + SlotNum /\ i + n <= w.idx
      BY <1>5, <1>20, <3>2, <3>4
    <3>6. \A x \in 0 .. Formats[v.op].ds - 1 : Cell(v.idx, x)' = v
      BY <1>6, <3>2, <3>3, <3>5
    <3>7. i + n < ready => i + n \in done .. ready - 1
      BY <1>5, <3>2
    <3>8. i + n < ready => Start(i + n)'
      BY <1>16, <3>4, <3>7
    <3>9. v = Cell(i, 0)'
      BY <1>7, <3>1
    <3> QED BY <1>1, <3>2, <3>3, <3>4, <3>6, <3>8, <3>9 DEF Link, Written
  <2> QED BY <1>1, <2>1, <2>2 DEF Chain
<1>19. Run'
  BY <1>0, <1>1 DEF Run
<1> QED BY <1>12, <1>13, <1>17, <1>18, <1>19 DEF QueueInv

-----------------------------------------------------------------------------
(* The other steps on the queue.                                           *)

(* A caller a step leaves alone, by what the step does to the indices.     *)
LEMMA OpKept ==
  ASSUME OpTyped, OpsInv, NEW q \in Callers, op'[q] = op[q], op[q] # Idle => rsvd <= rsvd',
         {rsvd, rsvd'} \subseteq Nat
  PROVE  op'[q] # Idle =>
           /\ op[q] # Idle
           /\ Steps(q)' = Steps(q) /\ End(q)' = End(q) /\ End(q) \in Nat
           /\ op'[q] \in [pc : Ops, call : CallsOf(q), base : Nat, filled : SUBSET Nat, at : Int]
           /\ op'[q].filled \subseteq 1 .. Len(Steps(q))'
           /\ End(q)' <= rsvd'
<1> SUFFICES ASSUME op'[q] # Idle PROVE
           /\ op[q] # Idle
           /\ Steps(q)' = Steps(q) /\ End(q)' = End(q) /\ End(q) \in Nat
           /\ op'[q] \in [pc : Ops, call : CallsOf(q), base : Nat, filled : SUBSET Nat, at : Int]
           /\ op'[q].filled \subseteq 1 .. Len(Steps(q))'
           /\ End(q)' <= rsvd'
  OBVIOUS
<1>1. op[q] # Idle /\ Steps(q)' = Steps(q) /\ End(q)' = End(q)
  BY DEF Steps, End
<1>2. /\ op[q] \in [pc : Ops, call : CallsOf(q), base : Nat, filled : SUBSET Nat, at : Int]
      /\ op[q].filled \subseteq 1 .. Len(Steps(q)) /\ End(q) <= rsvd
  BY <1>1 DEF OpTyped
<1>3. End(q) \in Nat
  BY <1>1, StepsKnown
<1> QED BY <1>1, <1>2, <1>3

LEMMA FillingKept ==
  ASSUME OpTyped, OpsInv, NEW q \in Callers, op[q].pc = "fill", op'[q] = op[q],
         \A a \in Members(q) : asked'[a] = asked[a], slots' = slots,
         ready' <= op[q].base, {done, done', SlotNum} \subseteq Nat, done <= done'
  PROVE  Filling(q)'
<1>1. op[q] # Idle /\ Filling(q)
  BY DEF OpsInv, Idle
<1>2. /\ End(q)' = End(q) /\ End(q) \in Nat /\ op[q].filled \subseteq 1 .. Len(Steps(q))
      /\ \A k \in 1 .. Len(Steps(q)) : Now(q, k)' = Now(q, k)
  BY <1>1, NowKept, StepsKnown DEF End
<1>3. ASSUME NEW k \in op[q].filled PROVE Written(Now(q, k))'
  <2>1. PICK w : w = Now(q, k)
    OBVIOUS
  <2>2. Written(w) /\ Now(q, k)' = w
    BY <1>1, <1>2, <2>1 DEF Filling
  <2> QED BY <2>2 DEF Written, Cell
<1>4. op[q].filled # {} => HasRoom(q)'
  BY <1>1, <1>2 DEF Filling, HasRoom
<1> QED BY <1>3, <1>4 DEF Filling

LEMMA PublishedKept ==
  ASSUME OpTyped, OpsInv, NEW q \in Callers, op[q].pc \in {"submit", "poll"}, op'[q] = op[q],
         slots' = slots, {done, done', ready, ready'} \subseteq Nat, done <= done', ready <= ready',
         ready < ready' => Start(ready)
  PROVE  Published(q)'
<1>1. op[q] # Idle /\ Published(q)
  BY DEF OpsInv, Idle
<1>2. End(q)' = End(q) /\ End(q) \in Nat
  BY <1>1, StepsKnown DEF End
<1>3. PICK e \in Nat : e = End(q)
  BY <1>2
<1>4. e <= ready /\ (op[q].pc = "submit" /\ done <= e /\ e < ready => Start(e))
  BY <1>1, <1>3 DEF Published
<1>5. e <= ready'
  BY <1>4
<1>6. ASSUME op[q].pc = "submit", done' <= e, e < ready' PROVE Start(e)'
  <2>1. CASE e < ready
    BY <1>4, <1>6, <2>1 DEF Start, Cell
  <2>2. CASE e = ready
    BY <1>6, <2>2 DEF Start, Cell
  <2> QED BY <1>4, <2>1, <2>2
<1> QED BY <1>2, <1>3, <1>5, <1>6 DEF Published

LEMMA ChainKept ==
  ASSUME Chain, slots' = slots, done' = done, rung' = rung, ready' = ready
  PROVE  Chain'
BY DEF Chain, Link, Start, Written, Cell

LEMMA CallQueue ==
  ASSUME QueueInv, ticket \in [Actors -> Int], NEW p \in Callers, NEW c \in CallsOf(p), Call(p, c)
  PROVE  /\ QueueInv'
         /\ op[p] = Idle /\ op'[p] # Idle /\ op'[p].pc = "fill"
         /\ op'[p].call = c /\ op'[p].base = rsvd /\ op'[p].filled = {}
         /\ \A q \in Callers \ {p} : op'[q] = op[q]
         /\ Span(p, c) \in Nat
<1>0. Ordered /\ OpTyped /\ OpsInv /\ Chain /\ Run
  BY DEF QueueInv
<1> DEFINE at == IF c.kind = "get_wait" /\ c.how = "ticket" THEN ticket[p] ELSE rsvd - 1
<1>1. /\ op[p] = Idle
      /\ op' = [op EXCEPT ![p] = [pc |-> "fill", call |-> c, base |-> rsvd, filled |-> {}, at |-> at]]
      /\ rsvd' = rsvd + Span(p, c)
      /\ asked' = [a \in Actors |-> IF a \in Members(p) THEN Append(asked[a], c) ELSE asked[a]]
      /\ UNCHANGED <<ready, rung, done, slots, executed, ticket, waiting, seen, vis>>
  BY DEF Call
<1>2. Span(p, c) \in Nat /\ rsvd \in Nat /\ rsvd' \in Nat /\ rsvd <= rsvd'
  BY <1>0, <1>1, PlanKnown DEF Ordered
<1>3. at \in Int
  <2>1. c.kind = "get_wait" => p \in Actors
    BY TransfersAssumption DEF CallsOf, Callers, Actors
  <2> QED BY <1>2, <2>1
<1> HIDE DEF at
<1>4. /\ op'[p] = [pc |-> "fill", call |-> c, base |-> rsvd, filled |-> {}, at |-> at]
      /\ \A q \in Callers \ {p} : op'[q] = op[q]
      /\ op' = [q \in Callers |-> op'[q]]
  BY <1>0, <1>1 DEF OpTyped
<1>5. /\ op'[p].pc = "fill" /\ op'[p].call = c /\ op'[p].base = rsvd /\ op'[p].filled = {}
      /\ op'[p] # Idle
  BY <1>4 DEF Idle
<1>6. ASSUME NEW q \in Callers, q # p PROVE \A a \in Members(q) : asked'[a] = asked[a]
  BY <1>1, <1>6, Callers_
<1>7. Ordered'
  BY <1>0, <1>1, <1>2 DEF Ordered
<1>8. OpTyped'
  <2>1. ASSUME NEW q \in Callers, op'[q] # Idle
        PROVE  (/\ op[q] \in [pc : Ops, call : CallsOf(q), base : Nat, filled : SUBSET Nat, at : Int]
                /\ op[q].filled \subseteq 1 .. Len(Steps(q))
                /\ End(q) <= rsvd)'
    <3>1. CASE q = p
      <4>1. op'[p] \in [pc : Ops, call : CallsOf(p), base : Nat, filled : SUBSET Nat, at : Int]
        BY <1>2, <1>3, <1>4 DEF Ops
      <4>2. End(p)' = rsvd + Span(p, c)
        BY <1>5 DEF End
      <4> QED BY <1>1, <1>2, <1>5, <3>1, <4>1, <4>2
    <3>2. CASE q # p
      <4>1. op'[q] = op[q] /\ {rsvd, rsvd'} \subseteq Nat
        BY <1>2, <1>4, <3>2
      <4> QED BY <1>0, <1>2, <2>1, <4>1, OpKept
    <3> QED BY <3>1, <3>2
  <2> QED BY <1>0, <1>1, <1>4, <2>1 DEF OpTyped
<1>9. OpsInv'
  <2> SUFFICES ASSUME NEW q \in Callers
               PROVE  (/\ op[q].pc = "fill" => Filling(q)
                       /\ op[q].pc \in {"submit", "poll"} => Published(q))'
    BY DEF OpsInv
  <2>1. CASE q = p
    <3>1. Filling(p)'
      BY <1>0, <1>1, <1>5 DEF Filling, Ordered
    <3> QED BY <1>5, <2>1, <3>1
  <2>2. CASE q # p
    <3>1. op'[q] = op[q] /\ \A a \in Members(q) : asked'[a] = asked[a]
      BY <1>4, <1>6, <2>2
    <3>2. {done, done', ready, ready', SlotNum} \subseteq Nat /\ done <= done' /\ ready <= ready' /\ ~(ready < ready')
      BY <1>0, <1>1, TransfersAssumption DEF Ordered
    <3>3. op[q].pc = "fill" => ready' <= op[q].base
      BY <1>0, <1>1 DEF OpsInv, Filling
    <3>4. op[q].pc = "fill" => Filling(q)'
      BY <1>0, <1>1, <3>1, <3>2, <3>3, FillingKept
    <3>5. op[q].pc \in {"submit", "poll"} => Published(q)'
      BY <1>0, <1>1, <3>1, <3>2, PublishedKept
    <3> QED BY <3>1, <3>4, <3>5
  <2> QED BY <2>1, <2>2
<1>10. Chain'
  BY <1>0, <1>1, ChainKept
<1>11. Run'
  BY <1>0, <1>1 DEF Run
<1> QED BY <1>1, <1>2, <1>4, <1>5, <1>7, <1>8, <1>9, <1>10, <1>11 DEF QueueInv

(* What a step that changes a caller's pc, and nothing else of it, keeps.  *)
LEMMA PcKept ==
  ASSUME OpTyped, Ordered, NEW p \in Callers, op[p] # Idle, NEW pc \in Ops, pc # "idle",
         op' = [op EXCEPT ![p].pc = pc], rsvd' = rsvd, DOMAIN slots' = DOMAIN slots
  PROVE  /\ OpTyped'
         /\ op'[p] = [op[p] EXCEPT !.pc = pc] /\ \A q \in Callers \ {p} : op'[q] = op[q]
         /\ op'[p].pc = pc /\ op'[p].base = op[p].base /\ op'[p].call = op[p].call
         /\ op'[p].filled = op[p].filled /\ op'[p] # Idle
         /\ \A q \in Callers : op'[q] # Idle <=> op[q] # Idle
         /\ Steps(p)' = Steps(p) /\ End(p)' = End(p)
<1>1. op[p] \in [pc : Ops, call : CallsOf(p), base : Nat, filled : SUBSET Nat, at : Int]
  BY DEF OpTyped
<1>2. /\ op'[p] = [op[p] EXCEPT !.pc = pc] /\ \A q \in Callers \ {p} : op'[q] = op[q]
      /\ op' = [q \in Callers |-> op'[q]]
  BY DEF OpTyped
<1>3. /\ op'[p].pc = pc /\ op'[p].base = op[p].base /\ op'[p].call = op[p].call
      /\ op'[p].filled = op[p].filled
      /\ op'[p] \in [pc : Ops, call : CallsOf(p), base : Nat, filled : SUBSET Nat, at : Int]
  BY <1>1, <1>2
<1>4. op'[p] # Idle
  BY <1>3 DEF Idle
<1>5. Steps(p)' = Steps(p) /\ End(p)' = End(p)
  BY <1>3 DEF Steps, End
<1>6. ASSUME NEW q \in Callers, op'[q] # Idle
      PROVE  (/\ op[q] \in [pc : Ops, call : CallsOf(q), base : Nat, filled : SUBSET Nat, at : Int]
              /\ op[q].filled \subseteq 1 .. Len(Steps(q))
              /\ End(q) <= rsvd)'
  <2>1. CASE q = p
    BY <1>3, <1>5, <2>1 DEF OpTyped
  <2>2. CASE q # p
    BY <1>2, <1>6, <2>2 DEF OpTyped, Steps, End
  <2> QED BY <2>1, <2>2
<1>7. OpTyped'
  BY <1>2, <1>6 DEF OpTyped
<1> QED BY <1>2, <1>3, <1>4, <1>5, <1>7

(* What a caller publishes: the starts of its WQEs and nothing else.       *)
LEMMA MarkCells ==
  ASSUME NEW B, QueueInv, Asked(B), Current(B), NEW p \in Callers, op[p] # Idle, Mark(p)
  PROVE  /\ ready = op[p].base /\ ready' = End(p) /\ ready < End(p) /\ End(p) <= done + SlotNum
         /\ \A k \in 1 .. Len(Steps(p)) : /\ Cell(ready + k - 1, 0) = Now(p, k)
                                          /\ Written(Now(p, k)) /\ Start(ready + k - 1)
         /\ \A i \in ready .. End(p) - 1 : Start(i) =>
              \E k \in 1 .. Len(Steps(p)) : i = ready + k - 1 /\ Cell(i, 0) = Now(p, k)
<1>0. Ordered /\ OpTyped /\ OpsInv /\ Chain /\ Run
  BY DEF QueueInv
<1>1. /\ op[p].pc = "fill" /\ op[p].filled = DOMAIN Steps(p) /\ ready = op[p].base /\ ready' = End(p)
  BY DEF Mark, Filled
<1>2. /\ Len(Steps(p)) \in Nat /\ Len(Steps(p)) >= 1 /\ DOMAIN Steps(p) = 1 .. Len(Steps(p))
      /\ End(p) \in Nat /\ op[p].base + Len(Steps(p)) <= End(p)
      /\ \A k \in 1 .. Len(Steps(p)) :
           /\ Slots(Steps(p)[k].op) \in {1, 2}
           /\ k = Len(Steps(p)) => op[p].base + k - 1 + Slots(Steps(p)[k].op) = End(p)
  BY <1>0, StepsKnown
<1>3. PICK r \in Nat, n \in Nat, e \in Nat : r = ready /\ n = Len(Steps(p)) /\ e = End(p)
  BY <1>0, <1>2 DEF Ordered
<1>4. r = op[p].base /\ r + n <= e /\ n >= 1
  BY <1>1, <1>2, <1>3
<1>5. HasRoom(p) /\ \A k \in 1 .. n : Written(Now(p, k))
  <2>1. Filling(p) /\ op[p].filled = 1 .. n
    BY <1>0, <1>1, <1>2, <1>3 DEF OpsInv
  <2>2. 1 \in op[p].filled
    BY <1>4, <2>1
  <2> QED BY <2>1, <2>2 DEF Filling
<1>6. ASSUME NEW k \in 1 .. n
      PROVE  /\ Cell(r + k - 1, 0) = Now(p, k) /\ Start(r + k - 1)
             /\ Now(p, k) \in Segs /\ Now(p, k).idx = r + k - 1 /\ Now(p, k).op = Steps(p)[k].op
  <2>1. Now(p, k) \in Segs /\ Now(p, k).idx = r + k - 1 /\ Now(p, k).op = Steps(p)[k].op
        /\ Now(p, k).op \in DOMAIN Formats
    BY <1>0, <1>3, <1>4, NowKnown
  <2>2. PICK w : w = Now(p, k)
    OBVIOUS
  <2>3. 0 \in 0 .. Formats[w.op].ds - 1
    BY <2>1, <2>2, FormatKnown
  <2>4. Cell(w.idx, 0) = w
    BY <1>5, <2>2, <2>3 DEF Written
  <2> QED BY <2>1, <2>2, <2>4 DEF Start
<1>7. ASSUME NEW i \in r .. e - 1, Start(i)
      PROVE  \E k \in 1 .. n : i = r + k - 1 /\ Cell(i, 0) = Now(p, k)
  <2>1. CASE i < r + n
    <3>1. i - r + 1 \in 1 .. n /\ i = r + (i - r + 1) - 1
      BY <2>1
    <3> QED BY <1>6, <3>1
  <2>2. CASE i >= r + n
    <3>1. n \in 1 .. n
      BY <1>4
    <3>2. PICK w : w = Now(p, n)
      OBVIOUS
    <3>3. /\ w \in Segs /\ Written(w) /\ w.idx = r + n - 1 /\ Slots(w.op) \in {1, 2}
          /\ r + n - 1 + Slots(w.op) = e
      BY <1>2, <1>3, <1>4, <1>5, <1>6, <3>1, <3>2
    <3>4. PICK z \in {1, 2} : z = Slots(w.op)
      BY <3>3
    <3>5. z = 2 /\ i = r + n - 1 + 1
      BY <2>2, <3>3, <3>4
    <3> QED BY <1>7, <3>3, <3>4, <3>5, Continued
  <2> QED BY <2>1, <2>2
<1>8. r < e /\ e <= done + SlotNum
  BY <1>3, <1>4, <1>5 DEF HasRoom
<1> QED BY <1>1, <1>3, <1>5, <1>6, <1>7, <1>8

LEMMA MarkQueue ==
  ASSUME NEW B, QueueInv, Asked(B), Current(B), NEW p \in Callers, op[p] # Idle, Mark(p)
  PROVE  QueueInv'
<1>0. Ordered /\ OpTyped /\ OpsInv /\ Chain /\ Run
  BY DEF QueueInv
<1>1. /\ op' = [op EXCEPT ![p].pc = "submit"]
      /\ UNCHANGED <<rsvd, rung, done, slots, executed, asked, ticket, waiting, seen, vis>>
  BY DEF Mark
<1>2. /\ ready = op[p].base /\ ready' = End(p) /\ ready < End(p) /\ End(p) <= done + SlotNum
      /\ \A k \in 1 .. Len(Steps(p)) : /\ Cell(ready + k - 1, 0) = Now(p, k)
                                       /\ Written(Now(p, k)) /\ Start(ready + k - 1)
      /\ \A i \in ready .. End(p) - 1 : Start(i) =>
           \E k \in 1 .. Len(Steps(p)) : i = ready + k - 1 /\ Cell(i, 0) = Now(p, k)
  BY MarkCells
<1>3. /\ Len(Steps(p)) \in Nat /\ Len(Steps(p)) >= 1
      /\ End(p) \in Nat /\ End(p) <= rsvd
      /\ \A k \in 1 .. Len(Steps(p)) :
           /\ Slots(Steps(p)[k].op) \in {1, 2}
           /\ k < Len(Steps(p)) => Slots(Steps(p)[k].op) = 1
           /\ k = Len(Steps(p)) => op[p].base + k - 1 + Slots(Steps(p)[k].op) = End(p)
  BY <1>0, StepsKnown
<1>4. PICK r \in Nat, n \in Nat, e \in Nat : r = ready /\ n = Len(Steps(p)) /\ e = End(p)
  BY <1>0, <1>3 DEF Ordered
<1>5. /\ OpTyped' /\ \A q \in Callers \ {p} : op'[q] = op[q]
      /\ op'[p].pc = "submit" /\ End(p)' = e
  <2>1. "submit" \in Ops
    BY DEF Ops
  <2> QED BY <1>0, <1>1, <1>4, <2>1, PcKept
<1>6. Ordered'
  BY <1>0, <1>1, <1>2, <1>3 DEF Ordered
<1>7. n >= 1 /\ Start(r)
  <2>1. 1 \in 1 .. n /\ r + 1 - 1 = r
    BY <1>3, <1>4
  <2> QED BY <1>2, <1>3, <1>4, <2>1
<1>8. OpsInv'
  <2> SUFFICES ASSUME NEW q \in Callers
               PROVE  (/\ op[q].pc = "fill" => Filling(q)
                       /\ op[q].pc \in {"submit", "poll"} => Published(q))'
    BY DEF OpsInv
  <2>1. CASE q = p
    BY <1>2, <1>4, <1>5, <2>1 DEF Published
  <2>2. CASE q # p
    <3>1. op'[q] = op[q] /\ \A a \in Members(q) : asked'[a] = asked[a]
      BY <1>1, <1>5, <2>2
    <3>2. {done, done', ready, ready', SlotNum} \subseteq Nat /\ done <= done' /\ ready <= ready'
      BY <1>0, <1>1, <1>2, <1>3, TransfersAssumption DEF Ordered
    <3>3. ASSUME op[q].pc = "fill" PROVE ready' <= op[q].base
      <4>1. op[q] # Idle
        BY <3>3 DEF Idle
      <4>2. e <= op[q].base \/ End(q) <= r
        BY <1>0, <1>2, <1>4, <2>2, <4>1, OpsApart
      <4>3. ready <= op[q].base
        BY <1>0, <3>3 DEF OpsInv, Filling
      <4>4. /\ op[q].base \in Nat /\ Len(Steps(q)) \in Nat /\ Len(Steps(q)) >= 1
            /\ op[q].base + Len(Steps(q)) <= End(q) /\ End(q) \in Nat
        BY <1>0, <4>1, StepsKnown
      <4>5. PICK b \in Nat, m \in Nat, f \in Nat : b = op[q].base /\ m = Len(Steps(q)) /\ f = End(q)
        BY <4>4
      <4>6. e <= b \/ f <= r
        BY <4>2, <4>5
      <4>7. r <= b /\ m >= 1 /\ b + m <= f
        BY <1>4, <4>3, <4>4, <4>5
      <4>8. e <= b
        BY <4>6, <4>7
      <4> QED BY <1>2, <1>4, <4>5, <4>8
    <3>4. op[q].pc = "fill" => Filling(q)'
      BY <1>0, <1>1, <3>1, <3>2, <3>3, FillingKept
    <3>5. op[q].pc \in {"submit", "poll"} => Published(q)'
      BY <1>0, <1>1, <1>4, <1>7, <3>1, <3>2, PublishedKept
    <3> QED BY <3>1, <3>4, <3>5
  <2> QED BY <2>1, <2>2
<1>9. Chain'
  <2>1. done \in Nat /\ rung \in Nat /\ done <= rung /\ rung <= r
    BY <1>0, <1>4 DEF Ordered
  <2>2. ASSUME NEW i \in {done, rung} PROVE i < ready' => Start(i)'
    <3>1. Start(i)
      BY <1>0, <1>4, <1>7, <2>1, <2>2 DEF Chain
    <3> QED BY <1>1, <3>1 DEF Start, Cell
  <2>3. ASSUME NEW i \in done .. e - 1, Start(i) PROVE Link(Cell(i, 0))'
    <3>1. PICK v : v = Cell(i, 0)
      OBVIOUS
    <3>2. v.idx = i /\ i \in Nat
      BY <2>1, <2>3, <3>1 DEF Start
    <3>3. CASE i < r
      <4>1. Link(v) /\ i \in done .. ready - 1
        BY <1>0, <1>4, <2>1, <2>3, <3>1, <3>3 DEF Chain
      <4>2. v \in Segs /\ Written(v) /\ v.idx + Slots(v.op) <= ready
            /\ (v.idx + Slots(v.op) < ready => Start(v.idx + Slots(v.op)))
        BY <4>1 DEF Link
      <4>3. PICK z \in {1, 2} : z = Slots(v.op)
        BY <4>2, SlotsKnown DEF Segs
      <4>4. i + z <= e
        BY <1>2, <1>4, <3>2, <4>2, <4>3
      <4>5. Start(i + z)
        BY <1>4, <1>7, <3>2, <4>2, <4>3
      <4> QED BY <1>1, <1>2, <1>4, <3>1, <3>2, <4>2, <4>3, <4>4, <4>5 DEF Link, Written, Start, Cell
    <3>4. CASE i >= r
      <4>1. PICK k \in 1 .. n : i = r + k - 1 /\ v = Now(p, k)
        <5>1. i \in ready .. End(p) - 1
          BY <1>4, <3>2, <3>4
        <5> QED BY <1>2, <1>4, <2>3, <3>1, <5>1
      <4>2. v \in Segs /\ Written(v) /\ v.op = Steps(p)[k].op
        BY <1>0, <1>2, <1>4, <4>1, NowKnown
      <4>3. PICK z \in {1, 2} : z = Slots(v.op)
        BY <4>2, SlotsKnown DEF Segs
      <4>4. /\ k < n => z = 1
            /\ k = n => r + k - 1 + z = e
            /\ k \in Nat /\ k <= n /\ r + n <= e
        <5>1. r + n <= e
          BY <1>0, <1>2, <1>4, StepsKnown
        <5>2. /\ k < n => z = 1
              /\ k = n => r + k - 1 + z = e
          BY <1>2, <1>3, <1>4, <4>2, <4>3
        <5> QED BY <5>1, <5>2
      <4>5. i + z <= e
        BY <4>1, <4>4
      <4>6. ASSUME i + z < e PROVE Start(i + z)
        <5>1. k < n /\ z = 1
          BY <4>1, <4>4, <4>6
        <5>2. k + 1 \in 1 .. n /\ i + z = r + (k + 1) - 1
          BY <4>1, <4>4, <5>1
        <5> QED BY <1>2, <1>4, <5>2
      <4> QED BY <1>1, <1>2, <1>4, <3>1, <3>2, <4>2, <4>3, <4>5, <4>6 DEF Link, Written, Start, Cell
    <3> QED BY <3>2, <3>3, <3>4
  <2> QED BY <1>1, <1>2, <1>4, <2>1, <2>2, <2>3 DEF Chain, Start, Cell
<1>10. Run'
  BY <1>0, <1>1 DEF Run
<1> QED BY <1>5, <1>6, <1>8, <1>9, <1>10 DEF QueueInv

(* A caller that returns leaves the queue alone.                           *)
LEMMA IdleKept ==
  ASSUME OpTyped, NEW p \in Callers, op' = [op EXCEPT ![p] = Idle], rsvd' = rsvd, DOMAIN slots' = DOMAIN slots
  PROVE  OpTyped' /\ op'[p] = Idle /\ \A q \in Callers \ {p} : op'[q] = op[q]
<1>1. op'[p] = Idle /\ (\A q \in Callers \ {p} : op'[q] = op[q]) /\ op' = [q \in Callers |-> op'[q]]
  BY DEF OpTyped
<1>2. ASSUME NEW q \in Callers, op'[q] # Idle
      PROVE  (/\ op[q] \in [pc : Ops, call : CallsOf(q), base : Nat, filled : SUBSET Nat, at : Int]
              /\ op[q].filled \subseteq 1 .. Len(Steps(q))
              /\ End(q) <= rsvd)'
    BY <1>1, <1>2 DEF OpTyped, Steps, End
<1> QED BY <1>1, <1>2 DEF OpTyped

LEMMA QuietOps ==
  ASSUME Ordered, OpTyped, OpsInv, NEW q \in Callers, op'[q] = op[q], Ordered', done <= done',
         UNCHANGED <<slots, ready, asked>>
  PROVE  (/\ op[q].pc = "fill" => Filling(q)
          /\ op[q].pc \in {"submit", "poll"} => Published(q))'
<1>1. {done, done', ready, ready', SlotNum} \subseteq Nat /\ ready <= ready' /\ ~(ready < ready')
  BY TransfersAssumption DEF Ordered
<1>2. op[q].pc = "fill" => ready' <= op[q].base
  BY DEF OpsInv, Filling
<1>3. op[q].pc = "fill" => Filling(q)'
  BY <1>1, <1>2, FillingKept
<1>4. op[q].pc \in {"submit", "poll"} => Published(q)'
  BY <1>1, PublishedKept
<1> QED BY <1>3, <1>4

LEMMA SubmitQueue ==
  ASSUME QueueInv, NEW p \in Callers, op[p] # Idle, SubmitWqes(p)
  PROVE  /\ QueueInv'
         /\ \A q \in Callers \ {p} : op'[q] = op[q]
         /\ op'[p] = Idle \/ (op'[p].pc = "poll" /\ op'[p] # Idle /\ op'[p].base = op[p].base /\ op'[p].call = op[p].call)
<1>0. Ordered /\ OpTyped /\ OpsInv /\ Chain /\ Run
  BY DEF QueueInv
<1>1. /\ op[p].pc = "submit" /\ rung' = Larger(rung, End(p))
      /\ op' = [op EXCEPT ![p] = IF op[p].call.blocking THEN [op[p] EXCEPT !.pc = "poll"] ELSE Idle]
      /\ UNCHANGED <<rsvd, ready, done, slots, executed, asked, waiting, seen, vis>>
  BY DEF SubmitWqes
<1>2. /\ End(p) \in Nat /\ End(p) <= ready
      /\ done <= End(p) /\ End(p) < ready => Start(End(p))
  BY <1>0, <1>1, StepsKnown DEF OpsInv, Published
<1>3. \/ op' = [op EXCEPT ![p] = Idle]
      \/ op' = [op EXCEPT ![p].pc = "poll"]
  BY <1>1
<1>4. /\ OpTyped' /\ \A q \in Callers \ {p} : op'[q] = op[q]
      /\ \/ op'[p] = Idle
         \/ /\ op'[p].pc = "poll" /\ op'[p] # Idle /\ op'[p].base = op[p].base /\ op'[p].call = op[p].call
            /\ End(p)' = End(p)
  <2>1. CASE op' = [op EXCEPT ![p] = Idle]
    BY <1>0, <1>1, <2>1, IdleKept
  <2>2. CASE op' = [op EXCEPT ![p].pc = "poll"]
    <3>1. "poll" \in Ops /\ "poll" # "idle"
      BY DEF Ops
    <3> QED BY <1>0, <1>1, <2>2, <3>1, PcKept
  <2> QED BY <1>3, <2>1, <2>2
<1>5. PICK g \in Nat : g = rung'
  BY <1>0, <1>1, <1>2 DEF Larger, Ordered
<1>6. Ordered'
  BY <1>0, <1>1, <1>2 DEF Larger, Ordered
<1>7. OpsInv'
  <2> SUFFICES ASSUME NEW q \in Callers
               PROVE  (/\ op[q].pc = "fill" => Filling(q)
                       /\ op[q].pc \in {"submit", "poll"} => Published(q))'
    BY DEF OpsInv
  <2>1. CASE q = p
    <3>1. op'[p].pc = "poll" => Published(p)'
      BY <1>1, <1>2, <1>4 DEF Published, Idle
    <3>2. op'[p].pc \in {"poll", "idle"}
      BY <1>4 DEF Idle
    <3> QED BY <2>1, <3>1, <3>2
  <2>2. CASE q # p
    <3>1. op'[q] = op[q] /\ done <= done'
      BY <1>0, <1>1, <1>4, <2>2 DEF Ordered
    <3> QED BY <1>0, <1>1, <1>6, <3>1, QuietOps
  <2> QED BY <2>1, <2>2
<1>8. Chain'
  <2>1. ASSUME rung' < ready PROVE Start(g)
    <3>1. CASE g = rung
      BY <1>0, <1>5, <2>1, <3>1 DEF Chain
    <3>2. CASE g # rung
      <4>1. g = End(p) /\ rung < g /\ done <= g
        BY <1>0, <1>1, <1>2, <1>5, <3>2 DEF Larger, Ordered
      <4> QED BY <1>2, <1>5, <2>1, <4>1
    <3> QED BY <3>1, <3>2
  <2> QED BY <1>0, <1>1, <1>5, <2>1 DEF Chain, Link, Start, Written, Cell
<1>9. Run'
  BY <1>0, <1>1 DEF Run
<1> QED BY <1>4, <1>6, <1>7, <1>8, <1>9 DEF QueueInv

LEMMA PolledQueue ==
  ASSUME QueueInv, NEW p \in Callers, op[p] # Idle, Polled(p)
  PROVE  QueueInv' /\ op'[p] = Idle /\ \A q \in Callers \ {p} : op'[q] = op[q]
<1>0. Ordered /\ OpTyped /\ OpsInv /\ Chain /\ Run
  BY DEF QueueInv
<1>1. /\ op' = [op EXCEPT ![p] = Idle]
      /\ UNCHANGED <<rsvd, ready, rung, done, slots, executed, asked, ticket, waiting>>
  BY DEF Polled
<1>2. OpTyped' /\ op'[p] = Idle /\ \A q \in Callers \ {p} : op'[q] = op[q]
  BY <1>0, <1>1, IdleKept
<1>3. Ordered'
  BY <1>0, <1>1 DEF Ordered
<1>4. OpsInv'
  <2> SUFFICES ASSUME NEW q \in Callers
               PROVE  (/\ op[q].pc = "fill" => Filling(q)
                       /\ op[q].pc \in {"submit", "poll"} => Published(q))'
    BY DEF OpsInv
  <2>1. CASE q = p
    BY <1>2, <2>1 DEF Idle
  <2>2. CASE q # p
    <3>1. op'[q] = op[q] /\ done <= done'
      BY <1>0, <1>1, <1>2, <2>2 DEF Ordered
    <3> QED BY <1>0, <1>1, <1>3, <3>1, QuietOps
  <2> QED BY <2>1, <2>2
<1>5. Chain'
  BY <1>0, <1>1, ChainKept
<1>6. Run'
  BY <1>0, <1>1 DEF Run
<1> QED BY <1>2, <1>3, <1>4, <1>5, <1>6 DEF QueueInv

(* What the NIC executes.                                                  *)
LEMMA ExecuteWhole ==
  ASSUME QueueInv, Execute
  PROVE  LET v == WqeAt(done)
         IN  /\ v = Cell(done, 0) /\ Start(done) /\ done \in done .. ready - 1
             /\ v \in Segs /\ v # Torn /\ v.idx = done /\ Written(v)
             /\ Slots(v.op) \in {1, 2} /\ done' = done + Slots(v.op)
             /\ done + Slots(v.op) <= ready
             /\ done' < ready => Start(done')
             /\ Slots(v.op) = 2 => ~Start(done + 1)
             /\ done' \in Nat /\ done' <= rung
             /\ executed' = Append(executed, v)
<1>0. Ordered /\ OpTyped /\ OpsInv /\ Chain /\ Run
  BY DEF QueueInv
<1>1. done < rung /\ done \in Nat /\ ready \in Nat /\ rung \in Nat /\ rung <= ready
  BY <1>0 DEF Execute, Ordered
<1>2. Start(done) /\ done \in done .. ready - 1 /\ Link(Cell(done, 0))
  BY <1>0, <1>1 DEF Chain
<1>3. PICK v : v = Cell(done, 0)
  OBVIOUS
<1>4. v \in Segs /\ Written(v) /\ v.idx = done
  BY <1>2, <1>3 DEF Link, Start
<1>5. \A x \in 0 .. Formats[v.op].ds - 1 : slots[SegSlot(done, x)][x % 4] = v
  BY <1>4 DEF Written, Cell
<1>6. v = slots[SegSlot(done, 0)][0]
  <2>1. 0 % 4 = 0
    OBVIOUS
  <2> QED BY <1>3, <2>1 DEF Cell
<1>7. WqeAt(done) = v
  BY <1>4, <1>5, <1>6 DEF WqeAt
<1>8. v # Torn
  <2>1. "TORN" \notin DOMAIN Formats
    BY FormatNames
  <2> QED BY <1>4, <2>1 DEF Segs, Torn
<1>9. PICK z \in {1, 2} : z = Slots(v.op)
  BY <1>4, SlotsKnown DEF Segs
<1>10. done' = done + z /\ executed' = Append(executed, v)
  BY <1>7, <1>8, <1>9 DEF Execute
<1>11. done + z <= ready /\ (done + z < ready => Start(done + z))
  BY <1>2, <1>3, <1>4, <1>9 DEF Link
<1>12. z = 2 => ~Start(done + 1)
  BY <1>4, <1>9, Continued
<1>13. done + z <= rung
  <2>1. SUFFICES ASSUME rung < done + z PROVE FALSE
    BY <1>1
  <2>2. z = 2 /\ rung = done + 1
    BY <1>1, <2>1
  <2>3. rung < ready
    BY <1>11, <2>1, <1>1
  <2>4. Start(rung)
    BY <1>0, <2>3 DEF Chain
  <2> QED BY <1>12, <2>2, <2>4
<1>14. done + z < ready => Start(done')
  BY <1>10, <1>11
<1> QED BY <1>1, <1>2, <1>3, <1>4, <1>7, <1>8, <1>9, <1>10, <1>11, <1>12, <1>13, <1>14

LEMMA ExecuteQueue ==
  ASSUME QueueInv, Execute
  PROVE  QueueInv'
<1>0. Ordered /\ OpTyped /\ OpsInv /\ Chain /\ Run
  BY DEF QueueInv
<1>1. UNCHANGED <<rsvd, ready, rung, slots, op, asked, ticket, waiting, seen, vis>>
  BY DEF Execute
<1>2. PICK v : v = WqeAt(done)
  OBVIOUS
<1>3. PICK z \in {1, 2} : z = Slots(v.op)
  BY <1>2, ExecuteWhole
<1>4. /\ v \in Segs /\ v.idx = done /\ done' = done + z /\ done' \in Nat /\ done' <= rung
      /\ executed' = Append(executed, v)
      /\ done' < ready => Start(done')
  BY <1>2, <1>3, ExecuteWhole
<1>5. done \in Nat /\ ready \in Nat /\ rung \in Nat /\ rsvd \in Nat /\ SlotNum \in Nat
  BY <1>0, TransfersAssumption DEF Ordered
<1>6. Ordered'
  BY <1>0, <1>1, <1>4, <1>5 DEF Ordered
<1>7. OpTyped'
  BY <1>0, <1>1 DEF OpTyped, Steps, End
<1>8. OpsInv'
  <2> SUFFICES ASSUME NEW q \in Callers
               PROVE  (/\ op[q].pc = "fill" => Filling(q)
                       /\ op[q].pc \in {"submit", "poll"} => Published(q))'
    BY DEF OpsInv
  <2>1. op'[q] = op[q] /\ done <= done'
    BY <1>1, <1>4, <1>5
  <2> QED BY <1>0, <1>1, <1>6, <2>1, QuietOps
<1>9. Chain'
  <2>1. PICK d \in Nat : d = done' /\ done <= d
    BY <1>4, <1>5
  <2>2. d < ready => Start(d)'
    BY <1>1, <1>4, <2>1 DEF Start, Cell
  <2>3. rung < ready => Start(rung)'
    BY <1>0, <1>1 DEF Chain, Start, Cell
  <2>4. ASSUME NEW i \in d .. ready - 1, Start(i) PROVE Link(Cell(i, 0))'
    <3>1. Link(Cell(i, 0))
      BY <1>0, <1>5, <2>1, <2>4 DEF Chain
    <3> QED BY <1>1, <3>1 DEF Link, Written, Start, Cell
  <2> QED BY <1>1, <2>1, <2>2, <2>3, <2>4 DEF Chain, Start, Cell
<1>10. Run'
  <2>1. executed \in Seq(Segs) /\ Len(executed) \in Nat
    BY <1>0 DEF Run
  <2>2. /\ executed' \in Seq(Segs) /\ Len(executed') = Len(executed) + 1
        /\ \A n \in 1 .. Len(executed) : executed'[n] = executed[n]
        /\ executed'[Len(executed) + 1] = v
    BY <1>4, <2>1
  <2>3. ASSUME NEW n \in 1 .. Len(executed) + 1 PROVE executed'[n].idx < done' /\ (n <= Len(executed) => executed'[n].idx < done)
    <3>1. CASE n = Len(executed) + 1
      BY <1>4, <1>5, <2>1, <2>2, <3>1
    <3>2. CASE n # Len(executed) + 1
      <4>1. n \in 1 .. Len(executed) /\ executed'[n] = executed[n] /\ executed[n] \in Segs
        BY <2>1, <2>2, <3>2
      <4>2. executed[n].idx < done /\ executed[n].idx \in Nat
        BY <1>0, <4>1 DEF Run, Segs
      <4>3. done < done'
        BY <1>4, <1>5
      <4> QED BY <1>4, <1>5, <4>1, <4>2, <4>3
    <3> QED BY <3>1, <3>2
  <2>4. ASSUME NEW n \in 1 .. Len(executed) + 1, NEW m \in 1 .. Len(executed) + 1, n < m
        PROVE  executed'[n].idx < executed'[m].idx
    <3>1. n \in 1 .. Len(executed)
      BY <2>1, <2>4
    <3>2. CASE m = Len(executed) + 1
      BY <1>4, <2>2, <2>3, <3>1, <3>2
    <3>3. CASE m # Len(executed) + 1
      <4>1. m \in 1 .. Len(executed)
        BY <2>1, <3>3
      <4> QED BY <1>0, <2>2, <2>4, <3>1, <4>1 DEF Run
    <3> QED BY <3>2, <3>3
  <2> QED BY <2>2, <2>3, <2>4 DEF Run
<1> QED BY <1>6, <1>7, <1>8, <1>9, <1>10 DEF QueueInv

-----------------------------------------------------------------------------
(* The history.                                                            *)

(* A new call starts where the reservations end.                           *)
LEMMA CallHistory ==
  ASSUME QueueInv, ticket \in [Actors -> Int], NEW B \in [Actors -> Seq(Nat)], History(B),
         NEW p \in Callers, NEW c \in CallsOf(p), Call(p, c),
         NEW C, C = [a \in Actors |-> IF a \in Members(p) THEN Append(B[a], rsvd) ELSE B[a]]
  PROVE  /\ C \in [Actors -> Seq(Nat)] /\ History(C)'
         /\ \A a \in Actors : /\ Len(asked[a]) \in Nat /\ Len(asked[a]) <= Len(asked'[a])
                              /\ \A d \in 1 .. Len(asked[a]) :
                                   /\ asked'[a][d] = asked[a][d] /\ C[a][d] = B[a][d]
                                   /\ PlanOf(a, d)' = PlanOf(a, d) /\ SpanOf(a, d)' = SpanOf(a, d)
                                   /\ Mine(a, d)' = Mine(a, d)
         /\ \A a \in Actors : a \notin Members(p) => asked'[a] = asked[a]
<1>0. Ordered /\ OpTyped /\ Asked(B) /\ Current(B) /\ Traced(B)
  BY DEF QueueInv, History
<1>1. /\ op[p] = Idle /\ op'[p] # Idle /\ op'[p].call = c /\ op'[p].base = rsvd
      /\ \A q \in Callers \ {p} : op'[q] = op[q]
      /\ Span(p, c) \in Nat /\ rsvd' = rsvd + Span(p, c)
      /\ asked' = [a \in Actors |-> IF a \in Members(p) THEN Append(asked[a], c) ELSE asked[a]]
      /\ UNCHANGED <<ready, rung, done, slots, executed, ticket, waiting, seen, vis>>
  <2>1. /\ op[p] = Idle /\ op'[p] # Idle /\ op'[p].call = c /\ op'[p].base = rsvd
        /\ \A q \in Callers \ {p} : op'[q] = op[q]
        /\ Span(p, c) \in Nat
    BY CallQueue
  <2> QED BY <2>1 DEF Call
<1>2. rsvd \in Nat /\ ready \in Nat /\ done \in Nat /\ done <= ready /\ ready <= rsvd
  BY <1>0 DEF Ordered
<1>3. ASSUME NEW a \in Actors
      PROVE  /\ asked[a] \in Seq(CallsOf(CallerOf(a))) /\ Len(asked[a]) \in Nat
             /\ B[a] \in Seq(Nat) /\ Len(B[a]) = Len(asked[a])
             /\ a \in Members(p) <=> CallerOf(a) = p
  BY <1>0, Callers_ DEF Asked
<1>4. ASSUME NEW a \in Actors
      PROVE  /\ asked'[a] \in Seq(CallsOf(CallerOf(a))) /\ C[a] \in Seq(Nat) /\ Len(C[a]) = Len(asked'[a])
             /\ \A d \in 1 .. Len(asked[a]) : asked'[a][d] = asked[a][d] /\ C[a][d] = B[a][d]
             /\ a \in Members(p) => /\ Len(asked'[a]) = Len(asked[a]) + 1
                                    /\ asked'[a][Len(asked[a]) + 1] = c
                                    /\ C[a][Len(asked[a]) + 1] = rsvd
             /\ a \notin Members(p) => asked'[a] = asked[a] /\ C[a] = B[a]
             /\ Len(asked'[a]) \in Nat /\ Len(asked[a]) <= Len(asked'[a])
  <2>1. CASE a \in Members(p)
    <3>1. asked'[a] = Append(asked[a], c) /\ C[a] = Append(B[a], rsvd) /\ CallerOf(a) = p
      BY <1>1, <1>3, <2>1
    <3>2. c \in CallsOf(CallerOf(a))
      BY <3>1
    <3> QED BY <1>2, <1>3, <2>1, <3>1, <3>2
  <2>2. CASE a \notin Members(p)
    BY <1>1, <1>3, <2>2
  <2> QED BY <2>1, <2>2
<1>5. ASSUME NEW a \in Actors, NEW d \in 1 .. Len(asked[a])
      PROVE  /\ asked'[a][d] = asked[a][d] /\ C[a][d] = B[a][d]
             /\ PlanOf(a, d)' = PlanOf(a, d) /\ SpanOf(a, d)' = SpanOf(a, d)
             /\ Mine(a, d)' = Mine(a, d)
             /\ C[a][d] \in Nat /\ SpanOf(a, d) \in Nat /\ C[a][d] + SpanOf(a, d) <= rsvd
  BY <1>0, <1>4, CallKnown DEF PlanOf, SpanOf, Mine
<1>6. ASSUME NEW a \in Members(p), NEW d, d = Len(asked[a]) + 1
      PROVE  a \in Actors /\ C[a][d] = rsvd /\ SpanOf(a, d)' = Span(p, c)
  <2>1. a \in Actors /\ CallerOf(a) = p
    BY Callers_
  <2>2. asked'[a][d] = c /\ C[a][d] = rsvd
    BY <1>4, <1>6, <2>1
  <2> QED BY <2>1, <2>2 DEF SpanOf
<1>7. ASSUME NEW a \in Actors, NEW d \in 1 .. Len(asked'[a])
      PROVE  \/ d \in 1 .. Len(asked[a])
             \/ a \in Members(p) /\ d = Len(asked[a]) + 1
  BY <1>3, <1>4
<1>8. ASSUME NEW a \in Actors, NEW d \in 1 .. Len(asked'[a])
      PROVE  C[a][d] + SpanOf(a, d)' <= rsvd'
  <2>1. CASE d \in 1 .. Len(asked[a])
    <3>1. PICK b \in Nat, s \in Nat, t \in Nat : b = C[a][d] /\ s = SpanOf(a, d) /\ t = Span(p, c)
      BY <1>1, <1>5, <2>1
    <3>2. SpanOf(a, d)' = s /\ b + s <= rsvd /\ rsvd' = rsvd + t
      BY <1>1, <1>5, <2>1, <3>1
    <3>3. b + s <= rsvd + t
      BY <1>2, <3>2
    <3> QED BY <3>1, <3>2, <3>3
  <2>2. CASE a \in Members(p) /\ d = Len(asked[a]) + 1
    <3>1. C[a][d] = rsvd /\ SpanOf(a, d)' = Span(p, c)
      BY <1>6, <2>2
    <3>2. PICK t \in Nat : t = Span(p, c)
      BY <1>1
    <3>3. rsvd' = rsvd + t /\ rsvd + t <= rsvd + t
      BY <1>1, <1>2, <3>2
    <3> QED BY <3>1, <3>2, <3>3
  <2> QED BY <1>7, <2>1, <2>2
<1>9. ASSUME NEW a \in Actors, NEW d \in 1 .. Len(asked'[a]), NEW f \in 1 .. Len(asked'[a]), d < f
      PROVE  C[a][d] + SpanOf(a, d)' <= C[a][f]
  <2>1. d \in 1 .. Len(asked[a])
    BY <1>3, <1>7, <1>9
  <2>2. CASE f \in 1 .. Len(asked[a])
    <3>1. B[a][d] + SpanOf(a, d) <= B[a][f]
      BY <1>0, <1>9, <2>1, <2>2 DEF Asked
    <3> QED BY <1>5, <2>1, <2>2, <3>1
  <2>3. CASE a \in Members(p) /\ f = Len(asked[a]) + 1
    BY <1>5, <1>6, <2>1, <2>3
  <2> QED BY <1>7, <2>2, <2>3
<1>10. ASSUME NEW a \in Actors, NEW b \in Actors, CallerOf(a) # CallerOf(b),
              NEW d \in 1 .. Len(asked'[a]), NEW f \in 1 .. Len(asked'[b])
       PROVE  C[a][d] + SpanOf(a, d)' <= C[b][f] \/ C[b][f] + SpanOf(b, f)' <= C[a][d]
  <2>1. CASE d \in 1 .. Len(asked[a]) /\ f \in 1 .. Len(asked[b])
    <3>1. B[a][d] + SpanOf(a, d) <= B[b][f] \/ B[b][f] + SpanOf(b, f) <= B[a][d]
      BY <1>0, <1>10, <2>1 DEF Asked
    <3> QED BY <1>5, <2>1, <3>1
  <2>2. CASE d \in 1 .. Len(asked[a]) /\ b \in Members(p) /\ f = Len(asked[b]) + 1
    BY <1>5, <1>6, <2>2
  <2>3. CASE f \in 1 .. Len(asked[b]) /\ a \in Members(p) /\ d = Len(asked[a]) + 1
    BY <1>5, <1>6, <2>3
  <2>4. ~(a \in Members(p) /\ b \in Members(p))
    BY <1>3, <1>10
  <2> QED BY <1>7, <2>1, <2>2, <2>3, <2>4
<1>11. \A a, b \in Lanes : asked'[a] = asked'[b] /\ C[a] = C[b]
  <2> SUFFICES ASSUME NEW a \in Lanes, NEW b \in Lanes PROVE asked'[a] = asked'[b] /\ C[a] = C[b]
    OBVIOUS
  <2>1. a \in Actors /\ b \in Actors /\ CallerOf(a) = CallerOf(b)
    BY DEF Actors, CallerOf
  <2>2. asked[a] = asked[b] /\ B[a] = B[b]
    BY <1>0 DEF Asked
  <2>3. a \in Members(p) <=> b \in Members(p)
    BY <1>3, <2>1
  <2> QED BY <1>1, <2>1, <2>2, <2>3
<1>12. DOMAIN asked' = Actors /\ DOMAIN C = Actors
  BY <1>1
<1>13. Asked(C)'
  <2>1. ASSUME NEW a \in Actors
        PROVE  /\ asked'[a] \in Seq(CallsOf(CallerOf(a))) /\ C[a] \in Seq(Nat) /\ Len(C[a]) = Len(asked'[a])
               /\ \A d \in 1 .. Len(asked'[a]) : C[a][d] + SpanOf(a, d)' <= rsvd'
               /\ \A d, f \in 1 .. Len(asked'[a]) : d < f => C[a][d] + SpanOf(a, d)' <= C[a][f]
    BY <1>4, <1>8, <1>9
  <2> QED BY <1>10, <1>11, <1>12, <2>1 DEF Asked
<1>14. Current(C)'
  <2> SUFFICES ASSUME NEW q \in Callers, op'[q] # Idle, NEW a \in Members(q)
               PROVE  /\ Len(asked'[a]) >= 1 /\ asked'[a][Len(asked'[a])] = op'[q].call
                      /\ C[a][Len(asked'[a])] = op'[q].base
    BY DEF Current
  <2>1. a \in Actors /\ CallerOf(a) = q
    BY Callers_
  <2>2. CASE q = p
    BY <1>1, <1>3, <1>4, <2>1, <2>2
  <2>3. CASE q # p
    <3>1. op'[q] = op[q] /\ asked'[a] = asked[a] /\ C[a] = B[a]
      BY <1>1, <1>3, <1>4, <2>1, <2>3
    <3>2. Len(asked[a]) >= 1 /\ asked[a][Len(asked[a])] = op[q].call /\ B[a][Len(asked[a])] = op[q].base
      BY <1>0, <3>1 DEF Current
    <3> QED BY <3>1, <3>2
  <2> QED BY <2>2, <2>3
<1>15. Traced(C)'
  <2>1. ASSUME NEW w, Known(B, w) PROVE Known(C, w)'
    <3>1. PICK k \in Mine(w.by, w.call) : w = Wqe(B, w.by, w.call, k)
      BY <2>1 DEF Known
    <3>2. w.by \in Actors /\ w.call \in 1 .. Len(asked[w.by])
      BY <2>1 DEF Known
    <3>3. PICK a \in Actors, d \in Nat : a = w.by /\ d = w.call /\ d \in 1 .. Len(asked[a])
      BY <1>3, <3>2
    <3>4. Wqe(C, a, d, k)' = w /\ k \in Mine(a, d)'
      BY <1>5, <3>1, <3>3 DEF Wqe
    <3>5. d \in 1 .. Len(asked'[a])
      BY <1>3, <1>4, <3>3
    <3> QED BY <3>3, <3>4, <3>5 DEF Known
  <2>2. \A n \in 1 .. Len(executed) : Known(C, executed[n])'
    <3> SUFFICES ASSUME NEW n \in 1 .. Len(executed) PROVE Known(C, executed[n])'
      OBVIOUS
    <3>1. PICK w : w = executed[n]
      OBVIOUS
    <3>2. Known(C, w)'
      BY <1>0, <2>1, <3>1 DEF Traced
    <3> QED BY <1>1, <3>1, <3>2 DEF Known
  <2>3. \A i \in done .. ready - 1 : Start(i) => Known(C, Cell(i, 0))'
    <3> SUFFICES ASSUME NEW i \in done .. ready - 1, Start(i) PROVE Known(C, Cell(i, 0))'
      OBVIOUS
    <3>1. PICK w : w = Cell(i, 0)
      OBVIOUS
    <3>2. Known(C, w)' /\ Cell(i, 0)' = w
      BY <1>0, <1>1, <2>1, <3>1 DEF Traced, Cell
    <3> QED BY <3>2 DEF Known
  <2>4. ASSUME NEW a \in Actors, NEW d \in 1 .. Len(asked'[a]), NEW k \in Mine(a, d)',
               NEW w, w = Wqe(C, a, d, k)'
        PROVE  /\ w.idx < done => \E n \in 1 .. Len(executed) : executed[n] = w
               /\ done <= w.idx /\ w.idx < ready => Cell(w.idx, 0) = w
    <3>1. CASE d \in 1 .. Len(asked[a])
      <4>1. k \in Mine(a, d) /\ w = Wqe(B, a, d, k)
        BY <1>5, <2>4, <3>1 DEF Wqe
      <4> QED BY <1>0, <3>1, <4>1 DEF Traced
    <3>2. CASE a \in Members(p) /\ d = Len(asked[a]) + 1
      <4>1. w.idx = rsvd + k - 1
        BY <1>6, <2>4, <3>2 DEF Wqe
      <4>2. PICK m : m = Len(PlanOf(a, d)')
        OBVIOUS
      <4>3. m \in Nat
        <5>1. PlanOf(a, d)' = Plan(p, c)
          BY <1>3, <1>4, <3>2 DEF PlanOf
        <5> QED BY <4>2, <5>1, PlanKnown
      <4>4. k \in 1 .. m
        BY <2>4, <4>2 DEF Mine
      <4> QED BY <1>2, <4>1, <4>3, <4>4
    <3> QED BY <1>7, <3>1, <3>2
  <2>5. ASSUME NEW a \in Actors, NEW d \in 1 .. Len(asked'[a]), NEW k \in Mine(a, d)'
        PROVE  (LET w == Wqe(C, a, d, k)
                IN  /\ w.idx < done => \E n \in 1 .. Len(executed) : executed[n] = w
                    /\ done <= w.idx /\ w.idx < ready => Cell(w.idx, 0) = w)'
    <3>1. PICK w : w = Wqe(C, a, d, k)'
      OBVIOUS
    <3>2. /\ w.idx < done => \E n \in 1 .. Len(executed) : executed[n] = w
          /\ done <= w.idx /\ w.idx < ready => Cell(w.idx, 0) = w
      BY <2>4, <3>1
    <3> QED BY <1>1, <3>1, <3>2 DEF Cell
  <2> QED BY <1>1, <2>2, <2>3, <2>5 DEF Traced, Start, Cell
<1>16. C \in [Actors -> Seq(Nat)]
  BY <1>4, <1>12
<1>17. ASSUME NEW a \in Actors
       PROVE  /\ Len(asked[a]) \in Nat /\ Len(asked[a]) <= Len(asked'[a])
              /\ a \notin Members(p) => asked'[a] = asked[a]
  BY <1>3, <1>4
<1> QED BY <1>5, <1>13, <1>14, <1>15, <1>16, <1>17 DEF History

(* The other steps leave the calls alone.                                  *)
LEMMA AskedKept ==
  ASSUME NEW B, Asked(B), asked' = asked, rsvd' = rsvd
  PROVE  Asked(B)'
BY DEF Asked, SpanOf

LEMMA CurrentKept ==
  ASSUME NEW B, Current(B), asked' = asked,
         \A q \in Callers : op'[q] # Idle =>
           op[q] # Idle /\ op'[q].call = op[q].call /\ op'[q].base = op[q].base
  PROVE  Current(B)'
BY DEF Current

LEMMA KnownKept ==
  ASSUME NEW B, NEW w, asked' = asked
  PROVE  /\ Known(B, w)' <=> Known(B, w)
         /\ \A a, c, k : Wqe(B, a, c, k)' = Wqe(B, a, c, k)
         /\ \A a, c : Mine(a, c)' = Mine(a, c) /\ PlanOf(a, c)' = PlanOf(a, c) /\ SpanOf(a, c)' = SpanOf(a, c)
<1>1. \A a, c : PlanOf(a, c)' = PlanOf(a, c) /\ SpanOf(a, c)' = SpanOf(a, c)
  BY DEF PlanOf, SpanOf
<1>2. \A a, c : Mine(a, c)' = Mine(a, c)
  BY <1>1 DEF Mine
<1>3. \A a, c, k : Wqe(B, a, c, k)' = Wqe(B, a, c, k)
  BY <1>1 DEF Wqe
<1> QED BY <1>1, <1>2, <1>3 DEF Known

LEMMA TracedKept ==
  ASSUME NEW B, Traced(B), asked' = asked, executed' = executed, done' = done, ready' = ready,
         \A i \in done .. ready - 1 : Cell(i, 0)' = Cell(i, 0),
         \A a \in Actors : \A c \in 1 .. Len(asked[a]) : \A k \in Mine(a, c) : Wqe(B, a, c, k).idx \in Nat,
         done \in Nat, ready \in Nat
  PROVE  Traced(B)'
<1>1. ASSUME NEW w PROVE Known(B, w)' <=> Known(B, w)
  BY KnownKept
<1>2. \A n \in 1 .. Len(executed) : Known(B, executed[n])'
  <2> SUFFICES ASSUME NEW n \in 1 .. Len(executed) PROVE Known(B, executed[n])'
    OBVIOUS
  <2>1. PICK w : w = executed[n]
    OBVIOUS
  <2>2. Known(B, w)'
    BY <1>1, <2>1 DEF Traced
  <2> QED BY <2>1, <2>2 DEF Known
<1>3. \A i \in done .. ready - 1 : Start(i)' => Known(B, Cell(i, 0))'
  <2> SUFFICES ASSUME NEW i \in done .. ready - 1, Start(i)' PROVE Known(B, Cell(i, 0))'
    OBVIOUS
  <2>1. PICK w : w = Cell(i, 0)
    OBVIOUS
  <2>2. Cell(i, 0)' = w
    BY <2>1
  <2>3. Start(i)
    BY <2>1, <2>2 DEF Start
  <2>4. Known(B, w)'
    BY <1>1, <2>1, <2>3 DEF Traced
  <2> QED BY <2>2, <2>4 DEF Known
<1>4. ASSUME NEW a \in Actors, NEW c \in 1 .. Len(asked[a]), NEW k \in Mine(a, c)
      PROVE  (LET w == Wqe(B, a, c, k)
              IN  /\ w.idx < done => \E n \in 1 .. Len(executed) : executed[n] = w
                  /\ done <= w.idx /\ w.idx < ready => Cell(w.idx, 0) = w)'
  <2>1. PICK w : w = Wqe(B, a, c, k)
    OBVIOUS
  <2>2. Wqe(B, a, c, k)' = w
    BY <2>1, KnownKept
  <2>3. /\ w.idx < done => \E n \in 1 .. Len(executed) : executed[n] = w
        /\ done <= w.idx /\ w.idx < ready => Cell(w.idx, 0) = w
        /\ w.idx \in Nat
    BY <2>1 DEF Traced
  <2>4. done <= w.idx /\ w.idx < ready => Cell(w.idx, 0)' = w
    <3>1. done <= w.idx /\ w.idx < ready => w.idx \in done .. ready - 1
      BY <2>3
    <3> QED BY <2>3, <3>1
  <2> QED BY <2>2, <2>3, <2>4
<1>5. \A a \in Actors : \A c \in 1 .. Len(asked'[a]) : \A k \in Mine(a, c)' :
        (LET w == Wqe(B, a, c, k)
         IN  /\ w.idx < done => \E n \in 1 .. Len(executed) : executed[n] = w
             /\ done <= w.idx /\ w.idx < ready => Cell(w.idx, 0) = w)'
  <2> SUFFICES ASSUME NEW a \in Actors, NEW c \in 1 .. Len(asked'[a]), NEW k \in Mine(a, c)'
               PROVE  (LET w == Wqe(B, a, c, k)
                       IN  /\ w.idx < done => \E n \in 1 .. Len(executed) : executed[n] = w
                           /\ done <= w.idx /\ w.idx < ready => Cell(w.idx, 0) = w)'
    OBVIOUS
  <2>1. k \in Mine(a, c) /\ c \in 1 .. Len(asked[a])
    BY KnownKept
  <2> QED BY <1>4, <2>1
<1> QED BY <1>2, <1>3, <1>5 DEF Traced

LEMMA FillHistory ==
  ASSUME NEW B, QueueInv, History(B), NEW p \in Callers, op[p] # Idle,
         NEW k \in 1 .. Len(Steps(p)), Fill(p, k)
  PROVE  History(B)'
<1>0. Ordered /\ OpTyped /\ OpsInv /\ Asked(B) /\ Current(B) /\ Traced(B)
  BY DEF QueueInv, History
<1>1. /\ op' = [op EXCEPT ![p].filled = op[p].filled \cup {k}]
      /\ UNCHANGED <<rsvd, ready, rung, done, executed, asked, ticket, waiting, seen, vis>>
      /\ op[p].pc = "fill" /\ ready <= op[p].base
  BY <1>0 DEF Fill, OpsInv, Filling
<1>2. PICK w : w = Now(p, k)
  OBVIOUS
<1>3. /\ w \in Segs /\ w.idx = op[p].base + k - 1 /\ w.op \in DOMAIN Formats
  BY <1>0, <1>2, NowKnown
<1>4. PICK b \in Nat, m \in Nat : b = op[p].base /\ m = Len(Steps(p))
  BY <1>0, StepsKnown
<1>5. w.idx = b + k - 1 /\ ready <= b /\ k \in Nat /\ k >= 1
  BY <1>1, <1>3, <1>4
<1>6. ready \in Nat /\ done \in Nat /\ done <= ready /\ SlotNum \in Nat \ {0} /\ ready <= done + SlotNum
  BY <1>0, TransfersAssumption DEF Ordered
<1>7. \A i \in done .. ready - 1 : Cell(i, 0)' = Cell(i, 0)
  <2> SUFFICES ASSUME NEW i \in done .. ready - 1 PROVE Cell(i, 0)' = Cell(i, 0)
    OBVIOUS
  <2>1. "NOP" \in DOMAIN Formats /\ Slots("NOP") = 1
    BY FormatNames, FormatKnown
  <2>2. 0 \in 0 .. Formats["NOP"].ds - 1
    BY <2>1, FormatKnown
  <2>3. i \in Nat /\ done <= i /\ i + 1 <= done + SlotNum /\ i + 1 <= w.idx
    BY <1>5, <1>6
  <2> QED BY <1>0, <1>2, <2>1, <2>2, <2>3, FillCells
<1>8. Asked(B)'
  BY <1>0, <1>1, AskedKept
<1>9. Current(B)'
  <2>1. \A q \in Callers : op'[q] # Idle =>
          op[q] # Idle /\ op'[q].call = op[q].call /\ op'[q].base = op[q].base
    BY <1>0, <1>1 DEF OpTyped
  <2> QED BY <1>0, <1>1, <2>1, CurrentKept
<1>10. Traced(B)'
  <2>1. \A a \in Actors : \A c \in 1 .. Len(asked[a]) : \A j \in Mine(a, c) : Wqe(B, a, c, j).idx \in Nat
    BY <1>0, WqeKnown
  <2> QED BY <1>0, <1>1, <1>6, <1>7, <2>1, TracedKept
<1> QED BY <1>8, <1>9, <1>10 DEF History

LEMMA MarkHistory ==
  ASSUME NEW B, QueueInv, History(B), NEW p \in Callers, op[p] # Idle, Mark(p)
  PROVE  History(B)'
<1>0. Ordered /\ OpTyped /\ OpsInv /\ Asked(B) /\ Current(B) /\ Traced(B)
  BY DEF QueueInv, History
<1>1. /\ op' = [op EXCEPT ![p].pc = "submit"]
      /\ UNCHANGED <<rsvd, rung, done, slots, executed, asked, ticket, waiting, seen, vis>>
  BY DEF Mark
<1>2. /\ ready = op[p].base /\ ready' = End(p) /\ ready < End(p)
      /\ \A k \in 1 .. Len(Steps(p)) : Cell(ready + k - 1, 0) = Now(p, k)
      /\ \A i \in ready .. End(p) - 1 : Start(i) =>
           \E k \in 1 .. Len(Steps(p)) : i = ready + k - 1 /\ Cell(i, 0) = Now(p, k)
  BY <1>0, MarkCells
<1>3. PICK r \in Nat, e \in Nat : r = ready /\ e = End(p)
  BY <1>0, StepsKnown DEF Ordered
<1>4. r = op[p].base /\ r < e /\ done \in Nat /\ done <= r /\ e = r + Span(p, op[p].call) /\ ready' = e
  BY <1>0, <1>2, <1>3, StepsKnown DEF Ordered
<1>5. Asked(B)'
  BY <1>0, <1>1, AskedKept
<1>6. Current(B)'
  <2>1. \A q \in Callers : op'[q] # Idle =>
          op[q] # Idle /\ op'[q].call = op[q].call /\ op'[q].base = op[q].base
    BY <1>0, <1>1 DEF OpTyped
  <2> QED BY <1>0, <1>1, <2>1, CurrentKept
<1>7. ASSUME NEW i \in done .. e - 1, Start(i) PROVE Known(B, Cell(i, 0))
  <2>1. CASE i < r
    BY <1>0, <1>3, <1>4, <1>7, <2>1 DEF Traced
  <2>2. CASE i >= r
    <3>1. PICK k \in 1 .. Len(Steps(p)) : Cell(i, 0) = Now(p, k)
      <4>1. i \in ready .. End(p) - 1
        BY <1>3, <1>4, <2>2
      <4> QED BY <1>2, <1>7, <4>1
    <3>2. PICK a \in Actors, n \in Nat : /\ a = By(p, k) /\ n = Len(asked[a]) /\ n \in 1 .. Len(asked[a])
                                         /\ k \in Mine(a, n) /\ Now(p, k) = Wqe(B, a, n, k)
      <4>1. /\ By(p, k) \in Actors /\ Len(asked[By(p, k)]) \in 1 .. Len(asked[By(p, k)])
            /\ k \in Mine(By(p, k), Len(asked[By(p, k)]))
            /\ Now(p, k) = Wqe(B, By(p, k), Len(asked[By(p, k)]), k)
        BY <1>0, NowKnown
      <4>2. Len(asked[By(p, k)]) \in Nat
        BY <1>0, <4>1 DEF Asked
      <4> QED BY <4>1, <4>2
    <3>3. Wqe(B, a, n, k).by = a /\ Wqe(B, a, n, k).call = n
      BY DEF Wqe
    <3> QED BY <3>1, <3>2, <3>3 DEF Known
  <2> QED BY <1>3, <2>1, <2>2
<1>8. ASSUME NEW a \in Actors, NEW c \in 1 .. Len(asked[a]), NEW k \in Mine(a, c),
             NEW w, w = Wqe(B, a, c, k), done <= w.idx, w.idx < e
      PROVE  Cell(w.idx, 0) = w
  <2>1. /\ w.idx \in Nat /\ B[a][c] \in Nat /\ B[a][c] <= w.idx /\ w.idx < B[a][c] + SpanOf(a, c)
        /\ w.idx = B[a][c] + k - 1 /\ k \in 1 .. Len(PlanOf(a, c)) /\ k \in Nat
    BY <1>0, <1>8, WqeKnown
  <2>2. SpanOf(a, c) \in Nat
    BY <1>0, CallKnown
  <2>3. PICK b \in Nat, s \in Nat, i \in Nat : b = B[a][c] /\ s = SpanOf(a, c) /\ i = w.idx
    BY <2>1, <2>2
  <2>4. b <= i /\ i < b + s /\ i < e /\ i = b + k - 1
    BY <1>8, <2>1, <2>3
  <2>5. CASE i < r
    BY <1>0, <1>3, <1>8, <2>3, <2>5 DEF Traced
  <2>6. CASE i >= r
    <3>1. CallerOf(a) = p
      <4>1. SUFFICES ASSUME CallerOf(a) # p PROVE FALSE
        OBVIOUS
      <4>2. PICK m \in Members(p) : TRUE
        BY Callers_
      <4>3. /\ m \in Actors /\ CallerOf(m) = p /\ Len(asked[m]) \in 1 .. Len(asked[m])
            /\ B[m][Len(asked[m])] = r /\ r + SpanOf(m, Len(asked[m])) = e
        BY <1>0, <1>4, MemberKnown
      <4>4. b + s <= r \/ e <= b
        BY <1>0, <2>3, <4>1, <4>3 DEF Asked
      <4> QED BY <2>4, <2>6, <4>4
    <3>2. a \in Members(p)
      BY <3>1, Callers_
    <3>3. /\ Len(asked[a]) \in 1 .. Len(asked[a]) /\ Len(asked[a]) \in Nat
          /\ B[a][Len(asked[a])] = r /\ PlanOf(a, Len(asked[a])) = Steps(p)
      BY <1>0, <1>4, <3>2, MemberKnown
    <3>4. c = Len(asked[a])
      <4>1. c < Len(asked[a]) => B[a][c] + SpanOf(a, c) <= B[a][Len(asked[a])]
        BY <1>0, <3>3 DEF Asked
      <4>2. c < Len(asked[a]) => b + s <= r
        BY <2>3, <3>3, <4>1
      <4>3. ~(c < Len(asked[a]))
        BY <2>4, <2>6, <4>2
      <4> QED BY <3>3, <4>3
    <3>5. k \in 1 .. Len(Steps(p)) /\ By(p, k) = a
      BY <2>1, <3>1, <3>3, <3>4 DEF Mine
    <3>6. Now(p, k) = w
      BY <1>8, <3>3, <3>4, <3>5, <1>4 DEF Now, Wqe
    <3>7. i = r + k - 1
      BY <2>3, <2>4, <3>3, <3>4
    <3> QED BY <1>2, <1>3, <2>3, <3>5, <3>6, <3>7
  <2> QED BY <2>5, <2>6
<1>9. Traced(B)'
  <2>1. \A n \in 1 .. Len(executed) : Known(B, executed[n])'
    <3> SUFFICES ASSUME NEW n \in 1 .. Len(executed) PROVE Known(B, executed[n])'
      OBVIOUS
    <3>1. PICK w : w = executed[n]
      OBVIOUS
    <3>2. Known(B, w)'
      BY <1>0, <1>1, <3>1, KnownKept DEF Traced
    <3> QED BY <1>1, <3>1, <3>2 DEF Known
  <2>2. \A i \in done .. e - 1 : Start(i)' => Known(B, Cell(i, 0))'
    <3> SUFFICES ASSUME NEW i \in done .. e - 1, Start(i)' PROVE Known(B, Cell(i, 0))'
      OBVIOUS
    <3>1. PICK w : w = Cell(i, 0)
      OBVIOUS
    <3>2. Cell(i, 0)' = w /\ Start(i)
      BY <1>1, <3>1 DEF Cell, Start
    <3>3. Known(B, w)'
      BY <1>1, <1>7, <3>1, <3>2, KnownKept
    <3> QED BY <3>2, <3>3 DEF Known
  <2>3. ASSUME NEW a \in Actors, NEW c \in 1 .. Len(asked[a]), NEW k \in Mine(a, c)
        PROVE  (LET w == Wqe(B, a, c, k)
                IN  /\ w.idx < done => \E n \in 1 .. Len(executed) : executed[n] = w
                    /\ done <= w.idx /\ w.idx < ready => Cell(w.idx, 0) = w)'
    <3>1. PICK w : w = Wqe(B, a, c, k)
      OBVIOUS
    <3>2. Wqe(B, a, c, k)' = w
      BY <1>1, <3>1, KnownKept
    <3>3. w.idx < done => \E n \in 1 .. Len(executed) : executed[n] = w
      BY <1>0, <3>1 DEF Traced
    <3>4. done <= w.idx /\ w.idx < e => Cell(w.idx, 0)' = w
      BY <1>1, <1>8, <3>1 DEF Cell
    <3> QED BY <1>1, <1>4, <3>2, <3>3, <3>4
  <2>4. \A a \in Actors : \A c \in 1 .. Len(asked'[a]) : \A k \in Mine(a, c)' :
          (LET w == Wqe(B, a, c, k)
           IN  /\ w.idx < done => \E n \in 1 .. Len(executed) : executed[n] = w
               /\ done <= w.idx /\ w.idx < ready => Cell(w.idx, 0) = w)'
    <3> SUFFICES ASSUME NEW a \in Actors, NEW c \in 1 .. Len(asked'[a]), NEW k \in Mine(a, c)'
                 PROVE  (LET w == Wqe(B, a, c, k)
                         IN  /\ w.idx < done => \E n \in 1 .. Len(executed) : executed[n] = w
                             /\ done <= w.idx /\ w.idx < ready => Cell(w.idx, 0) = w)'
      OBVIOUS
    <3>1. k \in Mine(a, c) /\ c \in 1 .. Len(asked[a])
      BY <1>1, KnownKept
    <3> QED BY <2>3, <3>1
  <2> QED BY <1>1, <1>4, <2>1, <2>2, <2>4 DEF Traced
<1> QED BY <1>5, <1>6, <1>9 DEF History

LEMMA QuietHistory ==
  ASSUME NEW B, QueueInv, History(B), UNCHANGED <<asked, rsvd, slots, executed, done, ready>>,
         \A q \in Callers : op'[q] # Idle =>
           op[q] # Idle /\ op'[q].call = op[q].call /\ op'[q].base = op[q].base
  PROVE  History(B)'
<1>0. Ordered /\ Asked(B) /\ Current(B) /\ Traced(B)
  BY DEF QueueInv, History
<1>1. done \in Nat /\ ready \in Nat
  BY <1>0 DEF Ordered
<1>2. Asked(B)' /\ Current(B)'
  BY <1>0, AskedKept, CurrentKept
<1>3. \A a \in Actors : \A c \in 1 .. Len(asked[a]) : \A j \in Mine(a, c) : Wqe(B, a, c, j).idx \in Nat
  BY <1>0, WqeKnown
<1>4. \A i \in done .. ready - 1 : Cell(i, 0)' = Cell(i, 0)
  BY DEF Cell
<1>5. Traced(B)'
  BY <1>0, <1>1, <1>3, <1>4, TracedKept
<1> QED BY <1>2, <1>5 DEF History

LEMMA ExecuteHistory ==
  ASSUME NEW B, QueueInv, History(B), Execute
  PROVE  History(B)'
<1>0. Ordered /\ Run /\ Asked(B) /\ Current(B) /\ Traced(B)
  BY DEF QueueInv, History
<1>1. UNCHANGED <<rsvd, ready, rung, slots, op, asked, ticket, waiting, seen, vis>>
  BY DEF Execute
<1>2. PICK v : v = WqeAt(done)
  OBVIOUS
<1>3. PICK z \in {1, 2} : z = Slots(v.op)
  BY <1>2, ExecuteWhole
<1>4. /\ v \in Segs /\ v.idx = done /\ done' = done + z /\ done' <= rung /\ v = Cell(done, 0)
      /\ Start(done) /\ done \in done .. ready - 1
      /\ z = 2 => ~Start(done + 1)
      /\ executed' = Append(executed, v)
  BY <1>2, <1>3, ExecuteWhole
<1>5. done \in Nat /\ ready \in Nat /\ rung \in Nat /\ rung <= ready
  BY <1>0 DEF Ordered
<1>6. /\ Len(executed) \in Nat /\ Len(executed') = Len(executed) + 1
      /\ \A n \in 1 .. Len(executed) : executed'[n] = executed[n]
      /\ executed'[Len(executed) + 1] = v
  BY <1>0, <1>4 DEF Run
<1>7. Asked(B)' /\ Current(B)'
  BY <1>0, <1>1, AskedKept, CurrentKept
<1>8. ASSUME NEW w PROVE Known(B, w)' <=> Known(B, w)
  BY <1>1, KnownKept
<1>9. \A n \in 1 .. Len(executed') : Known(B, executed[n])'
  <2> SUFFICES ASSUME NEW n \in 1 .. Len(executed') PROVE Known(B, executed[n])'
    OBVIOUS
  <2>1. PICK w : w = executed'[n]
    OBVIOUS
  <2>2. Known(B, w)
    <3>1. CASE n = Len(executed) + 1
      <4>1. w = Cell(done, 0)
        BY <1>4, <1>6, <2>1, <3>1
      <4> QED BY <1>0, <1>4, <4>1 DEF Traced
    <3>2. CASE n # Len(executed) + 1
      <4>1. n \in 1 .. Len(executed)
        BY <1>6, <3>2
      <4> QED BY <1>0, <1>6, <2>1, <4>1 DEF Traced
    <3> QED BY <3>1, <3>2
  <2>3. Known(B, w)'
    BY <1>8, <2>2
  <2> QED BY <2>1, <2>3 DEF Known
<1>10. \A i \in done' .. ready - 1 : Start(i)' => Known(B, Cell(i, 0))'
  <2> SUFFICES ASSUME NEW i \in done' .. ready - 1, Start(i)' PROVE Known(B, Cell(i, 0))'
    OBVIOUS
  <2>1. PICK w : w = Cell(i, 0)
    OBVIOUS
  <2>2. Cell(i, 0)' = w /\ Start(i)
    BY <1>1, <2>1 DEF Cell, Start
  <2>3. i \in done .. ready - 1
    BY <1>4, <1>5
  <2>4. Known(B, w)'
    BY <1>0, <1>8, <2>1, <2>2, <2>3 DEF Traced
  <2> QED BY <2>2, <2>4 DEF Known
<1>11. ASSUME NEW a \in Actors, NEW c \in 1 .. Len(asked[a]), NEW k \in Mine(a, c)
       PROVE  (LET w == Wqe(B, a, c, k)
               IN  /\ w.idx < done => \E n \in 1 .. Len(executed) : executed[n] = w
                   /\ done <= w.idx /\ w.idx < ready => Cell(w.idx, 0) = w)'
  <2>1. PICK w : w = Wqe(B, a, c, k)
    OBVIOUS
  <2>2. Wqe(B, a, c, k)' = w
    BY <1>1, <2>1, KnownKept
  <2>3. PICK i \in Nat : i = w.idx
    BY <1>0, <2>1, WqeKnown
  <2>4. /\ i < done => \E n \in 1 .. Len(executed) : executed[n] = w
        /\ done <= i /\ i < ready => Cell(i, 0) = w
    BY <1>0, <2>1, <2>3 DEF Traced
  <2>5. ASSUME i < done' PROVE \E n \in 1 .. Len(executed') : executed'[n] = w
    <3>1. CASE i < done
      <4>1. PICK n \in 1 .. Len(executed) : executed[n] = w
        BY <2>4, <3>1
      <4> QED BY <1>6, <4>1
    <3>2. CASE i = done
      <4>1. w = v
        BY <1>4, <1>5, <2>4, <3>2
      <4> QED BY <1>6, <4>1
    <3>3. CASE i > done
      <4>1. z = 2 /\ i = done + 1 /\ i < ready
        BY <1>4, <1>5, <2>5, <3>3
      <4>2. Cell(i, 0) = w
        BY <1>5, <2>4, <3>3, <4>1
      <4>3. Start(i)
        BY <2>3, <4>2 DEF Start
      <4> QED BY <1>4, <4>1, <4>3
    <3> QED BY <1>5, <3>1, <3>2, <3>3
  <2>6. done' <= i /\ i < ready => Cell(i, 0)' = w
    BY <1>1, <1>4, <1>5, <2>4 DEF Cell
  <2> QED BY <1>1, <2>2, <2>3, <2>5, <2>6
<1>12. \A a \in Actors : \A c \in 1 .. Len(asked'[a]) : \A k \in Mine(a, c)' :
         (LET w == Wqe(B, a, c, k)
          IN  /\ w.idx < done => \E n \in 1 .. Len(executed) : executed[n] = w
              /\ done <= w.idx /\ w.idx < ready => Cell(w.idx, 0) = w)'
  <2> SUFFICES ASSUME NEW a \in Actors, NEW c \in 1 .. Len(asked'[a]), NEW k \in Mine(a, c)'
               PROVE  (LET w == Wqe(B, a, c, k)
                       IN  /\ w.idx < done => \E n \in 1 .. Len(executed) : executed[n] = w
                           /\ done <= w.idx /\ w.idx < ready => Cell(w.idx, 0) = w)'
    OBVIOUS
  <2>1. k \in Mine(a, c) /\ c \in 1 .. Len(asked[a])
    BY <1>1, KnownKept
  <2> QED BY <1>11, <2>1
<1>13. Traced(B)'
  BY <1>1, <1>9, <1>10, <1>12 DEF Traced
<1> QED BY <1>7, <1>13 DEF History

-----------------------------------------------------------------------------
(* Tickets and waits.                                                      *)

LEMMA CallEnds ==
  ASSUME NEW p \in Callers, NEW c \in CallsOf(p)
  PROVE  /\ p = Warp => Len(Plan(p, c)) = WarpSize + IF c.mcst THEN 1 ELSE 0
         /\ c.mcst => Plan(p, c)[Len(Plan(p, c))].op = "DUMP"
<1>1. c \in ThreadCalls \cup WarpCalls /\ c.mcst \in BOOLEAN /\ c.size \in Nat
  BY TransfersAssumption DEF CallsOf
<1>2. c.mcst => c.kind \notin Signals
  BY TransfersAssumption DEF CallsOf, Signals
<1>3. p = Warp => c.kind \in {"put", "get"}
  BY TransfersAssumption DEF CallsOf
<1>4. /\ c.mcst => Closing(c) = <<W("DUMP", 0, 0)>>
      /\ p = Warp /\ ~c.mcst => Closing(c) = <<>>
  BY <1>1, <1>2, <1>3, ClosingKnown DEF Signals
<1> DEFINE D == IF p = Warp THEN WarpData(c) ELSE Data(c)
<1>5. Plan(p, c) = D \o Closing(c)
  BY DEF Plan
<1>6. D \in Seq(Wqes) /\ (p = Warp => Len(D) = WarpSize)
  <2>1. CASE p = Warp
    <3>1. \A k \in 1 .. WarpSize : W(IF c.kind = "put" THEN "WRITE" ELSE "READ", 0, c.size) \in Wqes
      BY <1>1, FormatNames DEF W, Wqes
    <3>2. WarpSize \in Nat
      BY TransfersAssumption
    <3> QED BY <2>1, <3>1, <3>2 DEF WarpData
  <2>2. CASE p # Warp
    <3>1. c \in ThreadCalls
      BY <2>2 DEF CallsOf
    <3> QED BY <2>2, <3>1, DataKnown
  <2> QED BY <2>1, <2>2
<1> HIDE DEF D
<1>7. WarpSize \in Nat /\ Len(D) \in Nat
  BY <1>6, TransfersAssumption
<1>8. W("DUMP", 0, 0) \in Wqes /\ W("DUMP", 0, 0).op = "DUMP"
  BY FormatNames DEF W, Wqes
<1>9. ASSUME c.mcst
      PROVE  Len(Plan(p, c)) = Len(D) + 1 /\ Plan(p, c)[Len(D) + 1] = W("DUMP", 0, 0)
  <2>1. Plan(p, c) = D \o <<W("DUMP", 0, 0)>>
    BY <1>4, <1>5, <1>9
  <2> QED BY <1>6, <1>7, <1>8, <2>1
<1>10. ASSUME ~c.mcst, p = Warp PROVE Len(Plan(p, c)) = Len(D)
  BY <1>4, <1>5, <1>6, <1>7, <1>10
<1> QED BY <1>1, <1>6, <1>7, <1>8, <1>9, <1>10

(* An actor's ticket is the last WQE that is its own, and of a get in MCST *)
(* mode the DUMP, but for the lanes other than 0.                          *)
LEMMA TicketLast ==
  ASSUME NEW B, Asked(B), NEW a \in Actors, NEW c \in 1 .. Len(asked[a])
  PROVE  /\ TicketIs(B, a, c) \in Nat /\ B[a][c] <= TicketIs(B, a, c)
         /\ \A k \in Mine(a, c) : B[a][c] + k - 1 <= TicketIs(B, a, c)
         /\ asked[a][c].mcst /\ a \notin Lanes \ {0} => TicketIs(B, a, c) = B[a][c] + Len(PlanOf(a, c)) - 1
<1>1. /\ asked[a][c] \in CallsOf(CallerOf(a)) /\ CallerOf(a) \in Callers
      /\ B[a][c] \in Nat /\ Len(PlanOf(a, c)) \in Nat /\ Len(PlanOf(a, c)) >= 1
  BY CallKnown, Callers_
<1>2. PICK b \in Nat, n \in Nat : b = B[a][c] /\ n = Len(PlanOf(a, c))
  BY <1>1
<1>3. Mine(a, c) = {k \in 1 .. n : By(CallerOf(a), k) = a}
  BY <1>2 DEF Mine
<1>4. CASE a \in Lanes
  <2>1. CallerOf(a) = Warp /\ WarpSize \in Nat \ {0} /\ a \in 0 .. WarpSize - 1
    BY <1>4, TransfersAssumption DEF CallerOf, Lanes
  <2>2. n = WarpSize + IF asked[a][c].mcst THEN 1 ELSE 0
    BY <1>1, <1>2, <2>1, CallEnds DEF PlanOf
  <2>3. asked[a][c].mcst \in BOOLEAN
    BY <1>1, <2>1, TransfersAssumption DEF CallsOf
  <2>4. ASSUME NEW k \in Mine(a, c)
        PROVE  k \in 1 .. n /\ IF k <= WarpSize THEN k = a + 1 ELSE a = 0
    BY <1>3, <2>1 DEF By
  <2>5. CASE a = 0 /\ asked[a][c].mcst
    <3>1. TicketIs(B, a, c) = b + (n - 1)
      BY <1>2, <1>4, <2>5 DEF TicketIs
    <3> QED BY <1>1, <1>2, <2>4, <3>1
  <2>6. CASE ~(a = 0 /\ asked[a][c].mcst)
    <3>1. TicketIs(B, a, c) = b + a
      BY <1>2, <1>4, <2>6 DEF TicketIs
    <3>2. \A k \in Mine(a, c) : k = a + 1
      BY <2>1, <2>2, <2>3, <2>4, <2>6
    <3> QED BY <1>2, <1>4, <2>1, <2>6, <3>1, <3>2
  <2> QED BY <2>5, <2>6
<1>5. CASE a \notin Lanes
  <2>1. TicketIs(B, a, c) = b + (n - 1)
    BY <1>2, <1>5 DEF TicketIs
  <2> QED BY <1>1, <1>2, <1>3, <2>1
<1> QED BY <1>4, <1>5

LEMMA CallOutcome ==
  ASSUME QueueInv, NEW B \in [Actors -> Seq(Nat)], History(B), Outcome(B),
         NEW p \in Callers, NEW c \in CallsOf(p), Call(p, c),
         NEW C, C = [a \in Actors |-> IF a \in Members(p) THEN Append(B[a], rsvd) ELSE B[a]]
  PROVE  Outcome(C)'
<1>0. Tickets(B) /\ Waits(B) /\ SeenDone(B) /\ Asked(B)
  BY DEF Outcome, History
<1>1. ticket \in [Actors -> Int]
  BY <1>0 DEF Tickets
<1>2. /\ \A q \in Callers \ {p} : op'[q] = op[q]
      /\ op'[p].pc = "fill" /\ op[p] = Idle
      /\ UNCHANGED <<ready, rung, done, slots, executed, ticket, waiting, seen, vis>>
      /\ \A a \in Members(p) : waiting[a] = Nowhere
  <2>1. (\A q \in Callers \ {p} : op'[q] = op[q]) /\ op'[p].pc = "fill"
    BY <1>1, CallQueue
  <2> QED BY <2>1 DEF Call
<1>3. /\ \A a \in Actors : /\ Len(asked[a]) \in Nat /\ Len(asked[a]) <= Len(asked'[a])
                           /\ \A d \in 1 .. Len(asked[a]) :
                                /\ asked'[a][d] = asked[a][d] /\ C[a][d] = B[a][d]
                                /\ PlanOf(a, d)' = PlanOf(a, d) /\ SpanOf(a, d)' = SpanOf(a, d)
                                /\ Mine(a, d)' = Mine(a, d)
      /\ \A a \in Actors : a \notin Members(p) => asked'[a] = asked[a]
      /\ DOMAIN asked' = Actors
  <2>1. History(C)'
    BY <1>1, CallHistory
  <2>2. DOMAIN asked' = Actors
    BY <2>1 DEF History, Asked
  <2>3. ASSUME NEW a \in Actors
        PROVE  /\ Len(asked[a]) \in Nat /\ Len(asked[a]) <= Len(asked'[a])
               /\ a \notin Members(p) => asked'[a] = asked[a]
    BY <1>1, CallHistory
  <2>4. ASSUME NEW a \in Actors, NEW d \in 1 .. Len(asked[a])
        PROVE  /\ asked'[a][d] = asked[a][d] /\ C[a][d] = B[a][d]
               /\ PlanOf(a, d)' = PlanOf(a, d) /\ SpanOf(a, d)' = SpanOf(a, d)
               /\ Mine(a, d)' = Mine(a, d)
    <3>1. /\ asked[a] \in Seq(CallsOf(CallerOf(a))) /\ B[a] \in Seq(Nat) /\ Len(B[a]) = Len(asked[a])
          /\ asked' = [e \in Actors |-> IF e \in Members(p) THEN Append(asked[e], c) ELSE asked[e]]
      BY <1>0 DEF Asked, Call
    <3>2. asked'[a][d] = asked[a][d] /\ C[a][d] = B[a][d]
      BY <3>1
    <3> QED BY <3>2 DEF PlanOf, SpanOf, Mine
  <2> QED BY <2>2, <2>3, <2>4
<1>4. Tickets(C)'
  <2>1. ASSUME NEW a \in Actors, op'[CallerOf(a)].pc \in {"idle", "poll"}, asked'[a] # <<>>
        PROVE  ticket'[a] = TicketIs(C, a, Len(asked[a]))'
    <3>1. CallerOf(a) \in Callers /\ CallerOf(a) # p /\ a \notin Members(p)
      BY <1>2, <2>1, Callers_
    <3>2. op'[CallerOf(a)] = op[CallerOf(a)] /\ asked'[a] = asked[a]
      BY <1>2, <1>3, <3>1
    <3>3. ticket[a] = TicketIs(B, a, Len(asked[a]))
      BY <1>0, <2>1, <3>2 DEF Tickets
    <3>4. Len(asked[a]) \in 1 .. Len(asked[a])
      <4>1. asked[a] \in Seq(CallsOf(CallerOf(a)))
        BY <1>0 DEF Asked
      <4> QED BY <2>1, <3>2, <4>1
    <3>5. PICK n \in Nat : n = Len(asked[a]) /\ n \in 1 .. Len(asked[a])
      BY <1>3, <3>4
    <3>6. C[a][n] = B[a][n] /\ PlanOf(a, n)' = PlanOf(a, n)
      BY <1>3, <3>5
    <3> QED BY <1>2, <3>2, <3>3, <3>5, <3>6 DEF TicketIs
  <2> QED BY <1>0, <1>2, <2>1 DEF Tickets
<1>5. Waits(C)'
  <2>1. ASSUME NEW a \in Actors, waiting'[a] # Nowhere
        PROVE  (/\ waiting[a] \in [how : {"ticket", "all"}, at : Int]
                /\ ~InCall(a) /\ asked[a] # <<>>
                /\ waiting[a].how = "ticket" => waiting[a].at = ticket[a]
                /\ waiting[a].how = "all" =>
                     \A d \in 1 .. Len(asked[a]) : C[a][d] + SpanOf(a, d) - 1 <= waiting[a].at)'
    <3>1. a \notin Members(p) /\ CallerOf(a) \in Callers \ {p}
      BY <1>2, <2>1, Callers_
    <3>2. asked'[a] = asked[a] /\ op'[CallerOf(a)] = op[CallerOf(a)]
      BY <1>2, <1>3, <3>1
    <3>3. /\ waiting[a] \in [how : {"ticket", "all"}, at : Int]
          /\ ~InCall(a) /\ asked[a] # <<>>
          /\ waiting[a].how = "ticket" => waiting[a].at = ticket[a]
          /\ waiting[a].how = "all" =>
               \A d \in 1 .. Len(asked[a]) : B[a][d] + SpanOf(a, d) - 1 <= waiting[a].at
      BY <1>0, <1>2, <2>1 DEF Waits
    <3>4. ~InCall(a)'
      BY <3>2, <3>3 DEF InCall, CallerOf
    <3> QED BY <1>2, <1>3, <3>2, <3>3, <3>4
  <2> QED BY <1>0, <1>2, <2>1 DEF Waits
<1>6. SeenDone(C)'
  <2>1. ASSUME NEW a \in Actors
        PROVE  (/\ seen[a] <= Len(asked[a]) /\ vis[a] <= Len(asked[a])
                /\ \A d \in 1 .. seen[a] : \A k \in Mine(a, d) : C[a][d] + k - 1 < done
                /\ vis[a] > 0 => asked[a][vis[a]].mcst /\ C[a][vis[a]] + Len(PlanOf(a, vis[a])) - 1 < done)'
    <3>1. /\ seen[a] \in Nat /\ vis[a] \in Nat /\ seen[a] <= Len(asked[a]) /\ vis[a] <= Len(asked[a])
          /\ \A d \in 1 .. seen[a] : \A k \in Mine(a, d) : B[a][d] + k - 1 < done
          /\ vis[a] > 0 => asked[a][vis[a]].mcst /\ B[a][vis[a]] + Len(PlanOf(a, vis[a])) - 1 < done
      BY <1>0 DEF SeenDone
    <3>2. PICK s \in Nat, v \in Nat : s = seen[a] /\ v = vis[a]
      BY <3>1
    <3>3. s <= Len(asked'[a]) /\ v <= Len(asked'[a])
      <4>1. Len(asked[a]) \in Nat /\ Len(asked[a]) <= Len(asked'[a]) /\ Len(asked'[a]) \in Int
        <5>1. Len(asked'[a]) \in Nat
          <6>1. History(C)'
            BY <1>1, CallHistory
          <6> QED BY <6>1 DEF History, Asked
        <5> QED BY <1>3, <5>1
      <4> QED BY <3>1, <3>2, <4>1
    <3>4. ASSUME NEW d \in 1 .. s, NEW k \in Mine(a, d)' PROVE C[a][d] + k - 1 < done
      <4>1. d \in 1 .. Len(asked[a])
        BY <1>3, <3>1, <3>2
      <4> QED BY <1>3, <3>1, <3>2, <3>4, <4>1
    <3>5. ASSUME v > 0 PROVE asked'[a][v].mcst /\ C[a][v] + Len(PlanOf(a, v)') - 1 < done
      <4>1. v \in 1 .. Len(asked[a])
        BY <1>3, <3>1, <3>2, <3>5
      <4> QED BY <1>3, <3>1, <3>2, <3>5, <4>1
    <3> QED BY <1>2, <3>2, <3>3, <3>4, <3>5
  <2> QED BY <1>0, <1>2, <2>1 DEF SeenDone
<1> QED BY <1>4, <1>5, <1>6 DEF Outcome

(* What was seen stays true while the NIC goes on.                         *)
LEMMA SeenKept ==
  ASSUME NEW B, SeenDone(B), asked' = asked, seen' = seen, vis' = vis,
         {done, done'} \subseteq Nat, done <= done', Asked(B)
  PROVE  SeenDone(B)'
<1>1. ASSUME NEW a \in Actors
      PROVE  (/\ seen[a] <= Len(asked[a]) /\ vis[a] <= Len(asked[a])
              /\ \A d \in 1 .. seen[a] : \A k \in Mine(a, d) : B[a][d] + k - 1 < done
              /\ vis[a] > 0 => asked[a][vis[a]].mcst /\ B[a][vis[a]] + Len(PlanOf(a, vis[a])) - 1 < done)'
  <2>1. /\ seen[a] \in Nat /\ vis[a] \in Nat /\ seen[a] <= Len(asked[a]) /\ vis[a] <= Len(asked[a])
        /\ \A d \in 1 .. seen[a] : \A k \in Mine(a, d) : B[a][d] + k - 1 < done
        /\ vis[a] > 0 => asked[a][vis[a]].mcst /\ B[a][vis[a]] + Len(PlanOf(a, vis[a])) - 1 < done
        /\ Len(asked[a]) \in Nat
    BY DEF SeenDone, Asked
  <2>2. PICK s \in Nat, v \in Nat : s = seen[a] /\ v = vis[a]
    BY <2>1
  <2>3. ASSUME NEW d \in 1 .. s, NEW k \in Mine(a, d) PROVE B[a][d] + k - 1 < done'
    <3>1. d \in 1 .. Len(asked[a])
      BY <2>1, <2>2
    <3>2. B[a][d] \in Nat /\ k \in Nat
      BY <3>1, WqeKnown
    <3>3. B[a][d] + k - 1 < done
      BY <2>1, <2>2, <2>3
    <3>4. PICK i \in Int : i = B[a][d] + k - 1
      BY <3>2
    <3> QED BY <3>3, <3>4
  <2>4. ASSUME v > 0 PROVE B[a][v] + Len(PlanOf(a, v)) - 1 < done'
    <3>1. v \in 1 .. Len(asked[a])
      BY <2>1, <2>2, <2>4
    <3>2. PICK b \in Nat, n \in Nat : b = B[a][v] /\ n = Len(PlanOf(a, v))
      BY <3>1, CallKnown
    <3>3. b + n - 1 < done
      BY <2>1, <2>2, <2>4, <3>2
    <3> QED BY <3>2, <3>3
  <2>5. \A d : Mine(a, d)' = Mine(a, d) /\ PlanOf(a, d)' = PlanOf(a, d)
    BY KnownKept
  <2> QED BY <2>1, <2>2, <2>3, <2>4, <2>5
<1> QED BY <1>1 DEF SeenDone

(* Filling, publishing and executing.                                      *)
LEMMA QuietOutcome ==
  ASSUME NEW B, Outcome(B), Asked(B), UNCHANGED <<asked, ticket, waiting, seen, vis>>,
         {done, done'} \subseteq Nat, done <= done',
         \A q \in Callers : /\ op'[q] # Idle => op[q] # Idle
                            /\ op'[q].pc \in {"idle", "poll"} => op[q].pc \in {"idle", "poll"}
  PROVE  Outcome(B)'
<1>0. Tickets(B) /\ Waits(B) /\ SeenDone(B)
  BY DEF Outcome
<1>1. \A a \in Actors : CallerOf(a) \in Callers
  BY Callers_
<1>2. Tickets(B)'
  BY <1>0, <1>1 DEF Tickets, TicketIs, PlanOf
<1>3. \A a \in Actors : InCall(a)' => InCall(a)
  BY <1>1 DEF InCall, CallerOf
<1>4. Waits(B)'
  BY <1>0, <1>3 DEF Waits, SpanOf
<1>5. SeenDone(B)'
  BY <1>0, SeenKept
<1> QED BY <1>2, <1>4, <1>5 DEF Outcome

LEMMA SubmitOutcome ==
  ASSUME NEW B, QueueInv, History(B), Outcome(B), NEW p \in Callers, op[p] # Idle, SubmitWqes(p)
  PROVE  Outcome(B)'
<1>0. Ordered /\ OpTyped /\ Asked(B) /\ Current(B) /\ Tickets(B) /\ Waits(B) /\ SeenDone(B)
  BY DEF QueueInv, History, Outcome
<1>1. /\ \A q \in Callers \ {p} : op'[q] = op[q]
      /\ op[p] # Idle
  BY SubmitQueue
<1>2. /\ ticket' = [a \in Actors |-> IF a \in Members(p) THEN TicketOf(p, a) ELSE ticket[a]]
      /\ UNCHANGED <<rsvd, ready, done, slots, executed, asked, waiting, seen, vis>>
  BY DEF SubmitWqes
<1>3. ASSUME NEW a \in Members(p)
      PROVE  a \in Actors /\ ticket'[a] \in Int /\ ticket'[a] = TicketIs(B, a, Len(asked[a]))
  <2>1. /\ a \in Actors /\ CallerOf(a) = p
        /\ asked[a][Len(asked[a])] = op[p].call /\ B[a][Len(asked[a])] = op[p].base
        /\ PlanOf(a, Len(asked[a])) = Steps(p) /\ Len(asked[a]) \in 1 .. Len(asked[a])
    BY <1>0, MemberKnown
  <2>2. PICK b \in Nat, n \in Nat : b = op[p].base /\ n = Len(Steps(p))
    BY <1>0, StepsKnown
  <2>3. a \in Lanes <=> p = Warp
    <3>1. Warp \notin Threads /\ \A x \in Threads : x \notin Lanes
      BY TransfersAssumption
    <3> QED BY <2>1, <3>1 DEF CallerOf, Actors, Callers
  <2>4. TicketOf(p, a) = b + IF a \in Lanes /\ ~(a = 0 /\ op[p].call.mcst) THEN a ELSE n - 1
    <3>1. CASE a \in Lanes /\ ~(a = 0 /\ op[p].call.mcst)
      BY <2>2, <2>3, <3>1 DEF TicketOf
    <3>2. CASE ~(a \in Lanes /\ ~(a = 0 /\ op[p].call.mcst))
      <4>1. TicketOf(p, a) = b + n - 1
        BY <2>2, <2>3, <3>2 DEF TicketOf, LastIndex
      <4> QED BY <2>2, <3>2, <4>1
    <3> QED BY <3>1, <3>2
  <2>5. TicketIs(B, a, Len(asked[a])) = b + IF a \in Lanes /\ ~(a = 0 /\ op[p].call.mcst) THEN a ELSE n - 1
    BY <2>1, <2>2 DEF TicketIs
  <2>6. TicketIs(B, a, Len(asked[a])) \in Nat
    BY <1>0, <2>1, TicketLast
  <2>7. ticket'[a] = TicketOf(p, a)
    BY <1>2, <2>1
  <2> QED BY <2>1, <2>4, <2>5, <2>6, <2>7
<1>4. ticket' \in [Actors -> Int]
  BY <1>0, <1>2, <1>3 DEF Tickets
<1>5. Tickets(B)'
  <2>1. ASSUME NEW a \in Actors, op'[CallerOf(a)].pc \in {"idle", "poll"}, asked[a] # <<>>
        PROVE  ticket'[a] = TicketIs(B, a, Len(asked[a]))
    <3>1. CASE a \in Members(p)
      BY <1>3, <3>1
    <3>2. CASE a \notin Members(p)
      <4>1. CallerOf(a) \in Callers \ {p}
        BY <3>2, Callers_
      <4>2. ticket'[a] = ticket[a]
        BY <1>2, <3>2
      <4> QED BY <1>0, <1>1, <2>1, <4>1, <4>2 DEF Tickets
    <3> QED BY <3>1, <3>2
  <2> QED BY <1>2, <1>4, <2>1 DEF Tickets, TicketIs, PlanOf
<1>6. Waits(B)'
  <2>1. ASSUME NEW a \in Actors, waiting[a] # Nowhere
        PROVE  ticket'[a] = ticket[a] /\ ~InCall(a)'
    <3>1. ~InCall(a)
      BY <1>0, <2>1 DEF Waits
    <3>2. CallerOf(a) \in Callers /\ CallerOf(a) # p
      BY <3>1, Callers_ DEF InCall, CallerOf
    <3>3. a \notin Members(p)
      BY <3>2, Callers_
    <3> QED BY <1>1, <1>2, <3>1, <3>2, <3>3 DEF InCall, CallerOf
  <2> QED BY <1>0, <1>2, <2>1 DEF Waits, SpanOf
<1>7. SeenDone(B)'
  BY <1>0, <1>2, SeenKept DEF Ordered
<1> QED BY <1>5, <1>6, <1>7 DEF Outcome

(* All an actor asked for is done when the WQEs of its last call are.      *)
LEMMA AllDone ==
  ASSUME NEW B, Asked(B), NEW a \in Actors, NEW n \in 1 .. Len(asked[a]), n = Len(asked[a]),
         NEW d \in Nat, \A k \in Mine(a, n) : B[a][n] + k - 1 < d, B[a][n] < d
  PROVE  \A c \in 1 .. n : \A k \in Mine(a, c) : B[a][c] + k - 1 < d
<1> SUFFICES ASSUME NEW c \in 1 .. n, NEW k \in Mine(a, c) PROVE B[a][c] + k - 1 < d
  OBVIOUS
<1>1. Len(asked[a]) \in Nat
  BY DEF Asked
<1>2. CASE c = n
  BY <1>2
<1>3. CASE c # n
  <2>1. c \in 1 .. Len(asked[a]) /\ c < n
    BY <1>1, <1>3
  <2>2. B[a][c] + SpanOf(a, c) <= B[a][n]
    BY <2>1 DEF Asked
  <2>3. PICK i \in Nat, b \in Nat, s \in Nat, e \in Nat :
          i = B[a][c] + k - 1 /\ b = B[a][c] /\ s = SpanOf(a, c) /\ e = B[a][n]
    <3>1. B[a][c] + k - 1 \in Nat /\ B[a][c] \in Nat
      BY <2>1, WqeKnown
    <3>2. SpanOf(a, c) \in Nat /\ B[a][n] \in Nat
      BY <2>1, CallKnown
    <3> QED BY <3>1, <3>2
  <2>4. i < b + s
    BY <2>1, <2>3, WqeKnown
  <2>5. b + s <= e /\ e < d
    BY <2>2, <2>3
  <2> QED BY <2>3, <2>4, <2>5
<1> QED BY <1>2, <1>3

(* What a return adds to what was seen.                                    *)
LEMMA SeenMore ==
  ASSUME NEW B, SeenDone(B), asked' = asked, done' = done, Asked(B),
         {seen', vis'} \subseteq [Actors -> Nat],
         \A a \in Actors : seen'[a] # seen[a] =>
           /\ seen'[a] <= Len(asked[a])
           /\ \A d \in 1 .. seen'[a] : \A k \in Mine(a, d) : B[a][d] + k - 1 < done,
         \A a \in Actors : vis'[a] # vis[a] =>
           /\ vis'[a] <= Len(asked[a])
           /\ asked[a][vis'[a]].mcst /\ B[a][vis'[a]] + Len(PlanOf(a, vis'[a])) - 1 < done
  PROVE  SeenDone(B)'
<1>1. ASSUME NEW a \in Actors
      PROVE  (/\ seen[a] <= Len(asked[a]) /\ vis[a] <= Len(asked[a])
              /\ \A d \in 1 .. seen[a] : \A k \in Mine(a, d) : B[a][d] + k - 1 < done
              /\ vis[a] > 0 => asked[a][vis[a]].mcst /\ B[a][vis[a]] + Len(PlanOf(a, vis[a])) - 1 < done)'
  <2>1. /\ seen[a] \in Nat /\ vis[a] \in Nat /\ seen[a] <= Len(asked[a]) /\ vis[a] <= Len(asked[a])
        /\ \A d \in 1 .. seen[a] : \A k \in Mine(a, d) : B[a][d] + k - 1 < done
        /\ vis[a] > 0 => asked[a][vis[a]].mcst /\ B[a][vis[a]] + Len(PlanOf(a, vis[a])) - 1 < done
    BY DEF SeenDone
  <2>2. PICK s \in Nat, v \in Nat : s = seen'[a] /\ v = vis'[a]
    OBVIOUS
  <2>3. s <= Len(asked[a]) /\ \A d \in 1 .. s : \A k \in Mine(a, d) : B[a][d] + k - 1 < done
    <3>1. CASE s = seen[a]
      BY <2>1, <3>1
    <3>2. CASE s # seen[a]
      BY <2>2, <3>2
    <3> QED BY <3>1, <3>2
  <2>4. v <= Len(asked[a]) /\ (v > 0 => asked[a][v].mcst /\ B[a][v] + Len(PlanOf(a, v)) - 1 < done)
    <3>1. CASE v = vis[a]
      BY <2>1, <3>1
    <3>2. CASE v # vis[a]
      BY <2>2, <3>2
    <3> QED BY <3>1, <3>2
  <2>5. \A d : Mine(a, d)' = Mine(a, d) /\ PlanOf(a, d)' = PlanOf(a, d)
    BY KnownKept
  <2> QED BY <2>2, <2>3, <2>4, <2>5
<1> QED BY <1>1 DEF SeenDone

LEMMA PolledOutcome ==
  ASSUME NEW B, QueueInv, History(B), Outcome(B), NEW p \in Callers, op[p] # Idle, Polled(p)
  PROVE  Outcome(B)'
<1>0. Ordered /\ OpTyped /\ Asked(B) /\ Current(B) /\ Tickets(B) /\ Waits(B) /\ SeenDone(B)
  BY DEF QueueInv, History, Outcome
<1>1. op'[p] = Idle /\ \A q \in Callers \ {p} : op'[q] = op[q]
  BY PolledQueue
<1>2. /\ op[p].pc = "poll" /\ done > PollAt(p)
      /\ seen' = [a \in Actors |-> IF a \in Members(p) THEN Len(asked[a]) ELSE seen[a]]
      /\ vis' = [a \in Actors |-> IF a \in Members(p) /\ op[p].call.mcst THEN Len(asked[a]) ELSE vis[a]]
      /\ UNCHANGED <<rsvd, ready, rung, done, slots, executed, asked, ticket, waiting>>
  BY DEF Polled
<1>3. done \in Nat
  BY <1>0 DEF Ordered
<1>4. LastIndex(p) < done
  <2>1. LastIndex(p) \in Int /\ op[p].at \in Int
    BY <1>0, StepsKnown DEF LastIndex
  <2> QED BY <1>2, <1>3, <2>1 DEF PollAt, Larger
<1>5. ASSUME NEW a \in Members(p)
      PROVE  /\ a \in Actors /\ Len(asked[a]) \in Nat /\ asked[a][Len(asked[a])] = op[p].call
             /\ \A d \in 1 .. Len(asked[a]) : \A k \in Mine(a, d) : B[a][d] + k - 1 < done
             /\ B[a][Len(asked[a])] + Len(PlanOf(a, Len(asked[a]))) - 1 < done
  <2>1. /\ a \in Actors /\ asked[a][Len(asked[a])] = op[p].call /\ B[a][Len(asked[a])] = op[p].base
        /\ PlanOf(a, Len(asked[a])) = Steps(p) /\ Len(asked[a]) \in 1 .. Len(asked[a]) /\ Len(asked[a]) \in Nat
    BY <1>0, MemberKnown
  <2>2. PICK n \in Nat, b \in Nat, m \in Nat : n = Len(asked[a]) /\ b = op[p].base /\ m = Len(Steps(p))
    BY <1>0, <2>1, StepsKnown
  <2>3. b + m - 1 < done /\ m >= 1
    BY <1>0, <1>4, <2>2, StepsKnown DEF LastIndex
  <2>4. \A k \in Mine(a, n) : B[a][n] + k - 1 < done
    <3> SUFFICES ASSUME NEW k \in Mine(a, n) PROVE B[a][n] + k - 1 < done
      OBVIOUS
    <3>1. k \in 1 .. m
      BY <2>1, <2>2 DEF Mine
    <3> QED BY <1>3, <2>1, <2>2, <2>3, <3>1
  <2>5. B[a][n] < done
    BY <1>3, <2>1, <2>2, <2>3
  <2>6. \A d \in 1 .. n : \A k \in Mine(a, d) : B[a][d] + k - 1 < done
    BY <1>0, <1>3, <2>1, <2>2, <2>4, <2>5, AllDone
  <2> QED BY <2>1, <2>2, <2>3, <2>6
<1>6. Tickets(B)'
  <2>1. \A a \in Actors : CallerOf(a) \in Callers /\ (op'[CallerOf(a)].pc \in {"idle", "poll"} => op[CallerOf(a)].pc \in {"idle", "poll"})
    BY <1>1, <1>2, Callers_
  <2> QED BY <1>0, <1>2, <2>1 DEF Tickets, TicketIs, PlanOf
<1>7. Waits(B)'
  <2>1. \A a \in Actors : InCall(a)' => InCall(a)
    BY <1>1, Callers_ DEF InCall, CallerOf
  <2> QED BY <1>0, <1>2, <2>1 DEF Waits, SpanOf
<1>8. SeenDone(B)'
  <2>1. {seen', vis'} \subseteq [Actors -> Nat]
    BY <1>0, <1>2, <1>5 DEF SeenDone
  <2>2. ASSUME NEW a \in Actors, seen'[a] # seen[a]
        PROVE  /\ seen'[a] <= Len(asked[a])
               /\ \A d \in 1 .. seen'[a] : \A k \in Mine(a, d) : B[a][d] + k - 1 < done
    <3>1. a \in Members(p) /\ seen'[a] = Len(asked[a])
      BY <1>2, <2>2
    <3> QED BY <1>5, <3>1
  <2>3. ASSUME NEW a \in Actors, vis'[a] # vis[a]
        PROVE  /\ vis'[a] <= Len(asked[a])
               /\ asked[a][vis'[a]].mcst /\ B[a][vis'[a]] + Len(PlanOf(a, vis'[a])) - 1 < done
    <3>1. a \in Members(p) /\ op[p].call.mcst /\ vis'[a] = Len(asked[a])
      BY <1>2, <2>3
    <3> QED BY <1>5, <3>1
  <2> QED BY <1>0, <1>2, <2>1, <2>2, <2>3, SeenMore
<1> QED BY <1>6, <1>7, <1>8 DEF Outcome

LEMMA StartWaitOutcome ==
  ASSUME NEW B, QueueInv, History(B), Outcome(B), NEW a \in Actors, NEW how \in {"ticket", "all"},
         StartWait(a, how)
  PROVE  Outcome(B)'
<1>0. Ordered /\ Asked(B) /\ Tickets(B) /\ Waits(B) /\ SeenDone(B)
  BY DEF QueueInv, History, Outcome
<1>1. PICK at : at = IF how = "ticket" THEN ticket[a] ELSE rsvd - 1
  OBVIOUS
<1>2. /\ ~InCall(a) /\ seen[a] < Len(asked[a])
      /\ waiting' = [waiting EXCEPT ![a] = [how |-> how, at |-> at]]
      /\ UNCHANGED <<rsvd, ready, rung, done, slots, executed, op, asked, ticket, seen, vis>>
  BY <1>1 DEF StartWait
<1>3. at \in Int /\ rsvd \in Nat
  BY <1>0, <1>1 DEF Tickets, Ordered
<1>4. asked[a] # <<>>
  <2>1. seen[a] \in Nat
    BY <1>0 DEF SeenDone
  <2> QED BY <1>2, <2>1
<1>5. Tickets(B)'
  BY <1>0, <1>2 DEF Tickets, TicketIs, PlanOf
<1>6. Waits(B)'
  <2>1. how = "all" => \A c \in 1 .. Len(asked[a]) : B[a][c] + SpanOf(a, c) - 1 <= at
    <3> SUFFICES ASSUME how = "all", NEW c \in 1 .. Len(asked[a]) PROVE B[a][c] + SpanOf(a, c) - 1 <= at
      OBVIOUS
    <3>1. PICK b \in Nat, s \in Nat : b = B[a][c] /\ s = SpanOf(a, c)
      BY <1>0, CallKnown
    <3>2. b + s <= rsvd
      BY <1>0, <3>1, CallKnown
    <3> QED BY <1>1, <1>3, <3>1, <3>2
  <2>2. how = "ticket" => at = ticket[a]
    BY <1>1
  <2>3. /\ DOMAIN waiting' = Actors /\ waiting'[a] = [how |-> how, at |-> at]
        /\ \A e \in Actors \ {a} : waiting'[e] = waiting[e]
    BY <1>0, <1>2 DEF Waits
  <2>4. ASSUME NEW e \in Actors, waiting'[e] # Nowhere
        PROVE  /\ waiting'[e] \in [how : {"ticket", "all"}, at : Int]
               /\ ~InCall(e) /\ asked[e] # <<>>
               /\ waiting'[e].how = "ticket" => waiting'[e].at = ticket[e]
               /\ waiting'[e].how = "all" => \A c \in 1 .. Len(asked[e]) : B[e][c] + SpanOf(e, c) - 1 <= waiting'[e].at
    <3>1. CASE e = a
      BY <1>2, <1>3, <1>4, <2>1, <2>2, <2>3, <3>1
    <3>2. CASE e # a
      <4>1. waiting'[e] = waiting[e] /\ waiting[e] # Nowhere
        BY <2>3, <2>4, <3>2
      <4> QED BY <1>0, <4>1 DEF Waits
    <3> QED BY <3>1, <3>2
  <2>5. \A e \in Actors : InCall(e)' = InCall(e)
    BY <1>2 DEF InCall
  <2> QED BY <1>2, <2>3, <2>4, <2>5 DEF Waits, SpanOf
<1>7. SeenDone(B)'
  BY <1>0, <1>2, SeenKept DEF Ordered
<1> QED BY <1>5, <1>6, <1>7 DEF Outcome

LEMMA FinishWaitOutcome ==
  ASSUME NEW B, QueueInv, History(B), Outcome(B), NEW a \in Actors, FinishWait(a)
  PROVE  Outcome(B)'
<1>0. Ordered /\ Asked(B) /\ Tickets(B) /\ Waits(B) /\ SeenDone(B)
  BY DEF QueueInv, History, Outcome
<1> DEFINE dumped == asked[a][Len(asked[a])].mcst /\ (waiting[a].how = "all" \/ a \notin Lanes \ {0})
<1>1. /\ waiting[a] # Nowhere /\ done > waiting[a].at
      /\ seen' = [seen EXCEPT ![a] = Len(asked[a])]
      /\ vis' = [vis EXCEPT ![a] = IF dumped THEN Len(asked[a]) ELSE vis[a]]
      /\ waiting' = [waiting EXCEPT ![a] = Nowhere]
      /\ UNCHANGED <<rsvd, ready, rung, done, slots, executed, op, asked, ticket>>
  BY DEF FinishWait
<1>2. done \in Nat
  BY <1>0 DEF Ordered
<1>3. /\ waiting[a] \in [how : {"ticket", "all"}, at : Int]
      /\ ~InCall(a) /\ asked[a] # <<>>
      /\ waiting[a].how = "ticket" => waiting[a].at = ticket[a]
      /\ waiting[a].how = "all" => \A c \in 1 .. Len(asked[a]) : B[a][c] + SpanOf(a, c) - 1 <= waiting[a].at
  BY <1>0, <1>1 DEF Waits
<1>4. PICK n \in Nat : n = Len(asked[a]) /\ n \in 1 .. Len(asked[a])
  <2>1. asked[a] \in Seq(CallsOf(CallerOf(a)))
    BY <1>0 DEF Asked
  <2> QED BY <1>3, <2>1
<1>5. PICK at \in Int : at = waiting[a].at /\ at < done
  BY <1>1, <1>2, <1>3
<1>6. PICK b \in Nat, s \in Nat, m \in Nat : b = B[a][n] /\ s = SpanOf(a, n) /\ m = Len(PlanOf(a, n)) /\ m <= s /\ m >= 1
  BY <1>0, <1>4, CallKnown
<1>7. /\ \A k \in Mine(a, n) : B[a][n] + k - 1 < done
      /\ B[a][n] < done
      /\ dumped => b + m - 1 < done
  <2>1. CASE waiting[a].how = "all"
    <3>1. b + s - 1 <= at
      BY <1>3, <1>4, <1>5, <1>6, <2>1
    <3>2. m <= s /\ m >= 1 /\ at < done
      BY <1>5, <1>6
    <3>4. b + m - 1 < done /\ b < done
      BY <1>2, <3>1, <3>2
    <3>3. \A k \in Mine(a, n) : k \in 1 .. m
      BY <1>6 DEF Mine
    <3> QED BY <1>2, <1>6, <3>3, <3>4
  <2>2. CASE waiting[a].how = "ticket"
    <3>1. at = TicketIs(B, a, n)
      <4>1. op[CallerOf(a)].pc = "idle"
        BY <1>3 DEF InCall, CallerOf, Idle
      <4> QED BY <1>0, <1>3, <1>4, <1>5, <2>2, <4>1 DEF Tickets
    <3>2. /\ B[a][n] <= at
          /\ \A k \in Mine(a, n) : B[a][n] + k - 1 <= at
          /\ asked[a][n].mcst /\ a \notin Lanes \ {0} => at = B[a][n] + Len(PlanOf(a, n)) - 1
      BY <1>0, <1>4, <3>1, TicketLast
    <3>3. dumped => at = b + m - 1
      BY <1>4, <1>6, <2>2, <3>2
    <3>4. \A k \in Mine(a, n) : k \in 1 .. m
      BY <1>6 DEF Mine
    <3>5. b <= at /\ \A k \in Mine(a, n) : b + k - 1 <= at
      BY <1>6, <3>2
    <3>6. b < done /\ \A k \in Mine(a, n) : b + k - 1 < done
      BY <1>2, <1>5, <1>6, <3>4, <3>5
    <3> QED BY <1>5, <1>6, <3>3, <3>6
  <2> QED BY <1>3, <2>1, <2>2
<1>8. \A d \in 1 .. n : \A k \in Mine(a, d) : B[a][d] + k - 1 < done
  BY <1>0, <1>2, <1>4, <1>7, AllDone
<1>9. Tickets(B)'
  BY <1>0, <1>1 DEF Tickets, TicketIs, PlanOf
<1>10. Waits(B)'
  <2>1. /\ DOMAIN waiting' = Actors /\ waiting'[a] = Nowhere
        /\ \A e \in Actors \ {a} : waiting'[e] = waiting[e]
        /\ \A e \in Actors : InCall(e)' = InCall(e)
    BY <1>0, <1>1 DEF Waits, InCall
  <2> QED BY <1>0, <1>1, <2>1 DEF Waits, SpanOf
<1>11. SeenDone(B)'
  <2>1. /\ {seen', vis'} \subseteq [Actors -> Nat]
        /\ seen'[a] = n /\ \A e \in Actors \ {a} : seen'[e] = seen[e] /\ vis'[e] = vis[e]
        /\ vis'[a] = IF dumped THEN n ELSE vis[a]
    BY <1>0, <1>1, <1>4 DEF SeenDone
  <2>2. ASSUME NEW e \in Actors, seen'[e] # seen[e]
        PROVE  /\ seen'[e] <= Len(asked[e])
               /\ \A d \in 1 .. seen'[e] : \A k \in Mine(e, d) : B[e][d] + k - 1 < done
    BY <1>4, <1>8, <2>1, <2>2
  <2>3. ASSUME NEW e \in Actors, vis'[e] # vis[e]
        PROVE  /\ vis'[e] <= Len(asked[e])
               /\ asked[e][vis'[e]].mcst /\ B[e][vis'[e]] + Len(PlanOf(e, vis'[e])) - 1 < done
    <3>1. e = a /\ dumped /\ vis'[a] = n
      BY <2>1, <2>3
    <3> QED BY <1>4, <1>6, <1>7, <3>1
  <2> QED BY <1>0, <1>1, <2>1, <2>2, <2>3, SeenMore
<1> QED BY <1>9, <1>10, <1>11 DEF Outcome

-----------------------------------------------------------------------------
(* The invariant.                                                          *)

LEMMA TrInitHolds == TrInit => TrInv
<1> SUFFICES ASSUME TrInit PROVE TrInv
  OBVIOUS
<1>1. /\ rsvd = 0 /\ ready = 0 /\ rung = 0 /\ done = 0 /\ executed = <<>>
      /\ op = [p \in Callers |-> Idle] /\ asked = [a \in Actors |-> <<>>]
      /\ ticket = [a \in Actors |-> -1] /\ waiting = [a \in Actors |-> Nowhere]
      /\ seen = [a \in Actors |-> 0] /\ vis = [a \in Actors |-> 0]
      /\ DOMAIN slots = 0 .. SlotNum - 1
  BY DEF TrInit
<1>2. Ordered
  BY <1>1, TransfersAssumption DEF Ordered
<1>3. OpTyped /\ OpsInv
  <2>1. \A p \in Callers : op[p] = Idle
    BY <1>1
  <2> QED BY <1>1, <2>1 DEF OpTyped, OpsInv, Idle
<1>4. Chain /\ Run
  BY <1>1 DEF Chain, Run
<1>5. QueueInv
  BY <1>2, <1>3, <1>4 DEF QueueInv
<1> DEFINE B == [a \in Actors |-> <<>>]
<1>6. B \in [Actors -> Seq(Nat)] /\ \A a \in Actors : B[a] = <<>>
  OBVIOUS
<1> HIDE DEF B
<1>7. \A a \in Actors : asked[a] = <<>> /\ Len(asked[a]) = 0 /\ op[CallerOf(a)] = Idle
  BY <1>1, Callers_
<1>8. Asked(B)
  <2>1. \A a \in Actors : asked[a] \in Seq(CallsOf(CallerOf(a))) /\ B[a] \in Seq(Nat) /\ Len(B[a]) = 0
    BY <1>6, <1>7
  <2>2. \A a, b \in Lanes : asked[a] = asked[b] /\ B[a] = B[b]
    BY <1>6, <1>7 DEF Actors
  <2>3. DOMAIN asked = Actors /\ DOMAIN B = Actors
    BY <1>1, <1>6
  <2> QED BY <1>7, <2>1, <2>2, <2>3 DEF Asked
<1>9. Current(B)
  BY <1>1 DEF Current
<1>10. Traced(B)
  BY <1>1, <1>7 DEF Traced
<1>11. Tickets(B)
  BY <1>1, <1>7 DEF Tickets
<1>12. Waits(B)
  BY <1>1 DEF Waits
<1>13. SeenDone(B)
  BY <1>1, <1>7 DEF SeenDone
<1> QED BY <1>5, <1>6, <1>8, <1>9, <1>10, <1>11, <1>12, <1>13 DEF TrInv, History, Outcome

LEMMA FillMarkExecute ==
  ASSUME NEW B, QueueInv, History(B), Outcome(B),
         \/ \E p \in Callers : op[p] # Idle /\ (Mark(p) \/ \E k \in DOMAIN Steps(p) : Fill(p, k))
         \/ Execute
  PROVE  QueueInv' /\ History(B)' /\ Outcome(B)'
<1>0. Ordered /\ OpTyped /\ Asked(B) /\ Current(B)
  BY DEF QueueInv, History
<1>1. ASSUME NEW p \in Callers, op[p] # Idle, NEW k \in DOMAIN Steps(p), Fill(p, k)
      PROVE  QueueInv' /\ History(B)' /\ Outcome(B)'
  <2>1. k \in 1 .. Len(Steps(p))
    BY <1>0, <1>1, StepsKnown
  <2>2. QueueInv' /\ History(B)'
    BY <1>0, <1>1, <2>1, FillQueue, FillHistory
  <2>3. /\ op' = [op EXCEPT ![p].filled = op[p].filled \cup {k}]
        /\ UNCHANGED <<asked, ticket, waiting, seen, vis, done>>
    BY <1>1 DEF Fill
  <2>4. \A q \in Callers : /\ op'[q] # Idle => op[q] # Idle
                           /\ op'[q].pc \in {"idle", "poll"} => op[q].pc \in {"idle", "poll"}
    BY <1>0, <1>1, <2>3 DEF OpTyped
  <2> QED BY <1>0, <2>2, <2>3, <2>4, QuietOutcome DEF Ordered
<1>2. ASSUME NEW p \in Callers, op[p] # Idle, Mark(p)
      PROVE  QueueInv' /\ History(B)' /\ Outcome(B)'
  <2>1. QueueInv' /\ History(B)'
    BY <1>0, <1>2, MarkQueue, MarkHistory
  <2>2. /\ op' = [op EXCEPT ![p].pc = "submit"]
        /\ UNCHANGED <<asked, ticket, waiting, seen, vis, done>>
    BY <1>2 DEF Mark
  <2>3. \A q \in Callers : /\ op'[q] # Idle => op[q] # Idle
                           /\ op'[q].pc \in {"idle", "poll"} => op[q].pc \in {"idle", "poll"}
    BY <1>0, <1>2, <2>2 DEF OpTyped
  <2> QED BY <1>0, <2>1, <2>2, <2>3, QuietOutcome DEF Ordered
<1>3. ASSUME Execute
      PROVE  QueueInv' /\ History(B)' /\ Outcome(B)'
  <2>1. QueueInv' /\ History(B)'
    BY <1>3, ExecuteQueue, ExecuteHistory
  <2>2. UNCHANGED <<op, asked, ticket, waiting, seen, vis>>
    BY <1>3 DEF Execute
  <2>3. done \in Nat /\ done' \in Nat /\ done <= done'
    <3>1. PICK z \in {1, 2} : done' = done + z
      BY <1>3, ExecuteWhole
    <3> QED BY <1>0, <3>1 DEF Ordered
  <2> QED BY <1>0, <2>1, <2>2, <2>3, QuietOutcome
<1> QED BY <1>1, <1>2, <1>3

LEMMA ReturnWait ==
  ASSUME NEW B, QueueInv, History(B), Outcome(B),
         \/ \E p \in Callers : op[p] # Idle /\ (SubmitWqes(p) \/ Polled(p))
         \/ \E a \in Actors : FinishWait(a) \/ \E how \in {"ticket", "all"} : StartWait(a, how)
  PROVE  QueueInv' /\ History(B)' /\ Outcome(B)'
<1>1. ASSUME NEW p \in Callers, op[p] # Idle, SubmitWqes(p)
      PROVE  QueueInv' /\ History(B)' /\ Outcome(B)'
  <2>1. /\ QueueInv' /\ \A q \in Callers : op'[q] # Idle =>
             op[q] # Idle /\ op'[q].call = op[q].call /\ op'[q].base = op[q].base
    BY <1>1, SubmitQueue
  <2>2. UNCHANGED <<asked, rsvd, slots, executed, done, ready>>
    BY <1>1 DEF SubmitWqes
  <2> QED BY <1>1, <2>1, <2>2, QuietHistory, SubmitOutcome
<1>2. ASSUME NEW p \in Callers, op[p] # Idle, Polled(p)
      PROVE  QueueInv' /\ History(B)' /\ Outcome(B)'
  <2>1. /\ QueueInv' /\ \A q \in Callers : op'[q] # Idle =>
             op[q] # Idle /\ op'[q].call = op[q].call /\ op'[q].base = op[q].base
    BY <1>2, PolledQueue
  <2>2. UNCHANGED <<asked, rsvd, slots, executed, done, ready>>
    BY <1>2 DEF Polled
  <2> QED BY <1>2, <2>1, <2>2, QuietHistory, PolledOutcome
<1>3. ASSUME UNCHANGED <<rsvd, ready, rung, done, slots, executed, op, asked>>
      PROVE  QueueInv' /\ History(B)'
  <2>1. Ordered /\ OpTyped /\ OpsInv /\ Chain /\ Run
    BY DEF QueueInv
  <2>2. Ordered' /\ OpTyped' /\ Run' /\ Chain'
    BY <1>3, <2>1, ChainKept DEF Ordered, OpTyped, Run, Steps, End
  <2>3. ASSUME NEW q \in Callers
        PROVE  (/\ op[q].pc = "fill" => Filling(q)
                /\ op[q].pc \in {"submit", "poll"} => Published(q))'
    BY <1>3, <2>1, <2>2, QuietOps DEF Ordered
  <2>4. OpsInv'
    BY <2>3 DEF OpsInv
  <2> QED BY <1>3, <2>2, <2>4, QuietHistory DEF QueueInv
<1>4. ASSUME NEW a \in Actors, FinishWait(a)
      PROVE  QueueInv' /\ History(B)' /\ Outcome(B)'
  BY <1>3, <1>4, FinishWaitOutcome DEF FinishWait
<1>5. ASSUME NEW a \in Actors, NEW how \in {"ticket", "all"}, StartWait(a, how)
      PROVE  QueueInv' /\ History(B)' /\ Outcome(B)'
  <2>1. UNCHANGED <<rsvd, ready, rung, done, slots, executed, op, asked>>
    BY <1>5 DEF StartWait
  <2> QED BY <1>3, <1>5, <2>1, StartWaitOutcome
<1> QED BY <1>1, <1>2, <1>4, <1>5

LEMMA TrNextHolds == TrInv /\ [TrNext]_trVars => TrInv'
<1> SUFFICES ASSUME TrInv, [TrNext]_trVars PROVE TrInv'
  OBVIOUS
<1>1. PICK B \in [Actors -> Seq(Nat)] : History(B) /\ Outcome(B)
  BY DEF TrInv
<1>2. QueueInv
  BY DEF TrInv
<1>3. ASSUME QueueInv', History(B)', Outcome(B)' PROVE TrInv'
  BY <1>1, <1>3 DEF TrInv
<1>4. ASSUME NEW p \in Callers, NEW c \in CallsOf(p), Call(p, c) PROVE TrInv'
  <2>1. PICK C : C = [a \in Actors |-> IF a \in Members(p) THEN Append(B[a], rsvd) ELSE B[a]]
    OBVIOUS
  <2>2. ticket \in [Actors -> Int]
    BY <1>1 DEF Outcome, Tickets
  <2>3. QueueInv'
    BY <1>2, <1>4, <2>2, CallQueue
  <2>4. C \in [Actors -> Seq(Nat)] /\ History(C)'
    BY <1>1, <1>2, <1>4, <2>1, <2>2, CallHistory
  <2>5. Outcome(C)'
    BY <1>1, <1>2, <1>4, <2>1, CallOutcome
  <2> QED BY <2>3, <2>4, <2>5 DEF TrInv
<1>5. ASSUME UNCHANGED trVars PROVE TrInv'
  <2>1. QueueInv'
    BY <1>2, <1>5 DEF QueueInv, Ordered, OpTyped, OpsInv, Chain, Run, Filling, Published, Link, Written,
                      Start, Cell, Now, Steps, End, HasRoom
  <2>2. /\ Asked(B) /\ done \in Nat /\ done' \in Nat /\ done <= done'
        /\ op' = op /\ UNCHANGED <<asked, rsvd, slots, executed, done, ready, ticket, waiting, seen, vis>>
    BY <1>1, <1>2, <1>5 DEF History, QueueInv, Ordered
  <2>3. History(B)'
    BY <1>1, <1>2, <2>2, QuietHistory
  <2>4. Outcome(B)'
    BY <1>1, <2>2, QuietOutcome
  <2> QED BY <1>3, <2>1, <2>3, <2>4
<1>6. CASE \E p \in Callers : \E c \in IF p = Warp THEN WarpCalls ELSE ThreadCalls : CallCount < MaxCalls /\ Call(p, c)
  BY <1>4, <1>6 DEF CallsOf
<1>7. CASE \/ \E p \in Callers : op[p] # Idle /\ (Mark(p) \/ \E k \in DOMAIN Steps(p) : Fill(p, k))
           \/ Execute
  BY <1>1, <1>2, <1>3, <1>7, FillMarkExecute
<1>8. CASE \/ \E p \in Callers : op[p] # Idle /\ (SubmitWqes(p) \/ Polled(p))
           \/ \E a \in Actors : FinishWait(a) \/ \E how \in {"ticket", "all"} : StartWait(a, how)
  BY <1>1, <1>2, <1>3, <1>8, ReturnWait
<1>9. CASE (TrDone /\ UNCHANGED trVars) \/ UNCHANGED trVars
  BY <1>5, <1>9
<1> QED BY <1>6, <1>7, <1>8, <1>9 DEF TrNext

(* The invariant holds, whoever calls, fills, publishes and waits when.    *)
THEOREM TransfersInvariance == TrSpec => []TrInv
BY TrInitHolds, TrNextHolds, PTL DEF TrSpec

(* The NIC never reads a WQE of which a segment is missing or another's:   *)
(* neither with the lanes of a warp filling in any order nor where a WQE   *)
(* of 8 bytes goes on in the next slot.                                    *)
THEOREM WqesStayWhole == TrSpec => []WholeWqes
<1>1. TrInv => WholeWqes
  <2> SUFFICES ASSUME TrInv, NEW i \in DOMAIN executed PROVE executed[i] # Torn
    BY DEF WholeWqes
  <2>1. executed[i] \in Segs
    BY DEF TrInv, QueueInv, Run
  <2>2. "TORN" \notin DOMAIN Formats
    BY FormatNames
  <2> QED BY <2>1, <2>2 DEF Segs, Torn
<1> QED BY <1>1, TransfersInvariance, PTL

-----------------------------------------------------------------------------
(* What has been moved.                                                    *)

Covers(w, u) == w.op \in DataOps /\ u \in w.off .. w.off + w.len - 1

(* Chunks neither overlap nor leave a rest.                                *)
LEMMA ChunksCover ==
  ASSUME NEW o \in {"WRITE", "READ"}, NEW size \in Nat, NEW u \in 0 .. size
  PROVE  /\ u < size => \E k \in 1 .. NumChunks(size) :
              \A j \in 1 .. NumChunks(size) : Covers(Chunks(o, size)[j], u) <=> j = k
         /\ u = size => \A j \in 1 .. NumChunks(size) : ~Covers(Chunks(o, size)[j], u)
<1>1. MaxTransfer \in Nat \ {0}
  BY TransfersAssumption
<1>2. PICK M \in Nat \ {0}, n \in Nat : M = MaxTransfer /\ n = NumChunks(size)
  BY <1>1, ChunksKnown
<1>3. ASSUME NEW j \in 1 .. n
      PROVE  Covers(Chunks(o, size)[j], u) <=> u < size /\ (j - 1) * M <= u /\ u < (j - 1) * M + M
  <2>1. j - 1 \in Nat /\ (j - 1) * M \in Nat
    <3>1. j - 1 \in Nat
      BY <1>2
    <3> QED BY <3>1
  <2>2. PICK f \in Nat : f = (j - 1) * M
    BY <2>1
  <2>3. Chunks(o, size)[j] = IF size - f > 0 THEN W(o, f, IF size - f > M THEN M ELSE size - f)
                                             ELSE W("NOP", 0, 0)
    BY <1>2, <2>2 DEF Chunks
  <2>4. CASE size - f > 0
    <3>1. PICK l \in Nat : l = IF size - f > M THEN M ELSE size - f
      BY <2>4
    <3>2. Chunks(o, size)[j] = W(o, f, l)
      BY <2>3, <2>4, <3>1
    <3>3. Covers(Chunks(o, size)[j], u) <=> u \in f .. f + l - 1
      BY <3>2 DEF Covers, W, DataOps
    <3> QED BY <2>2, <2>4, <3>1, <3>3
  <2>5. CASE ~(size - f > 0)
    <3>1. ~Covers(Chunks(o, size)[j], u)
      BY <2>3, <2>5 DEF Covers, W, DataOps
    <3> QED BY <2>2, <2>5, <3>1
  <2> QED BY <2>4, <2>5
<1>4. ASSUME u < size
      PROVE  \E k \in 1 .. n : \A j \in 1 .. n : Covers(Chunks(o, size)[j], u) <=> j = k
  <2>1. PICK q \in Int, r \in 0 .. M - 1 : u = M * q + r /\ q = u \div M
    <3>1. u \in Int
      OBVIOUS
    <3> QED BY <3>1, DivMod
  <2>2. PICK s \in Int, t \in 0 .. M - 1 : size = M * s + t /\ s = size \div M /\ t = size % M
    BY DivMod
  <2>3. q >= 0
    BY <2>1, Z3
  <2>4. n >= s + (IF t # 0 THEN 1 ELSE 0)
    BY <1>2, <2>2 DEF NumChunks
  <2>5. q + 1 <= n
    <3>1. CASE q < s
      BY <2>4, <3>1, <2>2
    <3>2. CASE q = s
      <4>1. PICK m \in Int : m = M * q /\ m = M * s
        BY <3>2
      <4>4. u = m + r
        BY <2>1, <4>1
      <4>5. size = m + t
        BY <2>2, <4>1
      <4>2. u = m + r /\ size = m + t /\ r \in Int /\ r >= 0 /\ t \in Int
        BY <4>4, <4>5
      <4>3. t # 0
        BY <1>4, <4>1, <4>2
      <4> QED BY <2>4, <3>2, <4>3
    <3>3. CASE q > s
      <4>1. M * q >= M * s + M
        BY <3>3, Z3
      <4>2. PICK m \in Int, l \in Int : m = M * q /\ l = M * s
        OBVIOUS
      <4> QED BY <1>4, <2>1, <2>2, <4>1, <4>2
    <3> QED BY <3>1, <3>2, <3>3
  <2>6. ASSUME NEW j \in 1 .. n
        PROVE  (j - 1) * M <= u /\ u < (j - 1) * M + M <=> j = q + 1
    <3>1. PICK i \in Nat : i = j - 1
      OBVIOUS
    <3>2. M * i = i * M /\ M * i \in Nat
      BY <3>1
    <3>3. PICK m \in Nat : m = M * i /\ m = (j - 1) * M
      BY <3>1, <3>2
    <3>4. ASSUME m <= u, u < m + M PROVE i = q
      <4>1. u - m \in 0 .. M - 1 /\ u = M * i + (u - m)
        BY <3>3, <3>4
      <4>2. i = u \div M
        BY <4>1, DivModUnique
      <4> QED BY <2>1, <4>2
    <3>5. ASSUME i = q PROVE m <= u /\ u < m + M
      BY <2>1, <3>3, <3>5
    <3> QED BY <3>1, <3>3, <3>4, <3>5
  <2>7. q + 1 \in 1 .. n
    BY <2>3, <2>5
  <2> QED BY <1>3, <1>4, <2>6, <2>7
<1>5. ASSUME u = size, NEW j \in 1 .. n PROVE ~Covers(Chunks(o, size)[j], u)
  BY <1>3, <1>5
<1> QED BY <1>2, <1>4, <1>5

(* The data WQEs of a thread's call have each unit of its data in one.     *)
LEMMA DataCovers ==
  ASSUME NEW c \in ThreadCalls, NEW u \in 0 .. c.size
  PROVE  /\ u < c.size => \E k \in 1 .. Len(Data(c)) :
              \A j \in 1 .. Len(Data(c)) : Covers(Data(c)[j], u) <=> j = k
         /\ u = c.size => \A j \in 1 .. Len(Data(c)) : ~Covers(Data(c)[j], u)
<1> PICK D : D = Data(c)
  OBVIOUS
<1> SUFFICES /\ u < c.size => \E k \in 1 .. Len(D) : \A j \in 1 .. Len(D) : Covers(D[j], u) <=> j = k
             /\ u = c.size => \A j \in 1 .. Len(D) : ~Covers(D[j], u)
  OBVIOUS
<1>1. /\ c.size \in Nat
      /\ c.kind \in Puts \cup Inlines \cup Signals \cup {"get", "get_wait", "post"}
      /\ c.kind \in {"signal", "get_wait"} \/ (c.kind = "post" /\ c.op \notin DataOps) => c.size = 0
  BY TransfersAssumption
<1>2. CASE c.kind \in Puts \cup {"get"}
  <2>1. PICK o \in {"WRITE", "READ"} : D = Chunks(o, c.size)
    BY <1>2, DataOfChunks
  <2>2. Len(D) = NumChunks(c.size)
    BY <1>1, <2>1, ChunksKnown
  <2>3. /\ u < c.size => \E k \in 1 .. NumChunks(c.size) :
              \A j \in 1 .. NumChunks(c.size) : Covers(Chunks(o, c.size)[j], u) <=> j = k
        /\ u = c.size => \A j \in 1 .. NumChunks(c.size) : ~Covers(Chunks(o, c.size)[j], u)
    BY <1>1, ChunksCover, Zenon
  <2> QED BY <2>1, <2>2, <2>3
<1>3. ASSUME NEW o, D = <<W(o, 0, c.size)>>, o \in DataOps \/ c.size = 0
      PROVE  /\ u < c.size => \E k \in 1 .. Len(D) : \A j \in 1 .. Len(D) : Covers(D[j], u) <=> j = k
             /\ u = c.size => \A j \in 1 .. Len(D) : ~Covers(D[j], u)
  <2>1. PICK v : v = W(o, 0, c.size)
    OBVIOUS
  <2>2. v.op = o /\ v.off = 0 /\ v.len = c.size
    BY <2>1 DEF W
  <2>3. Covers(v, u) <=> u < c.size
    BY <1>1, <1>3, <2>2 DEF Covers
  <2>4. D = <<v>>
    BY <1>3, <2>1
  <2>5. Len(D) = 1 /\ D[1] = v
    BY <2>4
  <2>6. \A j \in 1 .. Len(D) : j = 1 /\ D[j] = v
    BY <2>5
  <2>7. 1 \in 1 .. Len(D)
    BY <2>5
  <2> QED BY <1>1, <2>3, <2>6, <2>7
<1>4. CASE c.kind \in Inlines
  <2>1. D = <<W("WRITE_INL", 0, c.size)>> /\ "WRITE_INL" \in DataOps
    BY <1>4 DEF Data, Puts, Inlines, DataOps
  <2> QED BY <1>3, <2>1
<1>5. CASE c.kind = "post"
  <2>1. D = <<W(c.op, 0, c.size)>>
    BY <1>5 DEF Data, Puts, Inlines
  <2> QED BY <1>1, <1>3, <1>5, <2>1
<1>6. CASE c.kind \in {"signal", "get_wait"}
  <2>1. D = <<>>
    BY <1>6 DEF Data, Puts, Inlines
  <2>2. Len(D) = 0 /\ ~(u < c.size)
    BY <1>1, <1>6, <2>1
  <2> QED BY <2>2
<1> QED BY <1>1, <1>2, <1>4, <1>5, <1>6 DEF Signals, Puts, Inlines

(* So have the WQEs an actor posts for a call.                             *)
LEMMA PlanCovers ==
  ASSUME NEW p \in Callers, NEW c \in CallsOf(p), NEW a \in Members(p), NEW u \in 0 .. c.size
  PROVE  /\ u < c.size => \E k \in 1 .. Len(Plan(p, c)) : \A j \in 1 .. Len(Plan(p, c)) :
              By(p, j) = a /\ Covers(Plan(p, c)[j], u) <=> j = k
         /\ u = c.size => \A j \in 1 .. Len(Plan(p, c)) : ~(By(p, j) = a /\ Covers(Plan(p, c)[j], u))
<1> PICK Q : Q = Plan(p, c)
  OBVIOUS
<1>1. PICK D \in Seq(Wqes), E \in Seq(Wqes), n \in Nat, e \in {0, 1} : Parts(p, c, D, E, n, e)
  BY PlanParts
<1>2. Len(Q) = n + e /\ \A k \in 1 .. n + e : Q[k] = IF k <= n THEN D[k] ELSE E[k - n]
  BY <1>1 DEF Parts
<1>3. ASSUME NEW k \in 1 .. n + e, k > n PROVE ~Covers(Q[k], u)
  <2>1. k - n \in 1 .. e
    BY <1>1, <1>3 DEF Parts
  <2>2. Q[k].op \in {"ATOMIC", "DUMP"}
    BY <1>1, <1>2, <1>3, <2>1 DEF Parts
  <2> QED BY <2>2 DEF Covers, DataOps
<1>4. /\ u < c.size => \E k \in 1 .. n : \A j \in 1 .. n : By(p, j) = a /\ Covers(D[j], u) <=> j = k
      /\ u = c.size => \A j \in 1 .. n : ~(By(p, j) = a /\ Covers(D[j], u))
  <2>1. CASE p # Warp
    <3>1. \A j : By(p, j) = a
      BY <2>1 DEF By, Members
    <3>0. c \in ThreadCalls /\ D = Data(c)
      BY <1>1, <2>1 DEF CallsOf, Body, Parts
    <3>2. /\ u < c.size => \E k \in 1 .. Len(D) : \A j \in 1 .. Len(D) : Covers(D[j], u) <=> j = k
          /\ u = c.size => \A j \in 1 .. Len(D) : ~Covers(D[j], u)
      BY <3>0, DataCovers
    <3>3. n = Len(D)
      BY <1>1 DEF Parts
    <3> QED BY <3>1, <3>2, <3>3
  <2>2. CASE p = Warp
    <3>1. c \in WarpCalls /\ a \in 0 .. WarpSize - 1 /\ c.size \in Nat /\ WarpSize \in Nat \ {0}
      BY <2>2, TransfersAssumption DEF CallsOf, Members, Lanes
    <3>2. n = WarpSize
      BY <1>1, <2>2 DEF Parts
    <3>3. ASSUME NEW j \in 1 .. n
          PROVE  (Covers(D[j], u) <=> u < c.size) /\ (By(p, j) = a <=> j = a + 1)
      <4>1. PICK o \in {"WRITE", "READ"} : o = IF c.kind = "put" THEN "WRITE" ELSE "READ"
        OBVIOUS
      <4>2. D[j] = W(o, 0, c.size)
        BY <1>1, <2>2, <3>2, <4>1 DEF WarpData, Body, Parts
      <4>3. Covers(D[j], u) <=> u < c.size
        BY <3>1, <4>2 DEF Covers, W, DataOps
      <4>4. By(p, j) = a <=> j = a + 1
        BY <2>2, <3>1, <3>2 DEF By
      <4> QED BY <4>3, <4>4
    <3>4. a + 1 \in 1 .. n
      BY <3>1, <3>2
    <3>5. u = c.size => ~(u < c.size)
      BY <3>1
    <3> QED BY <3>3, <3>4, <3>5
  <2> QED BY <2>1, <2>2
<1>5. ASSUME u < c.size
      PROVE  \E k \in 1 .. n + e : \A j \in 1 .. n + e : By(p, j) = a /\ Covers(Q[j], u) <=> j = k
  <2>1. PICK k \in 1 .. n : \A j \in 1 .. n : By(p, j) = a /\ Covers(D[j], u) <=> j = k
    BY <1>4, <1>5
  <2>2. k \in 1 .. n + e
    BY <1>1 DEF Parts
  <2>3. ASSUME NEW j \in 1 .. n + e PROVE By(p, j) = a /\ Covers(Q[j], u) <=> j = k
    <3>1. CASE j > n
      <4>1. j # k
        BY <1>1, <3>1 DEF Parts
      <4> QED BY <1>3, <3>1, <4>1
    <3>2. CASE ~(j > n)
      <4>1. j \in 1 .. n /\ Q[j] = D[j]
        BY <1>1, <1>2, <3>2 DEF Parts
      <4> QED BY <2>1, <4>1
    <3> QED BY <3>1, <3>2
  <2> QED BY <2>2, <2>3
<1>6. ASSUME u = c.size, NEW j \in 1 .. n + e PROVE ~(By(p, j) = a /\ Covers(Q[j], u))
  <2>1. CASE j > n
    BY <1>3, <2>1
  <2>2. CASE ~(j > n)
    <3>1. j \in 1 .. n /\ Q[j] = D[j]
      BY <1>1, <1>2, <2>2 DEF Parts
    <3> QED BY <1>4, <1>6, <3>1
  <2> QED BY <2>1, <2>2
<1> QED BY <1>2, <1>5, <1>6

(* The signal, when there is one, comes last.                              *)
LEMMA AtomicLast ==
  ASSUME NEW p \in Callers, NEW c \in CallsOf(p), NEW Q, Q = Plan(p, c)
  PROVE  \A m \in 1 .. Len(Q) : Q[m].op = "ATOMIC" => m = Len(Q)
<1>1. PICK D \in Seq(Wqes), E \in Seq(Wqes), n \in Nat, e \in {0, 1} : Parts(p, c, D, E, n, e)
  BY PlanParts
<1>2. Len(Q) = n + e /\ \A k \in 1 .. n + e : Q[k] = IF k <= n THEN D[k] ELSE E[k - n]
  BY <1>1 DEF Parts
<1> SUFFICES ASSUME NEW m \in 1 .. Len(Q), Q[m].op = "ATOMIC" PROVE m = Len(Q)
  OBVIOUS
<1>3. CASE c.kind = "post"
  <2>1. n = 1 /\ e = 0
    <3>1. PICK v : v = W(c.op, 0, c.size)
      OBVIOUS
    <3>2. D = <<v>> /\ E = <<>>
      BY <1>1, <1>3, <3>1 DEF Parts
    <3> QED BY <1>1, <3>2 DEF Parts
  <2> QED BY <1>2, <2>1
<1>4. CASE c.kind # "post"
  <2>1. \A j \in 1 .. n : D[j].op # "ATOMIC"
    BY <1>1, <1>4 DEF Parts
  <2>2. ~(m <= n)
    BY <1>2, <2>1
  <2>3. m \in 1 .. n + e /\ Len(Q) = n + e
    BY <1>2
  <2> QED BY <2>2, <2>3
<1> QED BY <1>3, <1>4

(* A WQE in two places of the run is in one.                               *)
LEMMA RunOnce ==
  ASSUME Run, NEW i \in 1 .. Len(executed), NEW j \in 1 .. Len(executed)
  PROVE  /\ executed[i].idx \in Nat /\ executed[j].idx \in Nat
         /\ executed[i].idx < executed[j].idx => i < j
         /\ executed[i] = executed[j] => i = j
<1>1. /\ executed[i] \in Segs /\ executed[j] \in Segs
      /\ i < j => executed[i].idx < executed[j].idx
      /\ j < i => executed[j].idx < executed[i].idx
  BY DEF Run
<1>2. PICK x \in Nat, y \in Nat : x = executed[i].idx /\ y = executed[j].idx
  BY <1>1 DEF Segs
<1>3. i \in Int /\ j \in Int /\ (i < j \/ i = j \/ j < i)
  OBVIOUS
<1>4. (i < j => x < y) /\ (j < i => y < x) /\ (executed[i] = executed[j] => x = y) /\ (i = j => x = y)
  BY <1>1, <1>2
<1>5. (x < y => i < j) /\ (x = y => i = j)
  BY <1>2, <1>3, <1>4
<1> QED BY <1>2, <1>4, <1>5

(* When all data WQEs of an actor's call are among the first N executed,   *)
(* its data has been moved.                                                *)
LEMMA WholeWhen ==
  ASSUME NEW B, Run, Asked(B), Traced(B), NEW a \in Actors, NEW c \in 1 .. Len(asked[a]),
         NEW N \in 0 .. Len(executed),
         \A k \in Mine(a, c) : PlanOf(a, c)[k].op \in DataOps =>
           \E n \in 1 .. N : executed[n] = Wqe(B, a, c, k)
  PROVE  Whole(a, c, N)
<1>1. /\ CallerOf(a) \in Callers /\ asked[a][c] \in CallsOf(CallerOf(a)) /\ a \in Members(CallerOf(a))
      /\ Len(executed) \in Nat
  BY CallKnown, Callers_ DEF Run
<1>2. PICK Q : Q = PlanOf(a, c)
  OBVIOUS
<1>3. \A k : k \in Mine(a, c) <=> k \in 1 .. Len(Q) /\ By(CallerOf(a), k) = a
  BY <1>2 DEF Mine
<1> SUFFICES ASSUME NEW u \in 0 .. asked[a][c].size
             PROVE  Moved(a, c, u, N) = IF u < asked[a][c].size THEN 1 ELSE 0
  BY DEF Whole
<1>4. PICK S : S = {i \in 1 .. N : /\ executed[i] # Torn
                                   /\ executed[i].by = a /\ executed[i].call = c
                                   /\ executed[i].op \in DataOps
                                   /\ u \in executed[i].off .. executed[i].off + executed[i].len - 1}
  OBVIOUS
<1>5. Moved(a, c, u, N) = Cardinality(S)
  BY <1>4 DEF Moved
<1>6. \A i \in 1 .. N : i \in 1 .. Len(executed)
  BY <1>1
<1>7. ASSUME NEW i \in S
      PROVE  i \in 1 .. N /\ \E k \in Mine(a, c) : executed[i] = Wqe(B, a, c, k) /\ Covers(Q[k], u)
  <2>1. i \in 1 .. N /\ executed[i].by = a /\ executed[i].call = c
    BY <1>4
  <2>2. Known(B, executed[i])
    BY <1>6, <2>1 DEF Traced
  <2>3. PICK k \in Mine(a, c) : executed[i] = Wqe(B, a, c, k)
    BY <2>1, <2>2 DEF Known
  <2>4. executed[i].op = Q[k].op /\ executed[i].off = Q[k].off /\ executed[i].len = Q[k].len
    BY <1>2, <2>3 DEF Wqe
  <2>5. Covers(Q[k], u)
    BY <1>4, <2>4 DEF Covers
  <2> QED BY <2>1, <2>3, <2>5
<1>8. ASSUME NEW i \in 1 .. N, NEW k \in Mine(a, c), executed[i] = Wqe(B, a, c, k), Covers(Q[k], u)
      PROVE  i \in S
  <2>1. /\ executed[i].op = Q[k].op /\ executed[i].off = Q[k].off /\ executed[i].len = Q[k].len
        /\ executed[i].by = a /\ executed[i].call = c
    BY <1>2, <1>8 DEF Wqe
  <2>2. executed[i] # Torn
    <3>1. Q[k].op \in DataOps
      BY <1>8 DEF Covers
    <3> QED BY <2>1, <3>1 DEF Torn, DataOps
  <2>3. executed[i].op \in DataOps /\ u \in executed[i].off .. executed[i].off + executed[i].len - 1
    BY <1>8, <2>1 DEF Covers
  <2> QED BY <1>4, <2>1, <2>2, <2>3
<1> HIDE <1>4
<1>9. CASE u < asked[a][c].size
  <2>1. \E k \in 1 .. Len(Q) : \A j \in 1 .. Len(Q) : By(CallerOf(a), j) = a /\ Covers(Q[j], u) <=> j = k
    <3>1. Q = Plan(CallerOf(a), asked[a][c])
      BY <1>2 DEF PlanOf
    <3>2. \E k \in 1 .. Len(Plan(CallerOf(a), asked[a][c])) : \A j \in 1 .. Len(Plan(CallerOf(a), asked[a][c])) :
            By(CallerOf(a), j) = a /\ Covers(Plan(CallerOf(a), asked[a][c])[j], u) <=> j = k
      BY <1>1, <1>9, PlanCovers
    <3> QED BY <3>1, <3>2
  <2>2. PICK k \in Mine(a, c) : Covers(Q[k], u) /\ \A j \in Mine(a, c) : Covers(Q[j], u) => j = k
    BY <1>3, <2>1
  <2>3. PICK n \in 1 .. N : executed[n] = Wqe(B, a, c, k)
    BY <1>2, <2>2 DEF Covers
  <2>4. n \in S
    BY <1>8, <2>2, <2>3
  <2>5. ASSUME NEW i \in S PROVE i = n
    <3>1. i \in 1 .. N /\ executed[i] = executed[n]
      BY <1>7, <2>2, <2>3
    <3> QED BY <1>6, <3>1, RunOnce
  <2>6. S = {n}
    BY <2>4, <2>5
  <2> QED BY <1>5, <1>9, <2>6, FS_Singleton
<1>10. CASE ~(u < asked[a][c].size)
  <2>1. \A j \in 1 .. Len(Q) : ~(By(CallerOf(a), j) = a /\ Covers(Q[j], u))
    <3>1. Q = Plan(CallerOf(a), asked[a][c]) /\ u = asked[a][c].size
      <4>1. asked[a][c].size \in Nat
        BY <1>1, TransfersAssumption DEF CallsOf
      <4> QED BY <1>2, <1>10, <4>1 DEF PlanOf
    <3> QED BY <1>1, <3>1, PlanCovers
  <2>2. S = {}
    BY <1>3, <1>7, <2>1
  <2> QED BY <1>5, <1>10, <2>2, FS_EmptySet
<1> QED BY <1>9, <1>10

(* Every unit a wait has returned for has been moved once.                 *)
LEMMA MovedHolds == TrInv => MovedOnce
<1> SUFFICES ASSUME TrInv, NEW a \in Actors, NEW c \in 1 .. seen[a] PROVE Whole(a, c, Len(executed))
  BY DEF MovedOnce
<1>1. PICK B : Run /\ Asked(B) /\ Traced(B) /\ SeenDone(B)
  BY DEF TrInv, QueueInv, History, Outcome
<1>2. /\ seen[a] \in Nat /\ Len(asked[a]) \in Nat /\ seen[a] <= Len(asked[a])
      /\ \A k \in Mine(a, c) : B[a][c] + k - 1 < done
  BY <1>1 DEF SeenDone, Asked
<1>3. c \in 1 .. Len(asked[a])
  BY <1>2
<1>4. Len(executed) \in 0 .. Len(executed)
  <2>1. Len(executed) \in Nat
    BY <1>1 DEF Run
  <2> QED BY <2>1
<1>5. ASSUME NEW k \in Mine(a, c) PROVE \E n \in 1 .. Len(executed) : executed[n] = Wqe(B, a, c, k)
  <2>1. Wqe(B, a, c, k).idx < done
    BY <1>1, <1>2, <1>3, WqeKnown
  <2> QED BY <1>1, <1>3, <2>1 DEF Traced
<1> QED BY <1>1, <1>3, <1>4, <1>5, WholeWhen

(* A signal is raised after the data it stands for.                        *)
LEMMA SignalHolds == TrInv => SignalLast
<1> SUFFICES ASSUME TrInv, NEW i \in DOMAIN executed, executed[i].op = "ATOMIC"
             PROVE  Whole(executed[i].by, executed[i].call, i)
  BY DEF SignalLast
<1>1. PICK B : Run /\ Asked(B) /\ Traced(B)
  BY DEF TrInv, QueueInv, History
<1>2. Len(executed) \in Nat /\ i \in 1 .. Len(executed) /\ i \in 0 .. Len(executed) /\ executed[i].idx < done
  BY <1>1 DEF Run
<1>3. PICK a \in Actors, c \in Nat : a = executed[i].by /\ c = executed[i].call /\ c \in 1 .. Len(asked[a])
  BY <1>1, <1>2 DEF Traced, Known
<1>4. PICK m \in Mine(a, c) : executed[i] = Wqe(B, a, c, m)
  BY <1>1, <1>2, <1>3 DEF Traced, Known
<1>5. PICK Q : Q = PlanOf(a, c)
  OBVIOUS
<1>6. /\ m \in 1 .. Len(Q) /\ Q[m].op = "ATOMIC" /\ B[a][c] \in Nat
      /\ executed[i].idx = B[a][c] + m - 1 /\ Len(Q) \in Nat
  <2>1. PICK w : w = Wqe(B, a, c, m)
    OBVIOUS
  <2>2. w.idx = B[a][c] + m - 1 /\ w.op = Q[m].op /\ m \in 1 .. Len(Q) /\ B[a][c] \in Nat
    BY <1>1, <1>3, <1>5, <2>1, WqeKnown
  <2>3. Len(Q) \in Nat
    BY <1>1, <1>3, <1>5, CallKnown
  <2> QED BY <1>4, <2>1, <2>2, <2>3
<1>7. m = Len(Q)
  <2>1. CallerOf(a) \in Callers /\ asked[a][c] \in CallsOf(CallerOf(a)) /\ Q = Plan(CallerOf(a), asked[a][c])
    BY <1>1, <1>3, <1>5, CallKnown, Callers_ DEF PlanOf
  <2> QED BY <1>6, <2>1, AtomicLast
<1>8. ASSUME NEW k \in Mine(a, c), Q[k].op \in DataOps
      PROVE  \E n \in 1 .. i : executed[n] = Wqe(B, a, c, k)
  <2>1. k \in 1 .. Len(Q) /\ Wqe(B, a, c, k).idx = B[a][c] + k - 1
    BY <1>1, <1>3, <1>5, WqeKnown
  <2>2. k # m
    BY <1>6, <1>8 DEF DataOps
  <2>3. Wqe(B, a, c, k).idx < executed[i].idx /\ Wqe(B, a, c, k).idx < done
    <3>1. PICK x \in Nat, y \in Nat, b \in Nat : x = Wqe(B, a, c, k).idx /\ y = executed[i].idx /\ b = B[a][c]
      <4>1. Wqe(B, a, c, k).idx \in Nat
        BY <1>1, <1>3, WqeKnown
      <4>2. executed[i].idx \in Nat
        BY <1>1, <1>2, RunOnce
      <4> QED BY <1>6, <4>1, <4>2
    <3>2. x = b + k - 1 /\ y = b + m - 1 /\ k < m
      BY <1>6, <1>7, <2>1, <2>2, <3>1
    <3>3. done \in Nat
      BY DEF TrInv, QueueInv, Ordered
    <3>4. x < y /\ y < done
      BY <1>2, <1>6, <2>1, <3>1, <3>2
    <3> QED BY <3>1, <3>3, <3>4
  <2>4. PICK n \in 1 .. Len(executed) : executed[n] = Wqe(B, a, c, k)
    BY <1>1, <1>3, <2>3 DEF Traced
  <2>5. n < i
    BY <1>1, <1>2, <2>3, <2>4, RunOnce
  <2>6. n \in 1 .. i
    BY <1>2, <2>5
  <2> QED BY <2>4, <2>6
<1>9. Whole(a, c, i)
  BY <1>1, <1>2, <1>3, <1>5, <1>8, WholeWhen
<1> QED BY <1>3, <1>9

(* The data of a get is read after a DUMP that follows its READs.          *)
LEMMA DumpHolds == TrInv => GetVisible
<1> SUFFICES ASSUME TrInv, NEW a \in Actors, NEW i \in DOMAIN executed,
                    executed[i].op = "READ", executed[i].by = a, executed[i].call <= vis[a]
             PROVE  \E j \in i + 1 .. Len(executed) : executed[j].op = "DUMP"
  BY DEF GetVisible
<1>1. PICK B : Run /\ Asked(B) /\ Traced(B) /\ SeenDone(B)
  BY DEF TrInv, QueueInv, History, Outcome
<1>2. Len(executed) \in Nat /\ i \in 1 .. Len(executed)
  BY <1>1 DEF Run
<1>3. PICK c \in Nat : c = executed[i].call /\ c \in 1 .. Len(asked[a])
  BY <1>1, <1>2 DEF Traced, Known
<1>4. PICK m \in Mine(a, c) : executed[i] = Wqe(B, a, c, m)
  BY <1>1, <1>2, <1>3 DEF Traced, Known
<1>5. PICK v \in Nat : v = vis[a]
  BY <1>1 DEF SeenDone
<1>6. c \in 1 .. v /\ v \in 1 .. Len(asked[a]) /\ asked[a][v].mcst /\ B[a][v] + Len(PlanOf(a, v)) - 1 < done
  <2>1. c <= v /\ v <= Len(asked[a]) /\ (v > 0 => asked[a][v].mcst /\ B[a][v] + Len(PlanOf(a, v)) - 1 < done)
    BY <1>1, <1>3, <1>5 DEF SeenDone
  <2>2. Len(asked[a]) \in Nat
    BY <1>1 DEF Asked
  <2>3. v > 0
    BY <1>3, <2>1, <2>2
  <2> QED BY <1>3, <2>1, <2>2, <2>3
<1>7. /\ CallerOf(a) \in Callers /\ asked[a][v] \in CallsOf(CallerOf(a))
      /\ PlanOf(a, v) = Plan(CallerOf(a), asked[a][v]) /\ Len(PlanOf(a, v)) \in Nat /\ Len(PlanOf(a, v)) >= 1
      /\ B[a][v] \in Nat
  BY <1>1, <1>6, CallKnown, Callers_ DEF PlanOf
<1>8. PICK n \in Nat : n = Len(PlanOf(a, v)) /\ n \in 1 .. Len(PlanOf(a, v))
  BY <1>7
<1>9. PlanOf(a, v)[n].op = "DUMP"
  BY <1>6, <1>7, <1>8, CallEnds
<1>10. PICK d : d = By(CallerOf(a), n)
  OBVIOUS
<1>11. /\ d \in Actors /\ CallerOf(d) = CallerOf(a) /\ asked[d][v] = asked[a][v] /\ B[d][v] = B[a][v]
       /\ v \in 1 .. Len(asked[d])
  <2>1. d \in Members(CallerOf(a))
    BY <1>7, <1>8, <1>10, ByMember
  <2>2. d \in Actors /\ CallerOf(d) = CallerOf(a)
    BY <1>7, <2>1, Callers_
  <2>3. asked[d] = asked[a] /\ B[d] = B[a]
    <3>1. CASE a \in Lanes
      <4>1. d \in Lanes
        BY <2>1, <3>1 DEF Members, CallerOf
      <4> QED BY <1>1, <3>1, <4>1 DEF Asked
    <3>2. CASE a \notin Lanes
      <4>1. CallerOf(a) = a /\ a # Warp
        BY <3>2, TransfersAssumption DEF CallerOf, Actors
      <4> QED BY <2>1, <4>1 DEF Members
    <3> QED BY <3>1, <3>2
  <2> QED BY <1>6, <2>2, <2>3
<1>12. PlanOf(d, v) = PlanOf(a, v) /\ n \in Mine(d, v)
  <2>1. PlanOf(d, v) = PlanOf(a, v)
    BY <1>11 DEF PlanOf
  <2> QED BY <1>8, <1>10, <1>11, <2>1 DEF Mine
<1>13. /\ Wqe(B, d, v, n).op = "DUMP" /\ Wqe(B, d, v, n).idx = B[a][v] + n - 1
       /\ Wqe(B, d, v, n).idx < done
  <2>1. Wqe(B, d, v, n).op = "DUMP" /\ Wqe(B, d, v, n).idx = B[a][v] + n - 1
    BY <1>1, <1>9, <1>11, <1>12, WqeKnown
  <2> QED BY <1>6, <1>8, <2>1
<1>14. PICK j \in 1 .. Len(executed) : executed[j] = Wqe(B, d, v, n)
  BY <1>1, <1>11, <1>12, <1>13 DEF Traced
<1>15. executed[i].idx < executed[j].idx
  <2>1. PICK x \in Nat, y \in Nat : x = executed[i].idx /\ y = executed[j].idx
    BY <1>1, <1>2, RunOnce
  <2>2. y = B[a][v] + n - 1
    BY <1>13, <1>14, <2>1
  <2>3. /\ x = B[a][c] + m - 1 /\ m \in 1 .. Len(PlanOf(a, c)) /\ B[a][c] \in Nat
        /\ x < B[a][c] + SpanOf(a, c) /\ PlanOf(a, c)[m].op = "READ"
    BY <1>1, <1>3, <1>4, <2>1, WqeKnown
  <2>4. CASE c < v
    <3>1. B[a][c] + SpanOf(a, c) <= B[a][v] /\ SpanOf(a, c) \in Nat
      BY <1>1, <1>3, <1>6, <2>4, CallKnown DEF Asked
    <3>2. PICK e \in Nat, b \in Nat : e = B[a][c] + SpanOf(a, c) /\ b = B[a][v]
      <4>1. B[a][c] \in Nat
        BY <2>3
      <4>2. B[a][c] + SpanOf(a, c) \in Nat
        BY <3>1, <4>1
      <4> QED BY <1>7, <4>2
    <3>3. x < e /\ e <= b /\ y = b + n - 1 /\ n >= 1
      BY <1>8, <2>2, <2>3, <3>1, <3>2
    <3>4. x < y
      BY <3>3
    <3> QED BY <2>1, <3>4
  <2>5. CASE c = v
    <3>1. m # n
      BY <1>9, <2>3, <2>5
    <3>2. m \in 1 .. n
      BY <1>8, <2>3, <2>5
    <3>3. PICK b \in Nat : b = B[a][v]
      BY <1>7
    <3>4. x = b + m - 1 /\ y = b + n - 1 /\ m < n
      BY <2>2, <2>3, <2>5, <3>1, <3>2, <3>3
    <3>5. x < y
      BY <3>2, <3>4
    <3> QED BY <2>1, <3>5
  <2> QED BY <1>6, <2>4, <2>5
<1>16. i < j
  BY <1>1, <1>2, <1>15, RunOnce
<1>17. executed[j].op = "DUMP" /\ j \in i + 1 .. Len(executed)
  BY <1>2, <1>13, <1>14, <1>16
<1> QED BY <1>17

(* For every set of calls, size of queue and width of the warp: when a     *)
(* wait of a thread or a lane returns, or its blocking get, every unit of  *)
(* what it asked for in this and all earlier calls has been moved, once,   *)
(* and nothing beyond.                                                     *)
THEOREM MovedOnceHolds == TrSpec => []MovedOnce
BY MovedHolds, TransfersInvariance, PTL

(* A signal is raised after all of the data of its put, and what a get     *)
(* brought is read only after a DUMP that follows its READs.               *)
THEOREM DataComesFirst == TrSpec => []DataFirst
<1>1. TrInv => DataFirst
  BY SignalHolds, DumpHolds DEF DataFirst
<1> QED BY <1>1, TransfersInvariance, PTL

-----------------------------------------------------------------------------
(* Types.                                                                  *)

TicketBound == ticket \in [Actors -> Int] /\ \A a \in Actors : ticket[a] < rsvd

LEMMA TicketBoundHolds == TrInv /\ TicketBound /\ [TrNext]_trVars => TicketBound'
<1> SUFFICES ASSUME TrInv, TicketBound, [TrNext]_trVars PROVE TicketBound'
  OBVIOUS
<1>0. OpTyped /\ rsvd \in Nat
  BY DEF TrInv, QueueInv, Ordered
<1>1. ASSUME NEW p \in Callers, NEW c \in CallsOf(p), Call(p, c) PROVE TicketBound'
  <2>1. PICK s \in Nat : s = Span(p, c)
    BY PlanKnown
  <2>2. rsvd' = rsvd + s /\ ticket' = ticket
    BY <1>1, <2>1 DEF Call
  <2> QED BY <1>0, <2>2 DEF TicketBound
<1>2. ASSUME NEW p \in Callers, op[p] # Idle, SubmitWqes(p) PROVE TicketBound'
  <2>1. /\ ticket' = [a \in Actors |-> IF a \in Members(p) THEN TicketOf(p, a) ELSE ticket[a]]
        /\ rsvd' = rsvd
    BY <1>2 DEF SubmitWqes
  <2>2. ASSUME NEW a \in Members(p) PROVE TicketOf(p, a) \in Int /\ TicketOf(p, a) < rsvd
    <3>1. PICK b \in Nat, n \in Nat, e \in Nat : b = op[p].base /\ n = Len(Steps(p)) /\ e = End(p)
      BY <1>0, <1>2, StepsKnown
    <3>2. n >= 1 /\ b + n <= e /\ e <= rsvd
      BY <1>0, <1>2, <3>1, StepsKnown
    <3>3. CASE p = Warp /\ ~(a = 0 /\ op[p].call.mcst)
      <4>1. WarpSize \in Nat \ {0} /\ a \in 0 .. WarpSize - 1
        BY <3>3, TransfersAssumption DEF Members, Lanes
      <4>2. n \in {WarpSize, WarpSize + 1}
        BY <1>0, <1>2, <3>1, <3>3, StepsKnown, PlanKnown
      <4>3. TicketOf(p, a) = b + a
        BY <3>1, <3>3 DEF TicketOf
      <4> QED BY <1>0, <3>2, <4>1, <4>2, <4>3
    <3>4. CASE ~(p = Warp /\ ~(a = 0 /\ op[p].call.mcst))
      <4>1. TicketOf(p, a) = b + n - 1
        BY <3>1, <3>4 DEF TicketOf, LastIndex
      <4> QED BY <1>0, <3>2, <4>1
    <3> QED BY <3>3, <3>4
  <2> QED BY <2>1, <2>2 DEF TicketBound
<1>3. ASSUME UNCHANGED <<rsvd, ticket>> PROVE TicketBound'
  BY <1>3 DEF TicketBound
<1>4. CASE \E p \in Callers : op[p] # Idle /\ (Mark(p) \/ Polled(p) \/ \E k \in DOMAIN Steps(p) : Fill(p, k))
  BY <1>3, <1>4 DEF Mark, Polled, Fill
<1>5. CASE Execute \/ \E a \in Actors : FinishWait(a) \/ \E how \in {"ticket", "all"} : StartWait(a, how)
  BY <1>3, <1>5 DEF Execute, FinishWait, StartWait
<1>6. CASE UNCHANGED trVars
  BY <1>3, <1>6
<1>7. CASE \E p \in Callers : \E c \in IF p = Warp THEN WarpCalls ELSE ThreadCalls : CallCount < MaxCalls /\ Call(p, c)
  BY <1>1, <1>7 DEF CallsOf
<1>8. CASE \E p \in Callers : op[p] # Idle /\ SubmitWqes(p)
  BY <1>2, <1>8
<1> QED BY <1>4, <1>5, <1>6, <1>7, <1>8 DEF TrNext

(* Type correctness: the indices keep their order, the queue never holds   *)
(* more than its slots, and tickets are of what was reserved.              *)
THEOREM TransfersTyped == TrSpec => []TrTypeOK
<1>1. TrInit => TicketBound
  BY TransfersAssumption DEF TrInit, TicketBound
<1>2. TrInv /\ TicketBound => TrTypeOK
  <2> SUFFICES ASSUME TrInv, TicketBound PROVE TrTypeOK
    OBVIOUS
  <2>1. PICK B : Ordered /\ OpTyped /\ SeenDone(B)
    BY DEF TrInv, QueueInv, Outcome
  <2>2. \A p \in Callers : op[p] = Idle \/ (op[p].pc \in {"fill", "submit", "poll"} /\ End(p) <= rsvd)
    BY <2>1, StepsKnown DEF Ops
  <2> QED BY <2>1, <2>2 DEF Ordered, SeenDone, TicketBound, TrTypeOK
<1>3. TrSpec => []TicketBound
  BY <1>1, TicketBoundHolds, TransfersInvariance, PTL DEF TrSpec
<1> QED BY <1>2, <1>3, TransfersInvariance, PTL
=============================================================================
