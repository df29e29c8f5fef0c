------------------------------ MODULE HostProofs ------------------------------
(***************************************************************************)
(* Theorems about the five parts of the host library that MCHost composes: *)
(* the state machine of a QP, the memory table, the verbs objects, their   *)
(* attributes and the recovery of a QP.  Each part has an inductive        *)
(* invariant of its own; the last section is about the composition.        *)
(***************************************************************************)
EXTENDS MCHost, ModArith, SequenceTheorems

USE DEF qpVars, memVars, devVars, objVars, attrVars, resetVars

-----------------------------------------------------------------------------
(* The state machine of a QP.                                              *)

(* What makes the attributes inductive: a QP in RST has none.              *)
QpInv ==
  /\ QpTypeOK
  /\ StateIsKnown
  /\ AttrsAsPromised
  /\ dev_state = "RST" => ctx = Clear

(* What the tables of a command must agree on: the fields it promises are  *)
(* sent and taken, and what the device takes besides is zero already.      *)
Agrees(t, copied, ifMasked, mask) ==
  LET sent == copied \cup (ifMasked \cap mask)
      set == TakenAlways(t) \cup OptParams(t, mask)
  IN  /\ Promised(t, mask) \subseteq set \cap sent
      /\ Fits(t) => \A f \in Fields \cap set : f \in Promised(t, mask) \/ (f \notin sent /\ dev_state = "RST")

LEMMA ClearType == Clear \in [Fields -> {0, 1}] /\ Clear = [f \in Fields |-> 0]
BY DEF Clear

LEMMA QpInitHolds == QpInit => QpInv
BY ClearType DEF QpInit, QpInv, QpTypeOK, StateIsKnown, AttrsAsPromised, QpStates

LEMMA CommandKeeps ==
  ASSUME NEW t, NEW target \in QpStates \ {"RST"}, NEW copied, NEW ifMasked, NEW mask,
         NEW v \in {0, 1}, NEW done \in BOOLEAN, QpInv,
         Agrees(t, copied, ifMasked, mask),
         Command(t, target, copied, ifMasked, mask, v, done), Answer(t, target, mask, v, done)
  PROVE  QpInv'
<1> DEFINE sent == copied \cup (ifMasked \cap mask)
           set == TakenAlways(t) \cup OptParams(t, mask)
<1>1. CASE ~done
  BY <1>1 DEF Command, Answer, NewState, QpInv, QpTypeOK, StateIsKnown, AttrsAsPromised, Clear
<1>2. CASE done
  <2>1. /\ m_current_state' = target /\ dev_state' = target /\ told' = target /\ Fits(t)
        /\ ctx' = [f \in Fields |-> IF f \notin set THEN ctx[f] ELSE IF f \in sent THEN v ELSE 0]
        /\ want' = [f \in Fields |-> IF f \in Promised(t, mask) THEN v ELSE want[f]]
    BY <1>2 DEF Command, Answer, NewState
  <2>2. ctx \in [Fields -> {0, 1}] /\ want = ctx /\ (dev_state = "RST" => ctx = Clear)
    BY DEF QpInv, QpTypeOK, AttrsAsPromised
  <2>3. ASSUME NEW f \in Fields PROVE ctx'[f] = want'[f]
    <3>1. CASE f \in Promised(t, mask)
      BY <2>1, <3>1 DEF Agrees
    <3>2. CASE f \notin Promised(t, mask) /\ f \notin set
      BY <2>1, <2>2, <3>2
    <3>3. CASE f \notin Promised(t, mask) /\ f \in set
      <4>1. f \notin sent /\ dev_state = "RST"
        BY <2>1, <3>3 DEF Agrees
      <4>2. ctx[f] = 0
        BY <2>2, <4>1, ClearType
      <4> QED BY <2>1, <2>2, <3>3, <4>1, <4>2
    <3> QED BY <3>1, <3>2, <3>3
  <2>4. ctx' \in [Fields -> {0, 1}] /\ want' \in [Fields -> {0, 1}]
    BY <2>1, <2>2
  <2>5. ctx' = want'
    <3> HIDE DEF sent, set
    <3>1. /\ ctx' = [f \in Fields |-> ctx'[f]]
          /\ want' = [f \in Fields |-> want'[f]]
      BY <2>4
    <3> QED BY <2>3, <3>1
  <2> QED BY <2>1, <2>4, <2>5 DEF QpInv, QpTypeOK, StateIsKnown, AttrsAsPromised
<1> QED BY <1>1, <1>2

(* The masks the library checks and the bits of opt_param_mask, command by *)
(* command.                                                                *)
LEMMA TablesAgree ==
  ASSUME NEW mask
  PROVE  /\ MaskValid("RST2INIT", mask) =>
              Agrees("RST2INIT", {"PORT_NUM", "PKEY_INDEX", "ALLOW_REMOTE_WRITE"},
                     {"ALLOW_REMOTE_READ", "ATOMIC_MODE"}, mask)
         /\ MaskValid("INIT2INIT", mask) =>
              Agrees("INIT2INIT", {"PORT_NUM", "PKEY_INDEX", "ALLOW_REMOTE_WRITE"},
                     {"ALLOW_REMOTE_READ", "ATOMIC_MODE"}, mask)
         /\ MaskValid("INIT2RTR", mask) =>
              Agrees("INIT2RTR", {"PATH", "SGID", "DEST", "PKEY_INDEX", "ALLOW_REMOTE_WRITE"},
                     {"MIN_RNR_TIMER", "ALLOW_REMOTE_READ", "ATOMIC_MODE"}, mask)
         /\ MaskValid("RTR2RTS", mask) =>
              Agrees("RTR2RTS", {"SEND", "ALLOW_REMOTE_WRITE"}, {"MIN_RNR_TIMER", "ATOMIC_MODE"}, mask)
         /\ MaskValid("RTS2RTS", mask) =>
              Agrees("RTS2RTS", {"ALLOW_REMOTE_WRITE"} \cup IF "AH_ATTR" \in mask THEN {"SGID"} ELSE {},
                     {"MIN_RNR_TIMER", "ALLOW_REMOTE_READ", "ATOMIC_MODE"}, mask)
<1> USE DEF MaskValid, Requested, OptionalOf, StateBits, Remote, Agrees, Promised, TakenAlways,
            OptParams, Fields, Attrs, Fits
<1>1. MaskValid("RST2INIT", mask) =>
        Agrees("RST2INIT", {"PORT_NUM", "PKEY_INDEX", "ALLOW_REMOTE_WRITE"},
               {"ALLOW_REMOTE_READ", "ATOMIC_MODE"}, mask)
  OBVIOUS
<1>2. MaskValid("INIT2INIT", mask) =>
        Agrees("INIT2INIT", {"PORT_NUM", "PKEY_INDEX", "ALLOW_REMOTE_WRITE"},
               {"ALLOW_REMOTE_READ", "ATOMIC_MODE"}, mask)
  OBVIOUS
<1>3. MaskValid("INIT2RTR", mask) =>
        Agrees("INIT2RTR", {"PATH", "SGID", "DEST", "PKEY_INDEX", "ALLOW_REMOTE_WRITE"},
               {"MIN_RNR_TIMER", "ALLOW_REMOTE_READ", "ATOMIC_MODE"}, mask)
  OBVIOUS
<1>4. MaskValid("RTR2RTS", mask) =>
        Agrees("RTR2RTS", {"SEND", "ALLOW_REMOTE_WRITE"}, {"MIN_RNR_TIMER", "ATOMIC_MODE"}, mask)
  OBVIOUS
<1>5. MaskValid("RTS2RTS", mask) =>
        Agrees("RTS2RTS", {"ALLOW_REMOTE_WRITE"} \cup IF "AH_ATTR" \in mask THEN {"SGID"} ELSE {},
               {"MIN_RNR_TIMER", "ALLOW_REMOTE_READ", "ATOMIC_MODE"}, mask)
  OBVIOUS
<1> QED BY <1>1, <1>2, <1>3, <1>4, <1>5

(* The target of a command is what the caller asked for.                   *)
LEMMA TransitionTarget ==
  ASSUME NEW current, NEW next
  PROVE  LET t == Transition(current, next)
         IN  /\ t \in {"RST2INIT", "INIT2INIT"} => next = "INIT"
             /\ t = "INIT2RTR" => next = "RTR"
             /\ t \in {"RTR2RTS", "RTS2RTS"} => next = "RTS"
             /\ t = "2ERR" => next = "ERR"
             /\ t = "2RST" => next = "RST"
             /\ t \in {"RST2INIT", "INIT2INIT", "INIT2RTR", "RTR2RTS", "RTS2RTS", "2ERR", "2RST", "invalid"}
BY DEF Transition

LEMMA Qp2ErrKeeps ==
  ASSUME NEW mask, NEW v \in {0, 1}, NEW done \in BOOLEAN, QpInv, MaskValid("2ERR", mask),
         Qp2Err(done), Answer("2ERR", "ERR", mask, v, done)
  PROVE  QpInv'
<1>1. \A f \in Fields : f \notin Promised("2ERR", mask)
  BY DEF MaskValid, Requested, OptionalOf, StateBits, Promised, Fields, Attrs, Remote
<1>2. want \in [Fields -> {0, 1}]
  BY DEF QpInv, QpTypeOK
<1>3. want' = want
  BY <1>1, <1>2 DEF Answer
<1> QED BY <1>3 DEF Qp2Err, Answer, NewState, QpInv, QpTypeOK, StateIsKnown, AttrsAsPromised, QpStates

LEMMA Qp2RstKeeps ==
  ASSUME NEW t, NEW mask, NEW v \in {0, 1}, NEW done \in BOOLEAN, QpInv,
         Qp2Rst(done), Answer(t, "RST", mask, v, done)
  PROVE  QpInv'
BY ClearType DEF Qp2Rst, Answer, NewState, QpInv, QpTypeOK, StateIsKnown, AttrsAsPromised, QpStates

LEMMA ModifyKeeps ==
  ASSUME NEW mask, NEW current, NEW next, NEW v \in {0, 1}, NEW done \in BOOLEAN, QpInv,
         Modify(mask, current, next, v, done)
  PROVE  QpInv'
<1> DEFINE target == Asked(mask, current, next)
           t == Transition(Current(mask, current), target)
<1>1. CASE t = "invalid" \/ ~MaskValid(t, mask)
  BY <1>1 DEF Modify, QpInv, QpTypeOK, StateIsKnown, AttrsAsPromised, Clear
<1>2. CASE t # "invalid" /\ MaskValid(t, mask)
  <2>1. /\ CASE t = "RST2INIT" -> Rst2Init(mask, v, done)
             [] t = "INIT2INIT" -> Init2Init(mask, v, done)
             [] t = "INIT2RTR" -> Init2Rtr(mask, v, done)
             [] t = "RTR2RTS" -> Rtr2Rts(mask, v, done)
             [] t = "RTS2RTS" -> Rts2Rts(mask, v, done)
             [] t = "2ERR" -> Qp2Err(done)
             [] OTHER -> Qp2Rst(done)
        /\ Answer(t, target, mask, v, done)
    BY <1>2 DEF Modify
  <2>2. /\ t \in {"RST2INIT", "INIT2INIT"} => target = "INIT"
        /\ t = "INIT2RTR" => target = "RTR"
        /\ t \in {"RTR2RTS", "RTS2RTS"} => target = "RTS"
        /\ t = "2ERR" => target = "ERR"
        /\ t = "2RST" => target = "RST"
        /\ t \in {"RST2INIT", "INIT2INIT", "INIT2RTR", "RTR2RTS", "RTS2RTS", "2ERR", "2RST"}
    BY <1>2, TransitionTarget
  <2> HIDE DEF t, target
  <2>3. "INIT" \in QpStates \ {"RST"} /\ "RTR" \in QpStates \ {"RST"} /\ "RTS" \in QpStates \ {"RST"}
    BY DEF QpStates
  <2>4. CASE t = "RST2INIT"
    <3>1. Rst2Init(mask, v, done) /\ Answer("RST2INIT", "INIT", mask, v, done) /\ MaskValid("RST2INIT", mask)
      BY <1>2, <2>1, <2>2, <2>4
    <3>2. Agrees("RST2INIT", {"PORT_NUM", "PKEY_INDEX", "ALLOW_REMOTE_WRITE"},
                 {"ALLOW_REMOTE_READ", "ATOMIC_MODE"}, mask)
      BY <3>1, TablesAgree, Zenon
    <3>3. Command("RST2INIT", "INIT", {"PORT_NUM", "PKEY_INDEX", "ALLOW_REMOTE_WRITE"},
                  {"ALLOW_REMOTE_READ", "ATOMIC_MODE"}, mask, v, done)
      BY <3>1 DEF Rst2Init
    <3> QED BY <2>3, <3>1, <3>2, <3>3, CommandKeeps, Zenon
  <2>5. CASE t = "INIT2INIT"
    <3>1. Init2Init(mask, v, done) /\ Answer("INIT2INIT", "INIT", mask, v, done) /\ MaskValid("INIT2INIT", mask)
      BY <1>2, <2>1, <2>2, <2>5
    <3>2. Agrees("INIT2INIT", {"PORT_NUM", "PKEY_INDEX", "ALLOW_REMOTE_WRITE"},
                 {"ALLOW_REMOTE_READ", "ATOMIC_MODE"}, mask)
      BY <3>1, TablesAgree, Zenon
    <3>3. Command("INIT2INIT", "INIT", {"PORT_NUM", "PKEY_INDEX", "ALLOW_REMOTE_WRITE"},
                  {"ALLOW_REMOTE_READ", "ATOMIC_MODE"}, mask, v, done)
      BY <3>1 DEF Init2Init
    <3> QED BY <2>3, <3>1, <3>2, <3>3, CommandKeeps, Zenon
  <2>6. CASE t = "INIT2RTR"
    <3>1. Init2Rtr(mask, v, done) /\ Answer("INIT2RTR", "RTR", mask, v, done) /\ MaskValid("INIT2RTR", mask)
      BY <1>2, <2>1, <2>2, <2>6
    <3>2. Agrees("INIT2RTR", {"PATH", "SGID", "DEST", "PKEY_INDEX", "ALLOW_REMOTE_WRITE"},
                 {"MIN_RNR_TIMER", "ALLOW_REMOTE_READ", "ATOMIC_MODE"}, mask)
      BY <3>1, TablesAgree, Zenon
    <3>3. Command("INIT2RTR", "RTR", {"PATH", "SGID", "DEST", "PKEY_INDEX", "ALLOW_REMOTE_WRITE"},
                  {"MIN_RNR_TIMER", "ALLOW_REMOTE_READ", "ATOMIC_MODE"}, mask, v, done)
      BY <3>1 DEF Init2Rtr
    <3> QED BY <2>3, <3>1, <3>2, <3>3, CommandKeeps, Zenon
  <2>7. CASE t = "RTR2RTS"
    <3>1. Rtr2Rts(mask, v, done) /\ Answer("RTR2RTS", "RTS", mask, v, done) /\ MaskValid("RTR2RTS", mask)
      BY <1>2, <2>1, <2>2, <2>7
    <3>2. Agrees("RTR2RTS", {"SEND", "ALLOW_REMOTE_WRITE"},
                 {"MIN_RNR_TIMER", "ATOMIC_MODE"}, mask)
      BY <3>1, TablesAgree, Zenon
    <3>3. Command("RTR2RTS", "RTS", {"SEND", "ALLOW_REMOTE_WRITE"},
                  {"MIN_RNR_TIMER", "ATOMIC_MODE"}, mask, v, done)
      BY <3>1 DEF Rtr2Rts
    <3> QED BY <2>3, <3>1, <3>2, <3>3, CommandKeeps, Zenon
  <2>8. CASE t = "RTS2RTS"
    <3>1. Rts2Rts(mask, v, done) /\ Answer("RTS2RTS", "RTS", mask, v, done) /\ MaskValid("RTS2RTS", mask)
      BY <1>2, <2>1, <2>2, <2>8
    <3>2. Agrees("RTS2RTS", {"ALLOW_REMOTE_WRITE"} \cup IF "AH_ATTR" \in mask THEN {"SGID"} ELSE {},
                 {"MIN_RNR_TIMER", "ALLOW_REMOTE_READ", "ATOMIC_MODE"}, mask)
      BY <3>1, TablesAgree, Zenon
    <3>3. Command("RTS2RTS", "RTS", {"ALLOW_REMOTE_WRITE"} \cup IF "AH_ATTR" \in mask THEN {"SGID"} ELSE {},
                  {"MIN_RNR_TIMER", "ALLOW_REMOTE_READ", "ATOMIC_MODE"}, mask, v, done)
      BY <3>1 DEF Rts2Rts
    <3> QED BY <2>3, <3>1, <3>2, <3>3, CommandKeeps, Zenon
  <2>9. CASE t = "2ERR"
    BY <1>2, <2>1, <2>2, <2>9, Qp2ErrKeeps
  <2>10. CASE t = "2RST"
    BY <2>1, <2>2, <2>10, Qp2RstKeeps
  <2> QED BY <2>2, <2>4, <2>5, <2>6, <2>7, <2>8, <2>9, <2>10
<1> QED BY <1>1, <1>2

LEMMA QpNextHolds == QpInv /\ [QpNext]_qpVars => QpInv'
<1> SUFFICES ASSUME QpInv, [QpNext]_qpVars PROVE QpInv'
  OBVIOUS
<1>1. ASSUME NEW mask \in Masks, NEW v \in {0, 1}, NEW done \in BOOLEAN, NEW current, NEW next,
             Modify(mask, current, next, v, done)
      PROVE  QpInv'
  BY <1>1, ModifyKeeps
<1>2. CASE Query
  BY <1>2 DEF Query, QpInv, QpTypeOK, StateIsKnown, AttrsAsPromised, Clear
<1>3. CASE DeviceError
  BY <1>3 DEF DeviceError, QpInv, QpTypeOK, StateIsKnown, AttrsAsPromised, Clear, QpStates
<1>4. CASE UNCHANGED qpVars
  BY <1>4 DEF QpInv, QpTypeOK, StateIsKnown, AttrsAsPromised, Clear
<1> QED BY <1>1, <1>2, <1>3, <1>4 DEF QpNext

(* doca_verbs_qp_modify, for every set of masks it is called with: types,  *)
(* and the state a caller was told of is the device's unless the device    *)
(* has moved to ERR meanwhile ...                                          *)
THEOREM StateKnown == QpSpec => [](QpTypeOK /\ StateIsKnown)
<1>1. QpSpec => []QpInv
  BY QpInitHolds, QpNextHolds, PTL DEF QpSpec
<1>2. QpInv => QpTypeOK /\ StateIsKnown
  BY DEF QpInv
<1> QED BY <1>1, <1>2, PTL

(* ... and the context of the QP is what its successful calls asked for.   *)
THEOREM AttrsKept == QpSpec => []AttrsAsPromised
<1>1. QpSpec => []QpInv
  BY QpInitHolds, QpNextHolds, PTL DEF QpSpec
<1>2. QpInv => AttrsAsPromised
  BY DEF QpInv
<1> QED BY <1>1, <1>2, PTL

-----------------------------------------------------------------------------
(* The memory table.                                                       *)

LEMMA AcquiredBefore ==
  ASSUME NEW s \in Seq(Steps), NEW i \in 1 .. Len(s)
  PROVE  Acquired(SubSeq(s, 1, i - 1)) = {s[j] : j \in 1 .. i - 1} \cap Acquires
<1>1. /\ Len(SubSeq(s, 1, i - 1)) = i - 1
      /\ \A j \in 1 .. i - 1 : SubSeq(s, 1, i - 1)[j] = s[j]
  BY SubSeqProperties
<1> QED BY <1>1 DEF Acquired

LEMMA StepsOf ==
  /\ AllocSteps("GPU") = <<"cuda_malloc", "set_attr", "insert">>
  /\ gdr => AllocSteps("GPU_CPU") = <<"cuda_malloc", "set_attr", "mh", "pin", "map", "insert">>
  /\ ~gdr => AllocSteps("GPU_CPU") = <<"calloc", "register", "device_ptr", "insert">>
  /\ AllocSteps("CPU_GPU") = <<"calloc", "register", "device_ptr", "insert">>
BY DEF AllocSteps

LEMMA AcquiredBy ==
  /\ Acquired(<<"cuda_malloc", "set_attr", "insert">>) = {"cuda_malloc"}
  /\ Acquired(<<"cuda_malloc", "set_attr", "mh", "pin", "map", "insert">>) = {"cuda_malloc", "mh", "pin", "map"}
  /\ Acquired(<<"calloc", "register", "device_ptr", "insert">>) = {"calloc", "register"}
<1>1. Acquired(<<"cuda_malloc", "set_attr", "insert">>) = {"cuda_malloc"}
  BY DEF Acquired, Acquires
<1>2. Acquired(<<"cuda_malloc", "set_attr", "mh", "pin", "map", "insert">>) = {"cuda_malloc", "mh", "pin", "map"}
  BY DEF Acquired, Acquires
<1>3. Acquired(<<"calloc", "register", "device_ptr", "insert">>) = {"calloc", "register"}
  BY DEF Acquired, Acquires
<1> QED BY <1>1, <1>2, <1>3

(* What a failing step has acquired before it is what its error path gives *)
(* back, where that is complete and GDRCopy is used; and a mapping remains *)
(* only when the insertion fails.                                          *)
LEMMA ErrorPaths ==
  ASSUME NEW k \in Kinds, NEW i \in 1 .. Len(AllocSteps(k)), gdr \in BOOLEAN
  PROVE  LET step == AllocSteps(k)[i]
             left == Acquired(SubSeq(AllocSteps(k), 1, i - 1)) \ Undone(k, step)
         IN  /\ step \in Steps /\ left \subseteq Acquires
             /\ gdr /\ step \in Complete => left = {}
             /\ step # "insert" => left \cap {"mh", "pin", "map"} = {}
<1> DEFINE s == AllocSteps(k)
           step == s[i]
<1>1. /\ k = "GPU" => s = <<"cuda_malloc", "set_attr", "insert">>
      /\ k = "GPU_CPU" /\ gdr => s = <<"cuda_malloc", "set_attr", "mh", "pin", "map", "insert">>
      /\ k = "GPU_CPU" /\ ~gdr => s = <<"calloc", "register", "device_ptr", "insert">>
      /\ k = "CPU_GPU" => s = <<"calloc", "register", "device_ptr", "insert">>
  BY StepsOf
<1>2. s \in Seq(Steps)
  <2>1. /\ <<"cuda_malloc", "set_attr", "insert">> \in Seq(Steps)
        /\ <<"cuda_malloc", "set_attr", "mh", "pin", "map", "insert">> \in Seq(Steps)
        /\ <<"calloc", "register", "device_ptr", "insert">> \in Seq(Steps)
    BY DEF Steps
  <2> QED BY <1>1, <2>1 DEF Kinds
<1>3. Acquired(SubSeq(s, 1, i - 1)) = {s[j] : j \in 1 .. i - 1} \cap Acquires
  BY <1>2, AcquiredBefore
<1> HIDE DEF s
<1> USE DEF Undone, Acquires, Complete, Steps
<1>4. CASE k = "GPU"
  <2>1. s = <<"cuda_malloc", "set_attr", "insert">> /\ i \in 1 .. 3
    BY <1>1, <1>4 DEF s
  <2>2. CASE i = 1
    BY <1>3, <1>4, <2>1, <2>2 DEF s
  <2>3. CASE i = 2
    BY <1>3, <1>4, <2>1, <2>3 DEF s
  <2>4. CASE i = 3
    BY <1>3, <1>4, <2>1, <2>4 DEF s
  <2> QED BY <2>1, <2>2, <2>3, <2>4
<1>5. CASE k = "GPU_CPU" /\ gdr
  <2>1. s = <<"cuda_malloc", "set_attr", "mh", "pin", "map", "insert">> /\ i \in 1 .. 6
    BY <1>1, <1>5 DEF s
  <2>2. CASE i = 1
    BY <1>3, <1>5, <2>1, <2>2 DEF s
  <2>3. CASE i = 2
    BY <1>3, <1>5, <2>1, <2>3 DEF s
  <2>4. CASE i = 3
    BY <1>3, <1>5, <2>1, <2>4 DEF s
  <2>5. CASE i = 4
    BY <1>3, <1>5, <2>1, <2>5 DEF s
  <2>6. CASE i = 5
    BY <1>3, <1>5, <2>1, <2>6 DEF s
  <2>7. CASE i = 6
    BY <1>3, <1>5, <2>1, <2>7 DEF s
  <2> QED BY <2>1, <2>2, <2>3, <2>4, <2>5, <2>6, <2>7
<1>6. CASE k = "CPU_GPU" \/ (k = "GPU_CPU" /\ ~gdr)
  <2>1. s = <<"calloc", "register", "device_ptr", "insert">> /\ i \in 1 .. 4
    BY <1>1, <1>6 DEF s
  <2>2. CASE i = 1
    BY <1>3, <1>6, <2>1, <2>2 DEF s
  <2>3. CASE i = 2
    BY <1>3, <1>6, <2>1, <2>3 DEF s
  <2>4. CASE i = 3
    <3>0. /\ s[i] = "device_ptr"
          /\ Acquired(SubSeq(s, 1, i - 1)) \subseteq {"calloc", "register"}
      BY <1>3, <2>1, <2>4
    <3>1. CASE k = "CPU_GPU"
      BY <3>0, <3>1 DEF s
    <3>2. CASE k = "GPU_CPU"
      BY <1>6, <3>0, <3>2 DEF s
    <3> QED BY <1>6, <3>1, <3>2
  <2>5. CASE i = 4
    BY <1>3, <1>6, <2>1, <2>5 DEF s
  <2> QED BY <2>1, <2>2, <2>3, <2>4, <2>5
<1> QED BY <1>4, <1>5, <1>6 DEF Kinds

(* The inductive invariant: the table is that of the open handle, and the  *)
(* owner of an entry has what the allocation of its kind acquires.         *)
TableHolds ==
  /\ dev # "open" => table = {}
  /\ \A a \in table : held[a] = Acquired(AllocSteps(kind[a]))

(* Where GDRCopy can be opened, a device that is open uses it.             *)
GdrUsed ==
  LibLoads /\ ~EnvDisables => (tried => supported) /\ (dev = "open" => gdr)

(* What no failure and no free leaves behind, and what only an insertion   *)
(* that fails or the way without GDRCopy does.                             *)
MappingsBack == "insert" \notin MemFaults => lost \cap {"mh", "pin", "map"} = {}
MemoryBack == LibLoads /\ ~EnvDisables /\ failed \subseteq Complete => lost = {}

MemInv == MemTypeOK /\ TableHolds /\ GdrUsed /\ MappingsBack /\ MemoryBack

LEMMA AcquiredType ==
  ASSUME NEW k \in Kinds, gdr \in BOOLEAN
  PROVE  /\ Acquired(AllocSteps(k)) \subseteq Acquires
         /\ (Acquired(AllocSteps(k)) \ Released(k)) \cap {"mh", "pin", "map"} = {}
         /\ gdr => Acquired(AllocSteps(k)) \subseteq Released(k)
<1>1. CASE k = "GPU"
  BY <1>1, StepsOf, AcquiredBy DEF Released, Acquires
<1>2. CASE k = "GPU_CPU" /\ gdr
  BY <1>2, StepsOf, AcquiredBy DEF Released, Acquires
<1>3. CASE k = "GPU_CPU" /\ ~gdr
  BY <1>3, StepsOf, AcquiredBy DEF Released, Acquires
<1>4. CASE k = "CPU_GPU"
  BY <1>4, StepsOf, AcquiredBy DEF Released, Acquires
<1> QED BY <1>1, <1>2, <1>3, <1>4 DEF Kinds

LEMMA MemInitHolds == MemInit => MemInv
BY DEF MemInit, MemInv, MemTypeOK, TableHolds, GdrUsed, MappingsBack, MemoryBack, Kinds, Acquires, Steps

LEMMA HandleKeeps ==
  ASSUME MemInv, Create \/ CreateFails \/ Destroy
  PROVE  MemInv'
<1> USE GpuMemAssumption DEF MemInv
<1>1. MemTypeOK'
  <2>1. IsSupported \in BOOLEAN
    BY DEF MemTypeOK, IsSupported, IsSupportedOnce
  <2>2. CASE Create
    BY <2>1, <2>2 DEF MemTypeOK, Create
  <2>3. CASE CreateFails
    <3>1. tried => IsSupported = supported
      BY DEF IsSupported
    <3>2. CASE UNCHANGED <<tried, supported>>
      BY <2>3, <3>2 DEF MemTypeOK, CreateFails
    <3>3. CASE tried' = TRUE /\ supported' = IsSupported
      BY <2>1, <2>3, <3>1, <3>3 DEF MemTypeOK, CreateFails
    <3> QED BY <2>3, <3>2, <3>3 DEF CreateFails
  <2>4. CASE Destroy
    BY <2>4 DEF MemTypeOK, Destroy
  <2> QED BY <2>2, <2>3, <2>4
<1>2. TableHolds'
  BY DEF TableHolds, Create, CreateFails, Destroy, AllocSteps
<1>3. GdrUsed'
  BY DEF GdrUsed, Create, CreateFails, Destroy, IsSupported, IsSupportedOnce
<1>4. MappingsBack' /\ MemoryBack'
  BY DEF MappingsBack, MemoryBack, Create, CreateFails, Destroy
<1> QED BY <1>1, <1>2, <1>3, <1>4

LEMMA AllocKeeps ==
  ASSUME NEW a \in Addrs, NEW k \in Kinds, MemInv, Alloc(a, k)
  PROVE  MemInv'
<1> USE DEF MemInv
<1>1. /\ dev = "open" /\ table' = table \cup {a} /\ kind' = [kind EXCEPT ![a] = k]
      /\ held' = [held EXCEPT ![a] = Acquired(AllocSteps(k))]
      /\ UNCHANGED <<dev, tried, supported, gdr, lost, failed>>
  BY DEF Alloc
<1>2. Acquired(AllocSteps(k)) \subseteq Acquires
  BY AcquiredType DEF MemTypeOK
<1>3. MemTypeOK'
  BY <1>1, <1>2 DEF MemTypeOK
<1>4. \A j : AllocSteps(j)' = AllocSteps(j)
  BY <1>1 DEF AllocSteps
<1>5. TableHolds'
  <2> SUFFICES ASSUME NEW b \in table' PROVE (held[b] = Acquired(AllocSteps(kind[b])))'
    BY <1>1 DEF TableHolds
  <2>1. CASE b = a
    BY <1>1, <1>4, <2>1 DEF MemTypeOK
  <2>2. CASE b # a
    <3>1. b \in table /\ held'[b] = held[b] /\ kind'[b] = kind[b] /\ kind[b] \in Kinds
      BY <1>1, <2>2 DEF MemTypeOK
    <3> QED BY <1>4, <3>1 DEF TableHolds
  <2> QED BY <2>1, <2>2
<1>6. GdrUsed' /\ MappingsBack' /\ MemoryBack'
  BY <1>1 DEF GdrUsed, MappingsBack, MemoryBack
<1> QED BY <1>3, <1>5, <1>6

LEMMA AllocFailsKeeps ==
  ASSUME NEW k \in Kinds, MemInv, AllocFails(k)
  PROVE  MemInv'
<1> USE DEF MemInv
<1> PICK i \in 1 .. Len(AllocSteps(k)) :
      LET step == AllocSteps(k)[i]
      IN /\ step \in MemFaults
         /\ failed' = failed \cup {step}
         /\ lost' = lost \cup (Acquired(SubSeq(AllocSteps(k), 1, i - 1)) \ Undone(k, step))
  BY DEF AllocFails
<1> DEFINE step == AllocSteps(k)[i]
           left == Acquired(SubSeq(AllocSteps(k), 1, i - 1)) \ Undone(k, step)
<1>1. /\ step \in MemFaults /\ failed' = failed \cup {step} /\ lost' = lost \cup left
      /\ UNCHANGED <<dev, tried, supported, gdr, table, kind, held>>
  BY DEF AllocFails
<1>2. /\ step \in Steps /\ left \subseteq Acquires
      /\ gdr /\ step \in Complete => left = {}
      /\ step # "insert" => left \cap {"mh", "pin", "map"} = {}
  BY ErrorPaths DEF MemTypeOK
<1> HIDE DEF step, left
<1>3. MemTypeOK'
  BY <1>1, <1>2 DEF MemTypeOK
<1>4. TableHolds' /\ GdrUsed'
  BY <1>1 DEF TableHolds, GdrUsed, AllocSteps
<1>5. MappingsBack'
  BY <1>1, <1>2 DEF MappingsBack
<1>6. MemoryBack'
  <2>1. dev = "open"
    BY DEF AllocFails
  <2> QED BY <1>1, <1>2, <2>1 DEF MemoryBack, GdrUsed
<1> QED BY <1>3, <1>4, <1>5, <1>6

LEMMA FreeKeeps ==
  ASSUME NEW a \in Addrs, MemInv, Free(a)
  PROVE  MemInv'
<1> USE DEF MemInv
<1>1. /\ dev = "open" /\ a \in table /\ table' = table \ {a}
      /\ lost' = lost \cup (held[a] \ Released(kind[a]))
      /\ held' = [held EXCEPT ![a] = {}]
      /\ UNCHANGED <<dev, tried, supported, gdr, kind, failed>>
  BY DEF Free
<1>2. kind[a] \in Kinds /\ held[a] = Acquired(AllocSteps(kind[a]))
  BY <1>1 DEF MemTypeOK, TableHolds
<1>3. /\ held[a] \subseteq Acquires
      /\ (held[a] \ Released(kind[a])) \cap {"mh", "pin", "map"} = {}
      /\ gdr => held[a] \subseteq Released(kind[a])
  BY <1>2, AcquiredType DEF MemTypeOK
<1>4. MemTypeOK'
  BY <1>1, <1>3 DEF MemTypeOK
<1>5. TableHolds'
  BY <1>1 DEF TableHolds, AllocSteps, MemTypeOK
<1>6. GdrUsed' /\ MappingsBack'
  BY <1>1, <1>3 DEF GdrUsed, MappingsBack
<1>7. MemoryBack'
  BY <1>1, <1>3 DEF MemoryBack, GdrUsed
<1> QED BY <1>4, <1>5, <1>6, <1>7

LEMMA MemNextHolds == MemInv /\ [MemNext]_memVars => MemInv'
<1> SUFFICES ASSUME MemInv, [MemNext]_memVars PROVE MemInv'
  OBVIOUS
<1>1. ASSUME UNCHANGED <<devVars, table, kind, held, lost, failed>> PROVE MemInv'
  BY <1>1 DEF MemInv, MemTypeOK, TableHolds, GdrUsed, MappingsBack, MemoryBack, AllocSteps
<1>2. CASE \E a \in Addrs : FreeUnknown(a)
  BY <1>1, <1>2 DEF FreeUnknown
<1>3. CASE UNCHANGED memVars
  BY <1>1, <1>3
<1> QED BY <1>2, <1>3, HandleKeeps, AllocKeeps, AllocFailsKeeps, FreeKeeps DEF MemNext

(* doca_gpu_mem_alloc and doca_gpu_mem_free, with and without GDRCopy: the *)
(* table knows what is held, and unless the insertion into it fails no     *)
(* mapping, pin or handle of a pin is left behind.                         *)
THEOREM TableIsTrue ==
  MemSpec => [](MemTypeOK /\ TableHolds /\ MappingsBack)
<1>1. MemSpec => []MemInv
  BY MemInitHolds, MemNextHolds, PTL DEF MemSpec
<1>2. MemInv => MemTypeOK /\ TableHolds /\ MappingsBack
  BY DEF MemInv
<1> QED BY <1>1, <1>2, PTL

(* Every error path and every free of the memory table gives back all that *)
(* was taken, with two restrictions the code has: GDRCopy is there, or     *)
(* GPU_CPU memory would be passed to cudaFree, which does not own it, and  *)
(* entries can be inserted.                                                *)
THEOREM AllocationsReturned ==
  ASSUME LibLoads, ~EnvDisables, "insert" \notin MemFaults
  PROVE  MemSpec => []NothingLost
<1>1. MemSpec => []MemInv
  BY MemInitHolds, MemNextHolds, PTL DEF MemSpec
<1>2. MemInv => NothingLost
  BY DEF MemInv, MappingsBack, MemoryBack, NothingLost
<1> QED BY <1>1, <1>2, PTL

-----------------------------------------------------------------------------
(* The verbs objects.                                                      *)

Types == {"none", "sdk", "open"}
Given == {"uar", "umem"}
AllRes == {"attr", "buf", "umem", "uar", "obj"}
Parts == AllRes \cup {"sdk", "sdk_pd", "sdk_context", "handle"}

(* Where no wrapper finds the SDK every handle is an open one, and where   *)
(* all do only that of the SRQ, which has none.                            *)
OneKind ==
  /\ lib = {} => \A o \in Objects : handle[o] # "sdk"
  /\ lib = Wrappers /\ ~GpuUmem => \A o \in Objects \ {"srq"} : handle[o] # "open"
  /\ lib \in {{}, Wrappers} /\ ~GpuUmem => ~crashed

LEMMA PositionOf ==
  /\ Position("attr") = 1 /\ Position("obj") = 2 /\ Position("uar") = 3
  /\ Position("umem") = 4 /\ Position("buf") = 5
<1>1. \A r, k : k \in DOMAIN ReleaseOrder /\ ReleaseOrder[k] = r
               /\ (\A j \in DOMAIN ReleaseOrder : ReleaseOrder[j] = r => j = k) => Position(r) = k
  BY DEF Position
<1>2. DOMAIN ReleaseOrder = 1 .. 5
  BY DEF ReleaseOrder
<1>3. /\ ReleaseOrder[1] = "attr" /\ ReleaseOrder[2] = "obj" /\ ReleaseOrder[3] = "uar"
      /\ ReleaseOrder[4] = "umem" /\ ReleaseOrder[5] = "buf"
  BY DEF ReleaseOrder
<1>4. \A j \in 1 .. 5 : j = 1 \/ j = 2 \/ j = 3 \/ j = 4 \/ j = 5
  OBVIOUS
<1>5. Position("attr") = 1
  BY <1>1, <1>2, <1>3, <1>4
<1>6. Position("obj") = 2
  BY <1>1, <1>2, <1>3, <1>4
<1>7. Position("uar") = 3
  BY <1>1, <1>2, <1>3, <1>4
<1>8. Position("umem") = 4
  BY <1>1, <1>2, <1>3, <1>4
<1>9. Position("buf") = 5
  BY <1>1, <1>2, <1>3, <1>4
<1> QED BY <1>5, <1>6, <1>7, <1>8, <1>9

(* The stages of each kind of object, by what it is given.                 *)
LEMMA StagesAre ==
  ASSUME NEW x \in SUBSET Given
  PROVE  /\ Stages("cq", x) = IF "umem" \in x
                             THEN IF "uar" \in x THEN <<"attr", "obj">> ELSE <<"attr", "uar", "obj">>
                             ELSE IF "uar" \in x THEN <<"attr", "buf", "umem", "obj">>
                                  ELSE <<"attr", "buf", "umem", "uar", "obj">>
         /\ Stages("qp", x) = IF "umem" \in x
                             THEN IF "uar" \in x THEN <<"attr", "obj">> ELSE <<"attr", "uar", "obj">>
                             ELSE IF "uar" \in x THEN <<"attr", "buf", "umem", "obj">>
                                  ELSE <<"attr", "uar", "buf", "umem", "obj">>
         /\ Stages("srq", x) = IF "umem" \in x THEN <<"attr", "obj">> ELSE <<"attr", "buf", "umem", "obj">>
         /\ Stages("uar", x) = <<"uar">> /\ Stages("umem", x) = <<"umem">>
         /\ \A o \in Objects \ {"cq", "qp", "srq", "uar", "umem"} : Stages(o, x) = <<>>
  BY DEF Stages, CqStages, QpStages, SrqStages, GivenStages, UarStages, UmemStages, NoStages, Given

LEMMA StagesOf ==
  ASSUME NEW o \in Objects, NEW x \in SUBSET Given
  PROVE  Resources(Stages(o, x)) \subseteq AllRes
<1>1. ASSUME NEW t \in Seq(AllRes) PROVE Resources(t) \subseteq AllRes
  BY DEF Resources
<1>2. /\ <<"attr", "obj">> \in Seq(AllRes) /\ <<"attr", "uar", "obj">> \in Seq(AllRes)
      /\ <<"attr", "buf", "umem", "obj">> \in Seq(AllRes)
      /\ <<"attr", "buf", "umem", "uar", "obj">> \in Seq(AllRes)
      /\ <<"attr", "uar", "buf", "umem", "obj">> \in Seq(AllRes)
      /\ <<"uar">> \in Seq(AllRes) /\ <<"umem">> \in Seq(AllRes) /\ <<>> \in Seq(AllRes)
  BY DEF AllRes
<1>3. o \in {"cq", "qp", "srq", "uar", "umem"} \/ o \in Objects \ {"cq", "qp", "srq", "uar", "umem"}
  OBVIOUS
<1>4. Stages(o, x) \in Seq(AllRes)
  BY <1>2, <1>3, StagesAre
<1> QED BY <1>1, <1>4

(* Giving back in the order of destroy() keeps what the device still uses. *)
LEMMA KeptSound ==
  ASSUME NEW o \in Objects, NEW have \in SUBSET AllRes, NEW x \in SUBSET Given, NEW R, Sound(o, have, x)
  PROVE  /\ Kept(o, have, R) \subseteq have
         /\ Sound(o, Kept(o, have, R), x)
<1> DEFINE kept == Kept(o, have, R)
<1>1. kept \subseteq have
  BY DEF Kept
<1>2. ASSUME "obj" \in kept PROVE have \ {"attr"} \subseteq kept
  <2>1. PICK r \in R \cap have \cap Stops(o) : Position(r) <= Position("obj")
    BY <1>2 DEF Kept
  <2>2. r = "obj"
    BY <2>1, PositionOf DEF Stops
  <2>3. \A y \in have \ {"attr"} : Position("obj") <= Position(y)
    BY PositionOf DEF AllRes
  <2> QED BY <2>1, <2>2, <2>3 DEF Kept
<1>3. ASSUME "umem" \in kept, "buf" \in have PROVE "buf" \in kept
  <2>1. PICK r \in R \cap have \cap Stops(o) : Position(r) <= Position("umem")
    BY <1>3 DEF Kept
  <2>2. Position(r) <= Position("buf")
    BY <2>1, PositionOf DEF Stops
  <2> QED BY <1>3, <2>1, <2>2 DEF Kept
<1> HIDE DEF kept
<1>4. Sound(o, kept, x)
  BY <1>1, <1>2, <1>3 DEF Sound
<1> QED BY <1>1, <1>4 DEF kept

(* So do the other ways in which resources are left behind, and nothing is *)
(* where nothing was refused.                                              *)
LEMMA LeftSound ==
  ASSUME NEW o \in Objects, NEW have \in SUBSET AllRes, NEW x \in SUBSET Given, NEW R \in Refusals,
         Sound(o, have, x)
  PROVE  /\ LeftByCatch(o, have, R) \subseteq have
         /\ Sound(o, LeftByCatch(o, have, R), x)
         /\ R = {} => LeftByCatch(o, have, R) = {}
<1>1. /\ Kept(o, have, R) \subseteq have /\ Sound(o, Kept(o, have, R), x)
  BY KeptSound
<1>2. Forgotten(o, have, R) \subseteq have \cap {"uar"}
  BY DEF Forgotten, Stops, Refusals
<1>3. R = {} => Kept(o, have, R) = {} /\ Forgotten(o, have, R) = {}
  BY DEF Kept, Forgotten
<1> QED BY <1>1, <1>2, <1>3 DEF LeftByCatch, Sound

LEMMA DestroySound ==
  ASSUME NEW o \in Objects, NEW have \in SUBSET AllRes, NEW x \in SUBSET Given,
         NEW R \in Refusals, NEW R2 \in Refusals, Sound(o, have, x)
  PROVE  /\ LeftByDestroy(o, have, R, R2) \subseteq have
         /\ Sound(o, LeftByDestroy(o, have, R, R2), x)
         /\ R \cup R2 = {} => LeftByDestroy(o, have, R, R2) = {}
<1>1. /\ Kept(o, have, R) \subseteq have /\ Sound(o, Kept(o, have, R), x)
  BY KeptSound
<1>2. Kept(o, have, R) \in SUBSET AllRes
  BY <1>1
<1>3. /\ LeftByCatch(o, Kept(o, have, R), R2) \subseteq Kept(o, have, R)
      /\ Sound(o, LeftByCatch(o, Kept(o, have, R), R2), x)
      /\ R2 = {} => LeftByCatch(o, Kept(o, have, R), R2) = {}
  BY <1>1, <1>2, LeftSound
<1>4. Forgotten(o, have, R) \subseteq have \cap {"uar"}
  BY DEF Forgotten, Stops, Refusals
<1>5. R = {} => Forgotten(o, have, R) = {}
  BY DEF Forgotten
<1> QED BY <1>1, <1>3, <1>4, <1>5 DEF LeftByDestroy, Sound

(* A prefix of the stages has no object yet, and no registration without   *)
(* the memory it is of.                                                    *)
LEMMA PrefixSound ==
  ASSUME NEW o \in Objects, NEW x \in SUBSET Given, NEW i \in DOMAIN Stages(o, x)
  PROVE  LET have == Resources(SubSeq(Stages(o, x), 1, i - 1))
         IN  have \subseteq AllRes /\ Sound(o, have, x)
<1> DEFINE s == Stages(o, x)
           have == Resources(SubSeq(s, 1, i - 1))
<1>1. ASSUME NEW t \in Seq(AllRes), NEW j \in 1 .. Len(t)
      PROVE  Resources(SubSeq(t, 1, j - 1)) = {t[k] : k \in 1 .. j - 1}
  <2>1. /\ Len(SubSeq(t, 1, j - 1)) = j - 1
        /\ \A k \in 1 .. j - 1 : SubSeq(t, 1, j - 1)[k] = t[k]
        /\ SubSeq(t, 1, j - 1) \in Seq(AllRes)
    BY SubSeqProperties
  <2>2. DOMAIN SubSeq(t, 1, j - 1) = 1 .. j - 1
    BY <2>1
  <2> QED BY <2>1, <2>2 DEF Resources
<1>2. \A t \in Seq(AllRes) : s = t => have = {t[k] : k \in 1 .. i - 1} /\ i \in 1 .. Len(t)
  BY <1>1
<1>3. /\ <<"attr", "obj">> \in Seq(AllRes) /\ <<"attr", "uar", "obj">> \in Seq(AllRes)
      /\ <<"attr", "buf", "umem", "uar", "obj">> \in Seq(AllRes)
      /\ <<"attr", "uar", "buf", "umem", "obj">> \in Seq(AllRes)
      /\ <<"attr", "buf", "umem", "obj">> \in Seq(AllRes)
      /\ <<"uar">> \in Seq(AllRes) /\ <<"umem">> \in Seq(AllRes) /\ <<>> \in Seq(AllRes)
  BY DEF AllRes
<1> HIDE DEF s, have
<1>4. CASE s = <<"attr", "obj">>
  <2>1. have = {<<"attr", "obj">>[k] : k \in 1 .. i - 1} /\ i \in 1 .. 2
    BY <1>2, <1>3, <1>4
  <2>2. have \subseteq {"attr"}
    BY <2>1
  <2> QED BY <2>2 DEF Sound, AllRes, s, have
<1>9. CASE s = <<"attr", "uar", "obj">>
  <2>1. have = {<<"attr", "uar", "obj">>[k] : k \in 1 .. i - 1} /\ i \in 1 .. 3
    BY <1>2, <1>3, <1>9
  <2>2. have \subseteq {"attr", "uar"}
    BY <2>1
  <2> QED BY <2>2 DEF Sound, AllRes, s, have
<1>5. CASE s = <<"attr", "buf", "umem", "uar", "obj">>
  <2>1. have = {<<"attr", "buf", "umem", "uar", "obj">>[k] : k \in 1 .. i - 1} /\ i \in 1 .. 5
    BY <1>2, <1>3, <1>5
  <2>2. have \subseteq {"attr", "buf", "umem", "uar"} /\ ("umem" \in have => "buf" \in have)
    BY <2>1
  <2> QED BY <2>2 DEF Sound, AllRes, s, have
<1>6. CASE s = <<"attr", "uar", "buf", "umem", "obj">>
  <2>1. have = {<<"attr", "uar", "buf", "umem", "obj">>[k] : k \in 1 .. i - 1} /\ i \in 1 .. 5
    BY <1>2, <1>3, <1>6
  <2>2. have \subseteq {"attr", "buf", "umem", "uar"} /\ ("umem" \in have => "buf" \in have)
    BY <2>1
  <2> QED BY <2>2 DEF Sound, AllRes, s, have
<1>7. CASE s = <<"attr", "buf", "umem", "obj">>
  <2>1. have = {<<"attr", "buf", "umem", "obj">>[k] : k \in 1 .. i - 1} /\ i \in 1 .. 4
    BY <1>2, <1>3, <1>7
  <2>2. have \subseteq {"attr", "buf", "umem", "uar"} /\ ("umem" \in have => "buf" \in have)
    BY <2>1
  <2> QED BY <2>2 DEF Sound, AllRes, s, have
<1>8. CASE s \in {<<"uar">>, <<"umem">>, <<>>}
  <2>1. ASSUME NEW t \in Seq(AllRes), s = t, Len(t) \in {0, 1} PROVE have = {}
    <3>1. have = {t[k] : k \in 1 .. i - 1} /\ i = 1
      BY <1>2, <2>1
    <3> QED BY <3>1
  <2>2. Len(<<"uar">>) = 1 /\ Len(<<"umem">>) = 1 /\ Len(<<>>) = 0
    OBVIOUS
  <2>3. have = {}
    BY <1>3, <1>8, <2>1, <2>2
  <2> QED BY <2>3 DEF Sound, AllRes, s, have
<1>10. o \in {"cq", "qp", "srq", "uar", "umem"} \/ o \in Objects \ {"cq", "qp", "srq", "uar", "umem"}
  OBVIOUS
<1> QED BY <1>4, <1>5, <1>6, <1>7, <1>8, <1>9, <1>10, StagesAre DEF s

(* What all states have in common, object by object and loss by loss.      *)
ObjectOk(o) ==
  /\ handle[o] = "none" => res[o] = {}
  /\ handle[o] = "sdk" => res[o] = SdkParts(o)
  /\ handle[o] = "open" => res[o] \subseteq Resources(Stages(o, ext[o]))
  /\ Sound(o, res[o], ext[o])

LossOk(l) ==
  /\ l.of \in Objects /\ l.left \subseteq Parts
  /\ Sound(l.of, l.left, l.ext)
  /\ l.refused \/ l.left = {"handle"}

Typed ==
  /\ lib \subseteq Wrappers /\ pd_set \in BOOLEAN /\ crashed \in BOOLEAN
  /\ handle \in [Objects -> Types] /\ ext \in [Objects -> SUBSET Given]
  /\ res \in [Objects -> SUBSET Parts]

ObjInv ==
  /\ Typed
  /\ \A o \in Objects : ObjectOk(o)
  /\ \A l \in leaked : LossOk(l)
  /\ OneKind

LEMMA LoseKeeps ==
  ASSUME NEW o \in Objects, NEW left \in SUBSET Parts, NEW x, NEW refusals, Lose(o, x, left, refusals),
         Sound(o, left, x), left = {} \/ refusals # {} \/ left = {"handle"}
  PROVE  \A l \in leaked' : LossOk(l)
<1>1. CASE left = {}
  BY <1>1 DEF Lose
<1>2. CASE left # {}
  <2> DEFINE loss == [of |-> o, left |-> left, ext |-> x, refused |-> refusals # {}]
  <2>1. leaked' = {loss}
    BY <1>2 DEF Lose
  <2>2. LossOk(loss)
    BY <1>2 DEF LossOk
  <2> QED BY <2>1, <2>2
<1> QED BY <1>1, <1>2

LEMMA ObjInitHolds == ObjInit => ObjInv
<1> SUFFICES ASSUME ObjInit PROVE ObjInv
  OBVIOUS
<1>1. Typed
  BY DEF ObjInit, Typed, Types
<1>2. \A o \in Objects : ObjectOk(o)
  BY DEF ObjInit, ObjectOk, Sound
<1>3. OneKind
  BY DEF ObjInit, OneKind
<1> QED BY <1>1, <1>2, <1>3 DEF ObjInv, ObjInit

LEMMA CreateSdkKeeps ==
  ASSUME NEW o \in Objects, ObjInv, CreateSdk(o)
  PROVE  ObjInv'
<1> USE DEF ObjInv
<1>1. /\ handle' = [handle EXCEPT ![o] = "sdk"] /\ res' = [res EXCEPT ![o] = SdkParts(o)]
      /\ ext' = [ext EXCEPT ![o] = {}]
      /\ UNCHANGED <<lib, pd_set, leaked, crashed>>
      /\ WrapperOf(o) \in lib
  BY DEF CreateSdk, Created, SdkReached
<1>2. SdkParts(o) \subseteq Parts \ {"obj", "umem"}
  BY DEF SdkParts, Parts, AllRes
<1>3. Typed'
  BY <1>1, <1>2 DEF Typed, Types, Given
<1>4. ASSUME NEW p \in Objects PROVE ObjectOk(p)'
  <2>1. CASE p = o
    BY <1>1, <1>2, <2>1 DEF ObjectOk, Typed, Sound
  <2>2. CASE p # o
    BY <1>1, <2>2 DEF ObjectOk, Typed
  <2> QED BY <2>1, <2>2
<1>5. (\A l \in leaked : LossOk(l))'
  BY <1>1 DEF LossOk
<1>6. OneKind'
  BY <1>1 DEF OneKind, Typed
<1> QED BY <1>3, <1>4, <1>5, <1>6

LEMMA RefusedKeeps ==
  ASSUME NEW o \in Objects, NEW R \in SUBSET {"sdk", "sdk_pd"}, ObjInv,
         CreateSdkRefused(o, R) \/ OpenInvalid(o)
  PROVE  ObjInv'
<1> USE DEF ObjInv
<1>1. UNCHANGED <<lib, handle, res, ext, pd_set, crashed>>
  BY DEF CreateSdkRefused, OpenInvalid
<1>2. Typed' /\ (\A p \in Objects : ObjectOk(p))' /\ OneKind'
  BY <1>1 DEF Typed, ObjectOk, OneKind
<1>3. CASE CreateSdkRefused(o, R)
  <2>1. Sound(o, R, {}) /\ R \in SUBSET Parts
    BY DEF Sound, Parts
  <2>2. \A l \in leaked' : LossOk(l)
    BY <1>3, <2>1, LoseKeeps DEF CreateSdkRefused
  <2> QED BY <1>2, <2>2 DEF LossOk
<1>4. CASE OpenInvalid(o)
  <2>1. Sound(o, {"handle"}, {}) /\ {"handle"} \in SUBSET Parts
    BY DEF Sound, Parts
  <2>2. \A l \in leaked' : LossOk(l)
    BY <1>4, <2>1, LoseKeeps DEF OpenInvalid
  <2> QED BY <1>2, <2>2 DEF LossOk
<1> QED BY <1>3, <1>4

(* Where all wrappers find the SDK or none does, the open implementation   *)
(* is reached with open objects only.                                      *)
LEMMA CrashKeeps ==
  ASSUME NEW o \in Objects, ObjInv, OpenCrash(o)
  PROVE  ObjInv'
<1> USE DEF ObjInv
<1>1. /\ crashed' = TRUE /\ UNCHANGED <<lib, handle, res, ext, pd_set, leaked>>
      /\ OpenReached(o) /\ NullDevice(o)
  BY DEF OpenCrash
<1>2. Typed' /\ (\A p \in Objects : ObjectOk(p))' /\ (\A l \in leaked : LossOk(l))'
  BY <1>1 DEF Typed, ObjectOk, LossOk
<1>3. ~(lib = {})
  BY <1>1 DEF NullDevice, OneKind, Objects
<1>4. GpuUmem \/ lib # Wrappers
  <2> SUFFICES ASSUME ~GpuUmem, lib = Wrappers PROVE FALSE
    OBVIOUS
  <2>1. o \in {"uar", "umem", "cq", "qp"} /\ handle["dev"] = "sdk"
    BY <1>1 DEF NullDevice
  <2>2. ~SdkReached(o)
    BY <1>1 DEF OpenReached, FallsBack
  <2>3. o \in {"cq", "qp"} => handle[AttrOf(o)] \notin {"none", "open"}
    BY <1>1 DEF OpenReached, Ready, AttrOf, OneKind, Objects
  <2>4. o \in {"cq", "qp"} => handle[AttrOf(o)] = "sdk"
    BY <2>3 DEF Typed, Types, AttrOf, Objects
  <2> QED BY <2>1, <2>2, <2>4 DEF SdkReached, WrapperOf, Wrappers
<1>5. OneKind'
  BY <1>1, <1>3, <1>4 DEF OneKind
<1> QED BY <1>2, <1>5

LEMMA OpenCreateKeeps ==
  ASSUME NEW o \in Objects, NEW x \in SUBSET MayBeGiven(o), ObjInv, OpenCreate(o, x)
  PROVE  ObjInv'
<1> USE DEF ObjInv
<1> DEFINE have == Resources(Stages(o, x))
<1>1. /\ handle' = [handle EXCEPT ![o] = "open"] /\ res' = [res EXCEPT ![o] = have]
      /\ ext' = [ext EXCEPT ![o] = x]
      /\ UNCHANGED <<lib, pd_set, leaked, crashed>>
      /\ OpenAccepts(o) /\ (o = "qp" => handle["cq"] = "open")
  BY DEF OpenCreate, Created
<1>2. x \in SUBSET Given
  BY DEF MayBeGiven, Given
<1>3. have \subseteq Resources(Stages(o, x)) /\ Sound(o, have, x) /\ have \subseteq Parts
  <2>1. "umem" \in have => o = "umem" \/ "buf" \in have
    BY <1>2, StagesAre, o \in Objects DEF Resources, Objects
  <2> QED BY <1>2, <2>1, StagesOf DEF Sound, Parts
<1> HIDE DEF have
<1>4. Typed'
  BY <1>1, <1>2, <1>3 DEF Typed, Types
<1>5. ASSUME NEW p \in Objects PROVE ObjectOk(p)'
  <2>1. CASE p = o
    BY <1>1, <1>3, <2>1 DEF ObjectOk, Typed
  <2>2. CASE p # o
    BY <1>1, <2>2 DEF ObjectOk, Typed
  <2> QED BY <2>1, <2>2
<1>6. (\A l \in leaked : LossOk(l))'
  BY <1>1 DEF LossOk
<1>7. ~GpuUmem /\ lib = Wrappers => o = "srq"
  <2> SUFFICES ASSUME ~GpuUmem, lib = Wrappers, o # "srq" PROVE FALSE
    OBVIOUS
  <2>1. ~SdkReached(o)
    BY <1>1 DEF OpenAccepts, OpenReached, FallsBack
  <2>2. WrapperOf(o) \in lib
    BY DEF WrapperOf, Wrappers, Objects
  <2>3. o \in {"uar", "umem", "cq", "qp"} => handle["dev"] = "sdk"
    BY <1>1 DEF OpenAccepts, OpenReached, Ready, OneKind, Typed, Types, Objects
  <2>4. o \in {"cq", "qp"} => handle[AttrOf(o)] = "sdk"
    BY <1>1 DEF OpenAccepts, OpenReached, Ready, OneKind, Typed, Types, Objects, AttrOf
  <2> QED BY <2>1, <2>2, <2>3, <2>4 DEF SdkReached
<1>8. OneKind'
  BY <1>1, <1>7 DEF OneKind, Typed
<1> QED BY <1>4, <1>5, <1>6, <1>8

LEMMA OpenCreateFailsKeeps ==
  ASSUME NEW o \in Objects, NEW x \in SUBSET MayBeGiven(o), NEW R \in Refusals, ObjInv,
         OpenCreateFails(o, x, R)
  PROVE  ObjInv'
<1> USE DEF ObjInv
<1> PICK i \in DOMAIN Stages(o, x) :
      Lose(o, x, LeftByCatch(o, Resources(SubSeq(Stages(o, x), 1, i - 1)), R), R)
  BY DEF OpenCreateFails
<1> DEFINE have == Resources(SubSeq(Stages(o, x), 1, i - 1))
<1>1. UNCHANGED <<lib, handle, res, ext, pd_set, crashed>>
  BY DEF OpenCreateFails
<1>2. x \in SUBSET Given
  BY DEF MayBeGiven, Given
<1>3. have \in SUBSET AllRes /\ Sound(o, have, x)
  BY <1>2, PrefixSound
<1> HIDE DEF have
<1>4. /\ LeftByCatch(o, have, R) \subseteq have
      /\ Sound(o, LeftByCatch(o, have, R), x)
      /\ R = {} => LeftByCatch(o, have, R) = {}
  BY <1>2, <1>3, LeftSound
<1>5. \A l \in leaked' : LossOk(l)
  <2>1. LeftByCatch(o, have, R) \in SUBSET Parts
    BY <1>3, <1>4 DEF Parts
  <2> QED BY <1>4, <2>1, LoseKeeps DEF have
<1>6. Typed' /\ (\A p \in Objects : ObjectOk(p))' /\ OneKind'
  BY <1>1 DEF Typed, ObjectOk, OneKind
<1> QED BY <1>5, <1>6 DEF LossOk

(* An object that is gone holds nothing, and its loss is accounted for.    *)
LEMMA GoneKeeps ==
  ASSUME NEW o \in Objects, ObjInv, Gone(o), \A l \in leaked' : LossOk(l)
  PROVE  ObjInv'
<1> USE DEF ObjInv
<1>1. /\ handle' = [handle EXCEPT ![o] = "none"] /\ res' = [res EXCEPT ![o] = {}]
      /\ ext' = [ext EXCEPT ![o] = {}]
      /\ pd_set' = (pd_set /\ o # "qp_attr") /\ UNCHANGED <<lib, crashed>>
  BY DEF Gone
<1>2. Typed'
  BY <1>1 DEF Typed, Types, Given
<1>3. ASSUME NEW p \in Objects PROVE ObjectOk(p)'
  <2>1. CASE p = o
    BY <1>1, <2>1 DEF ObjectOk, Typed, Sound
  <2>2. CASE p # o
    BY <1>1, <2>2 DEF ObjectOk, Typed
  <2> QED BY <2>1, <2>2
<1>4. OneKind'
  BY <1>1 DEF OneKind, Typed
<1> QED BY <1>2, <1>3, <1>4 DEF LossOk

LEMMA DestroySdkKeeps ==
  ASSUME NEW o \in Objects, NEW R \in SUBSET SdkParts("dev"), ObjInv, DestroySdk(o, R)
  PROVE  ObjInv'
<1>1. Sound(o, R \cap SdkParts(o), {}) /\ R \cap SdkParts(o) \in SUBSET Parts
  BY DEF Sound, SdkParts, Parts
<1>2. R \cap SdkParts(o) = {} \/ R # {}
  OBVIOUS
<1>3. Lose(o, {}, R \cap SdkParts(o), R) /\ Gone(o)
  BY DEF DestroySdk
<1>4. \A l \in leaked' : LossOk(l)
  BY <1>1, <1>2, <1>3, LoseKeeps
<1> QED BY <1>3, <1>4, GoneKeeps

LEMMA DestroyOpenKeeps ==
  ASSUME NEW o \in Objects, NEW R \in Refusals, NEW R2 \in Refusals, ObjInv, DestroyOpen(o, R, R2)
  PROVE  ObjInv'
<1> DEFINE left == LeftByDestroy(o, res[o], R, R2)
<1>1. Lose(o, ext[o], left, R \cup R2) /\ Gone(o) /\ handle[o] = "open"
  BY DEF DestroyOpen
<1>2. /\ res[o] \in SUBSET AllRes /\ ext[o] \in SUBSET Given
      /\ Sound(o, res[o], ext[o])
  BY <1>1, StagesOf DEF ObjInv, ObjectOk, Typed
<1>3. /\ left \subseteq res[o] /\ Sound(o, left, ext[o])
      /\ R \cup R2 = {} => left = {}
  BY <1>2, DestroySound
<1> HIDE DEF left
<1>4. left \in SUBSET Parts
  BY <1>2, <1>3 DEF Parts
<1>5. \A l \in leaked' : LossOk(l)
  BY <1>1, <1>2, <1>3, <1>4, LoseKeeps
<1> QED BY <1>1, <1>5, GoneKeeps

LEMMA DestroySrqKeeps ==
  ASSUME NEW R \in Refusals, ObjInv, DestroySrq(R)
  PROVE  ObjInv'
<1> DEFINE kept == Kept("srq", res["srq"], R)
<1>1. CASE kept = {}
  <2>1. Gone("srq") /\ UNCHANGED leaked
    BY <1>1 DEF DestroySrq
  <2>2. \A l \in leaked' : LossOk(l)
    BY <2>1 DEF ObjInv
  <2> QED BY <2>1, <2>2, GoneKeeps DEF Objects
<1>2. CASE kept # {}
  <2> USE DEF ObjInv
  <2>1. /\ res' = [res EXCEPT !["srq"] = kept] /\ handle["srq"] = "open"
        /\ UNCHANGED <<lib, handle, ext, pd_set, leaked, crashed>>
    BY <1>2 DEF DestroySrq
  <2>2. /\ res["srq"] \in SUBSET AllRes /\ ext["srq"] \in SUBSET Given
        /\ res["srq"] \subseteq Resources(Stages("srq", ext["srq"])) /\ Sound("srq", res["srq"], ext["srq"])
    BY <2>1, StagesOf DEF ObjectOk, Typed, Objects
  <2>3. kept \subseteq res["srq"] /\ Sound("srq", kept, ext["srq"])
    BY <2>2, KeptSound DEF Objects
  <2> HIDE DEF kept
  <2>4. Typed'
    BY <2>1, <2>2, <2>3 DEF Typed, Parts
  <2>5. ASSUME NEW p \in Objects PROVE ObjectOk(p)'
    <3>1. CASE p = "srq"
      BY <2>1, <2>2, <2>3, <3>1 DEF ObjectOk, Typed
    <3>2. CASE p # "srq"
      BY <2>1, <3>2 DEF ObjectOk, Typed
    <3> QED BY <3>1, <3>2
  <2>6. OneKind' /\ (\A l \in leaked : LossOk(l))'
    BY <2>1 DEF OneKind, LossOk
  <2> QED BY <2>4, <2>5, <2>6
<1> QED BY <1>1, <1>2

LEMMA ObjNextHolds == ObjInv /\ [ObjNext]_objVars => ObjInv'
<1> SUFFICES ASSUME ObjInv, [ObjNext]_objVars PROVE ObjInv'
  OBVIOUS
<1>1. CASE SetPd
  BY <1>1 DEF SetPd, ObjInv, Typed, ObjectOk, LossOk, OneKind
<1>2. CASE UNCHANGED objVars
  BY <1>2 DEF ObjInv, Typed, ObjectOk, LossOk, OneKind
<1>3. CASE \E o \in Objects : CreateSdk(o) \/ OpenCrash(o) \/ OpenInvalid(o)
  <2>1. {} \in SUBSET {"sdk", "sdk_pd"}
    OBVIOUS
  <2> QED BY <1>3, <2>1, CreateSdkKeeps, CrashKeeps, RefusedKeeps
<1>4. ASSUME NEW o \in Objects, NEW R \in SUBSET {"sdk", "sdk_pd"}, CreateSdkRefused(o, R) PROVE ObjInv'
  BY <1>4, RefusedKeeps
<1>5. ASSUME NEW o \in Objects, NEW R \in SUBSET SdkParts("dev"), DestroySdk(o, R) PROVE ObjInv'
  BY <1>5, DestroySdkKeeps
<1>6. ASSUME NEW o \in Objects, NEW x \in SUBSET MayBeGiven(o), OpenCreate(o, x) PROVE ObjInv'
  BY <1>6, OpenCreateKeeps
<1>7. ASSUME NEW o \in Objects, NEW x \in SUBSET MayBeGiven(o), NEW R \in Refusals,
             OpenCreateFails(o, x, R)
      PROVE  ObjInv'
  BY <1>7, OpenCreateFailsKeeps
<1>8. ASSUME NEW o \in Objects, NEW R \in Refusals, NEW R2 \in Refusals, DestroyOpen(o, R, R2) PROVE ObjInv'
  BY <1>8, DestroyOpenKeeps
<1>9. ASSUME NEW R \in Refusals, DestroySrq(R) PROVE ObjInv'
  BY <1>9, DestroySrqKeeps
<1> QED BY <1>1, <1>2, <1>3, <1>4, <1>5, <1>6, <1>7, <1>8, <1>9 DEF ObjNext

LEMMA ObjInvariance == ObjSpec => []ObjInv
BY ObjInitHolds, ObjNextHolds, PTL DEF ObjSpec

(* Type correctness: a handle holds parts of its own implementation.       *)
THEOREM ObjectsTyped == ObjSpec => []ObjTypeOK
<1>1. ObjInv => ObjTypeOK
  <2> SUFFICES ASSUME ObjInv PROVE ObjTypeOK
    OBVIOUS
  <2>1. ASSUME NEW o \in Objects
        PROVE  CASE handle[o] = "none" -> res[o] = {}
                 [] handle[o] = "sdk" -> res[o] = SdkParts(o)
                 [] OTHER -> res[o] \subseteq Resources(Stages(o, ext[o]))
    <3>1. ObjectOk(o) /\ handle[o] \in Types
      BY DEF ObjInv, Typed
    <3> QED BY <3>1 DEF ObjectOk, Types
  <2> QED BY <2>1 DEF ObjInv, Typed, ObjTypeOK, Given
<1> QED BY <1>1, ObjInvariance, PTL

(* Whatever stage of a creation failed and whatever the device refused to  *)
(* release, in any order of calls: the memory and the registration that a  *)
(* DevX object was created with outlive it, also where both are lost.      *)
THEOREM MemoryLive == ObjSpec => []DeviceMemoryLive
<1>1. ObjInv => DeviceMemoryLive
  BY DEF ObjInv, ObjectOk, LossOk, DeviceMemoryLive
<1> QED BY <1>1, ObjInvariance, PTL

(* Creation and destruction lose only what the device or the SDK refused   *)
(* to release, and the memory of a handle on two early returns.            *)
THEOREM GivenBack == ObjSpec => []AllGivenBack
<1>1. ObjInv => AllGivenBack
  BY DEF ObjInv, LossOk, AllGivenBack
<1> QED BY <1>1, ObjInvariance, PTL

(* Where all wrappers find the SDK or none does, doca_verbs_*_create never *)
(* follows the null open pointer of a device of the SDK.                   *)
THEOREM DevicesMatch ==
  ASSUME ~GpuUmem PROVE ObjSpec => []NoNullDevice
<1>1. ObjInv => NoNullDevice
  BY DEF ObjInv, OneKind, NoNullDevice
<1> QED BY <1>1, ObjInvariance, PTL

-----------------------------------------------------------------------------
(* Their attributes.                                                       *)

(* The inductive invariant: types; what each origin implies; the value is  *)
(* the one asked for unless a setter of the SDK failed half way; and what  *)
(* was taken or read stays as it was, whatever becomes of the object.      *)
AttrInv ==
  /\ attr \in AllAttrs /\ sys.dev \in {"sdk", "open"}
  /\ attr_type \in {"none", "sdk", "open"}
  /\ value \in Values /\ asked \in Values
  /\ taken \in [got : Values, asked : Values]
  /\ half \in BOOLEAN /\ null_used \in BOOLEAN
  /\ attr_type = "open" /\ value # 0 =>
       /\ attr \in ModAtomics => PowerOfTwo(value)
       /\ attr \in {<<"init", "core_direct_master">>, <<"cq", "cq_collapsed">>, <<"srq", "type">>} => value = 1
  /\ attr_type = "none" => value = 0 /\ asked = 0
  /\ attr_type = "sdk" => Found
  /\ attr_type = "open" /\ attr \in InitSdkOnly => value = 0
  /\ half => attr_type = "sdk" /\ attr \in CallsTwice
  /\ ~half => value = asked
  /\ ~OtherAddress => taken.got = taken.asked
  /\ NullSafe

(* What a wrapper calls without looking is looked up, and required.         *)
LEMMA WrappedIsRequired ==
  Wrapped \ (WrappedOptional \cup {<<"cq", "cq_collapsed">>}) \subseteq Required \cap Symbols
<1>1. WrappedObjects \cup WrappedSizes \cup WrappedExternal \subseteq (InitSymbols \ WrappedOptional)
  BY DEF WrappedObjects, WrappedSizes, WrappedExternal, InitSymbols, InitAttrs, InitOpenOnly, InitObjects,
         InitSizes, InitLimits, InitExternal, InitModes, WrappedOptional
<1>2. WrappedStates \cup WrappedAccess \cup WrappedPath \subseteq ModSymbols
  BY DEF WrappedStates, WrappedAccess, WrappedPath, ModSymbols, ModAttrs, ModStates, ModNumbers, ModAccess,
         ModPath, ModTimers, ModAtomics, ModOpenOnly
<1>3. WrappedAh \subseteq AhSymbols /\ WrappedCq \subseteq CqSymbols
  BY DEF WrappedAh, AhSymbols, WrappedCq, CqSymbols
<1>4. WrappedReads \subseteq ReadSymbols
  BY DEF WrappedReads, ReadSymbols, WrappedQpReads, WrappedCqReads, WrappedUarReads, WrappedUmemReads,
         QpReadSymbols, UarReadSymbols, UmemReadSymbols
<1> QED BY <1>1, <1>2, <1>3, <1>4 DEF Wrapped, Required, Symbols, QpRequired, CqRequired

(* So no wrapper an object of the SDK reaches calls through a null pointer. *)
LEMMA ReachesResolved == Found /\ Reaches => Resolved
BY WrappedIsRequired DEF Reaches, Resolved, Found

(* The setters that call twice set attributes nobody can read.             *)
LEMMA TwiceUnread == Gettable \cap CallsTwice = {}
BY DEF Gettable, CallsTwice, InitSdkOnly, InitOpenOnly, InitUntyped, SrqAttrs, Reads, QpReads, CqReads,
       UarReads, UmemReads

(* Every attribute of an open object is copied where it is taken, but the  *)
(* one that an open object refuses.                                        *)
LEMMA AllCopied == AllAttrs \ Reads \subseteq Copied \cup InitSdkOnly
BY DEF AllAttrs, Copied, QpCopies, CqCopies, AhCopies, SrqCopies, InitSdkOnly

(* What only getters read is checked by no setter.                         *)
LEMMA ReadsApart ==
  Reads \cap (ModAtomics \cup InitSdkOnly
             \cup {<<"init", "core_direct_master">>, <<"cq", "cq_collapsed">>, <<"srq", "type">>}) = {}
BY DEF Reads, QpReads, CqReads, UarReads, UmemReads, ModAtomics, InitSdkOnly

LEMMA AttrInitHolds == AttrInit => AttrInv
<1> SUFFICES ASSUME AttrInit PROVE AttrInv
  OBVIOUS
<1>1. sys.dev \in {"sdk", "open"}
  BY DEF AttrInit
<1>2. taken \in [got : Values, asked : Values] /\ taken.got = taken.asked
  BY ValuesAssumption DEF AttrInit
<1> QED BY <1>1, <1>2, ValuesAssumption DEF AttrInit, AttrInv, NullSafe

LEMMA AttrNextHolds == AttrInv /\ [AttrNext]_attrVars => AttrInv'
<1> SUFFICES ASSUME AttrInv, [AttrNext]_attrVars PROVE AttrInv'
  OBVIOUS
<1> USE ValuesAssumption
<1>1. UNCHANGED <<attr, sys>> => (Found' <=> Found) /\ (OtherAddress' <=> OtherAddress) /\ (Kind' = Kind)
  BY DEF Found, OtherAddress, Kind
<1>2. CASE CreateAttr
  BY <1>1, <1>2 DEF CreateAttr, AttrInv, NullSafe, SdkCreates
<1>3. CASE GetAttr
  <2>1. attr_type = "sdk" => Resolved
    BY <1>3, ReachesResolved DEF GetAttr, Readable, AttrInv
  <2>2. ~half /\ value = asked
    BY <1>3, TwiceUnread DEF GetAttr, AttrInv
  <2> QED BY <1>1, <1>3, <2>1, <2>2 DEF GetAttr, AttrInv, NullSafe
<1>4. CASE TakeAttr
  <2>1. TakerType = attr_type
    <3>1. ASSUME Kind = "ah", TakerType = "open", attr_type # "open" PROVE FALSE
      <4>1. ~Found
        BY <3>1 DEF TakerType
      <4> QED BY <1>4, <3>1, <4>1 DEF TakeAttr, AttrInv
    <3> QED BY <1>4, <3>1 DEF TakeAttr
  <2>2. attr_type = "sdk" \/ attr \in Copied \/ value = 0
    BY <1>4, AllCopied DEF TakeAttr, AttrInv
  <2> QED BY <1>1, <1>4, <2>1, <2>2 DEF TakeAttr, AttrInv, NullSafe
<1>5. CASE DestroyAttr
  BY <1>1, <1>5 DEF DestroyAttr, AttrInv, NullSafe
<1>6. ASSUME NEW v \in Values, CreateObject(v) PROVE AttrInv'
  <2>1. attr \notin ModAtomics \cup InitSdkOnly
                 \cup {<<"init", "core_direct_master">>, <<"cq", "cq_collapsed">>, <<"srq", "type">>}
    BY <1>6, ReadsApart DEF CreateObject
  <2> QED BY <1>1, <1>6, <2>1 DEF CreateObject, AttrInv, NullSafe
<1>7. ASSUME NEW v \in Values, SetSdk(v) PROVE AttrInv'
  <2>1. Resolved
    BY <1>7, ReachesResolved DEF SetSdk, AttrInv
  <2> QED BY <1>1, <1>7, <2>1 DEF SetSdk, AttrInv, NullSafe
<1>8. ASSUME NEW v \in Values, SetOpen(v) PROVE AttrInv'
  BY <1>1, <1>8 DEF SetOpen, AttrInv, NullSafe, Accepts, OpenTakes
<1>9. ASSUME NEW v \in Values, SetUntyped(v) PROVE AttrInv'
  BY <1>1, <1>9 DEF SetUntyped, AttrInv, NullSafe
<1>10. CASE UNCHANGED attrVars
  BY <1>1, <1>10 DEF AttrInv, NullSafe
<1> QED BY <1>2, <1>3, <1>4, <1>5, <1>6, <1>7, <1>8, <1>9, <1>10 DEF AttrNext

LEMMA AttrInvariance == AttrSpec => []AttrInv
BY AttrInitHolds, AttrNextHolds, PTL DEF AttrSpec

(* Type correctness of the attribute objects; an open one never holds a    *)
(* value that its setter refuses.                                          *)
THEOREM AttrsTyped == AttrSpec => []AttrTypeOK
<1>1. AttrInv => AttrTypeOK
  BY DEF AttrInv, AttrTypeOK
<1> QED BY <1>1, AttrInvariance, PTL

(* Whatever libraries and symbols there are: setters, getters and takers   *)
(* of attributes call and follow no null pointer but the one of the SRQ.   *)
THEOREM NullNotUsed == AttrSpec => []NullSafe
<1>1. AttrInv => NullSafe
  BY DEF AttrInv
<1> QED BY <1>1, AttrInvariance, PTL

(* What is taken or read has the value the caller was last told is set.    *)
THEOREM TakenAsAsked == AttrSpec => []TakenIsAsked
<1>1. AttrInv => TakenIsAsked
  BY DEF AttrInv, TakenIsAsked
<1> QED BY <1>1, AttrInvariance, PTL

-----------------------------------------------------------------------------
(* The recovery of a QP.                                                   *)

(* What PollsTrueWhileCounted asks for; both hold or not for an epoch.     *)
Counted == earlier = 0 /\ FillerTold

Fresh == IF resets = 0 THEN Invalid ELSE Filler
Completion(j) ==
  [owner |-> OwnerBit(j + cqe_rsvd), counter |-> j % IdxMod, error |-> ~(j < nic_ok)]

(* The CQ holds the last completions of the epoch, and in the slots of the *)
(* first lap that have had none yet what the CQ was made or reset with.    *)
CqHolds ==
  \A j \in 0 .. sq_rsvd_index + CqeNum :
    /\ j < nic_ci /\ j + CqeNum >= nic_ci => cq[CqSlot(j + cqe_rsvd)] = Completion(j)
    /\ j >= nic_ci /\ j < CqeNum => cq[CqSlot(j + cqe_rsvd)] = Fresh

(* cqe_rsvd counts the last epoch only; where that is all there was, polls *)
(* are true.                                                               *)
ResetInv ==
  /\ ResetTypeOK
  /\ usable /\ resets = 0 => cqe_rsvd = 0
  /\ cq_pi = earlier + cqe_rsvd + nic_ci
  /\ sq_rsvd_index <= cqe_ci + CqeNum
  /\ ~usable => nic_ci = sq_rsvd_index
  /\ Counted => /\ cqe_ci <= nic_ok
                /\ usable => CqHolds
                /\ \A i \in 0 .. MaxWqes - 1 : status[i] = "ok" => i < nic_ok

LEMMA CqFacts ==
  /\ CqeNum \in Nat \ {0} /\ IdxMod \in Nat \ {0} /\ IdxMod > CqeNum
  /\ \A i \in Int : CqSlot(i) \in Slots /\ i % IdxMod \in 0 .. IdxMod - 1
  /\ \A i \in Nat : OwnerBit(i) \in {0, 1}
  /\ Invalid \in [owner : {0, 1}, counter : 0 .. IdxMod - 1, error : BOOLEAN]
  /\ Filler \in [owner : {0, 1}, counter : 0 .. IdxMod - 1, error : BOOLEAN]
<1>1. CqeNum \in Nat \ {0} /\ IdxMod \in Nat \ {0} /\ IdxMod > CqeNum
  BY QpResetAssumption
<1>2. \A i \in Int : CqSlot(i) \in Slots /\ i % IdxMod \in 0 .. IdxMod - 1
  BY <1>1, DivMod DEF CqSlot, Slots
<1>3. \A i \in Nat : OwnerBit(i) \in {0, 1}
  <2> TAKE i \in Nat
  <2>1. i \div CqeNum \in Int
    BY <1>1, DivMod
  <2>2. (i \div CqeNum) % 2 \in 0 .. 1
    BY <2>1, DivMod
  <2> QED BY <2>2 DEF OwnerBit
<1>4. IdxMod - 1 \in 0 .. IdxMod - 1 /\ 0 \in 0 .. IdxMod - 1
  BY <1>1
<1> QED BY <1>1, <1>2, <1>3, <1>4 DEF Invalid, Filler

LEMMA BelowModulus ==
  ASSUME NEW n \in Nat \ {0}, NEW a \in 0 .. n - 1
  PROVE  a % n = a /\ a \div n = 0
<1>1. a \in Int /\ 0 \in Int /\ a = n * 0 + a
  OBVIOUS
<1> QED BY <1>1, DivModUnique, Zenon

(* Indices less than a queue apart have slots of their own.                *)
LEMMA SlotsApart ==
  ASSUME NEW i \in Int, NEW j \in Int, i < j, j < i + CqeNum
  PROVE  CqSlot(i) # CqSlot(j)
<1> SUFFICES ASSUME i % CqeNum = j % CqeNum PROVE FALSE
  BY DEF CqSlot
<1>1. CqeNum \in Nat \ {0} /\ i <= j /\ i # j
  BY CqFacts
<1> QED BY <1>1, SameSlot, Zenon

(* A lap later the slot is the same and the owner bit the other.           *)
LEMMA OtherLap ==
  ASSUME NEW k \in Nat
  PROVE  CqSlot(k + CqeNum) = CqSlot(k) /\ OwnerBit(k + CqeNum) # OwnerBit(k)
<1>1. CqeNum \in Nat \ {0} /\ k \in Int
  BY CqFacts
<1>2. /\ (k + CqeNum) % CqeNum = k % CqeNum
      /\ (k + CqeNum) \div CqeNum = (k \div CqeNum) + 1
  BY <1>1, NextLap
<1>3. k \div CqeNum \in Int
  BY <1>1, DivMod
<1>4. \A d \in Int : (d + 1) % 2 # d % 2
  OBVIOUS
<1> QED BY <1>2, <1>3, <1>4 DEF CqSlot, OwnerBit

(* A poll sees completions of this epoch and no other entry of the CQ.     *)
LEMMA SeenIsCompleted ==
  ASSUME ResetInv, Counted, usable, NEW i \in 0 .. MaxWqes - 1, i >= cqe_ci, i < cqe_ci + CqeNum, Seen(i)
  PROVE  i < nic_ci
<1> SUFFICES ASSUME i >= nic_ci PROVE FALSE
  <2>1. i \in Int /\ nic_ci \in Int
    BY QpResetAssumption DEF ResetInv, ResetTypeOK
  <2> QED BY <2>1
<1> USE CqFacts
<1>1. /\ CqHolds /\ cqe_ci \in Nat /\ nic_ci \in Nat /\ sq_rsvd_index \in Nat /\ cqe_ci <= nic_ci
      /\ cqe_rsvd \in Nat /\ nic_ci <= sq_rsvd_index /\ i \in Nat
  BY DEF ResetInv, ResetTypeOK
<1>2. /\ cq[CqSlot(i + cqe_rsvd)].owner = OwnerBit(i + cqe_rsvd)
      /\ counter_check => cq[CqSlot(i + cqe_rsvd)].counter = i % IdxMod
  BY DEF Seen
<1>3. CASE i < CqeNum
  <2>1. i \in 0 .. sq_rsvd_index + CqeNum
    BY <1>1, <1>3
  <2>2. cq[CqSlot(i + cqe_rsvd)] = Fresh
    BY <1>1, <1>3, <2>1 DEF CqHolds
  <2>3. i % IdxMod = i
    <3>1. i \in 0 .. IdxMod - 1
      BY <1>1, <1>3
    <3> QED BY <3>1, BelowModulus, Zenon
  <2>4. CASE resets = 0
    <3>1. cqe_rsvd = 0
      BY <2>4 DEF ResetInv
    <3>2. i \div CqeNum = 0
      <4>1. i \in 0 .. CqeNum - 1
        BY <1>1, <1>3
      <4> QED BY <4>1, BelowModulus, Zenon
    <3>3. OwnerBit(i + cqe_rsvd) = 0
      BY <1>1, <3>1, <3>2 DEF OwnerBit
    <3> QED BY <1>2, <2>2, <2>4, <3>3 DEF Fresh, Invalid
  <2>5. CASE resets # 0
    <3>1. cq[CqSlot(i + cqe_rsvd)] = Filler
      BY <2>2, <2>5 DEF Fresh
    <3>2. CASE counter_check
      BY <1>1, <1>2, <1>3, <2>3, <3>1, <3>2 DEF Filler
    <3>3. CASE ~counter_check
      <4>1. i \in Slots
        BY <1>1, <1>3 DEF Slots
      <4>2. OwnerBit(i + cqe_rsvd) # Filler.owner
        BY <3>3, <4>1 DEF Counted, FillerTold
      <4> QED BY <1>2, <3>1, <4>2
    <3> QED BY <3>2, <3>3
  <2> QED BY <2>4, <2>5
<1>4. CASE i >= CqeNum
  <2> DEFINE j == i - CqeNum
  <2>1. j \in 0 .. sq_rsvd_index + CqeNum /\ j < nic_ci /\ j + CqeNum >= nic_ci
    BY <1>1, <1>4
  <2>2. cq[CqSlot(j + cqe_rsvd)].owner = OwnerBit(j + cqe_rsvd)
    <3>1. cq[CqSlot(j + cqe_rsvd)] = Completion(j)
      BY <1>1, <2>1, Zenon DEF CqHolds
    <3> QED BY <3>1 DEF Completion
  <2>3. j + cqe_rsvd \in Nat /\ (j + cqe_rsvd) + CqeNum = i + cqe_rsvd
    BY <1>1, <1>4
  <2> HIDE DEF j
  <2>4. /\ CqSlot(i + cqe_rsvd) = CqSlot(j + cqe_rsvd)
        /\ OwnerBit(i + cqe_rsvd) # OwnerBit(j + cqe_rsvd)
    BY <2>3, OtherLap
  <2> QED BY <1>2, <2>2, <2>4
<1> QED BY <1>1, <1>3, <1>4

LEMMA ResultIsTrue ==
  ASSUME ResetInv, Counted, usable, NEW i \in 0 .. MaxWqes - 1,
         i < cqe_ci + CqeNum, i + CqeNum >= nic_ci, i < nic_ci
  PROVE  Result(i) = IF i < nic_ok THEN "ok" ELSE "error"
<1> USE CqFacts
<1>1. /\ CqHolds /\ cqe_ci \in Nat /\ nic_ci \in Nat /\ sq_rsvd_index \in Nat /\ nic_ok \in Nat
      /\ cqe_ci <= nic_ok /\ cqe_rsvd \in Nat /\ nic_ci <= sq_rsvd_index /\ i \in Nat
  BY DEF ResetInv, ResetTypeOK
<1>2. CASE i < cqe_ci
  BY <1>1, <1>2 DEF Result
<1>3. CASE i >= cqe_ci
  <2>1. cq[CqSlot(i + cqe_rsvd)] = Completion(i)
    BY <1>1 DEF CqHolds
  <2>2. Seen(i)
    BY <2>1 DEF Seen, Completion
  <2>3. cq[CqSlot(i + cqe_rsvd)].error = ~(i < nic_ok)
    BY <2>1 DEF Completion
  <2>4. ~(i < cqe_ci) /\ ~(i >= cqe_ci + CqeNum)
    BY <1>1, <1>3
  <2>5. Result(i) = IF cq[CqSlot(i + cqe_rsvd)].error THEN "error" ELSE "ok"
    BY <2>2, <2>4, Zenon DEF Result
  <2> QED BY <2>3, <2>5, Zenon
<1> QED BY <1>1, <1>2, <1>3

LEMMA OkIsTrue ==
  ASSUME ResetInv, Counted, usable, NEW i \in 0 .. MaxWqes - 1, Result(i) = "ok"
  PROVE  i < nic_ok
<1>1. /\ cqe_ci \in Nat /\ nic_ci \in Nat /\ sq_rsvd_index \in Nat /\ nic_ok \in Nat /\ CqeNum \in Nat
      /\ cqe_ci <= nic_ok /\ nic_ci <= sq_rsvd_index /\ i \in Nat /\ sq_rsvd_index <= cqe_ci + CqeNum
  BY CqFacts DEF ResetInv, ResetTypeOK
<1>2. CASE i < cqe_ci
  BY <1>1, <1>2
<1>3. CASE i >= cqe_ci
  <2>1. i < cqe_ci + CqeNum /\ Seen(i)
    BY <1>1, <1>3 DEF Result
  <2>2. i < nic_ci
    BY <1>3, <2>1, SeenIsCompleted
  <2>3. Result(i) = IF i < nic_ok THEN "ok" ELSE "error"
    BY <1>1, <1>3, <2>1, <2>2, ResultIsTrue
  <2> QED BY <2>3
<1> QED BY <1>1, <1>2, <1>3

(* The variables that count, and the arrays.                               *)
Counts ==
  /\ counter_check \in BOOLEAN /\ resets \in 0 .. MaxResets /\ usable \in BOOLEAN
  /\ sq_rsvd_index \in 0 .. MaxWqes /\ nic_ci \in 0 .. sq_rsvd_index
  /\ nic_ok \in 0 .. nic_ci /\ cqe_ci \in 0 .. sq_rsvd_index
  /\ cqe_rsvd \in 0 .. MaxWqes /\ cq_pi \in Nat /\ earlier \in Nat
Cqes == [owner : {0, 1}, counter : 0 .. IdxMod - 1, error : BOOLEAN]
Arrays ==
  /\ cq \in [Slots -> Cqes]
  /\ status \in [0 .. MaxWqes - 1 -> {"none", "ok", "busy", "error"}]

LEMMA TypeParts == (ResetTypeOK <=> Counts /\ Arrays) /\ (ResetTypeOK' <=> Counts' /\ Arrays')
BY DEF ResetTypeOK, Counts, Arrays, Cqes

LEMMA CountedKept ==
  ASSUME earlier' = earlier, cqe_rsvd' = cqe_rsvd, counter_check' = counter_check
  PROVE  Counted' <=> Counted
BY DEF Counted, FillerTold

LEMMA ResetInitHolds == ResetInit => ResetInv
<1> SUFFICES ASSUME ResetInit PROVE ResetInv
  OBVIOUS
<1> USE CqFacts, QpResetAssumption
<1>1. ResetTypeOK
  BY DEF ResetInit, ResetTypeOK
<1>2. CqHolds
  BY DEF ResetInit, CqHolds, Fresh
<1> QED BY <1>1, <1>2 DEF ResetInit, ResetInv

LEMMA PostKeeps == 
  ASSUME ResetInv, Post
  PROVE  ResetInv'
<1> USE CqFacts, QpResetAssumption
<1>1. /\ usable /\ sq_rsvd_index < MaxWqes /\ sq_rsvd_index' = sq_rsvd_index + 1
      /\ sq_rsvd_index < CqeNum \/ cqe_ci > sq_rsvd_index - CqeNum
      /\ UNCHANGED <<counter_check, resets, usable, cqe_ci, cqe_rsvd, nic_ci, nic_ok,
                      cq_pi, cq, status, earlier>>
  BY DEF Post
<1>2. ResetTypeOK'
  <2>1. Counts'
    BY <1>1, TypeParts DEF ResetInv, Counts
  <2>2. Arrays'
    BY <1>1, TypeParts DEF ResetInv, Arrays
  <2> QED BY <2>1, <2>2, TypeParts
<1>3. ASSUME Counted PROVE CqHolds'
  <2> SUFFICES ASSUME NEW j \in 0 .. sq_rsvd_index + 1 + CqeNum
               PROVE  /\ j < nic_ci /\ j + CqeNum >= nic_ci => cq[CqSlot(j + cqe_rsvd)] = Completion(j)
                      /\ j >= nic_ci /\ j < CqeNum => cq[CqSlot(j + cqe_rsvd)] = Fresh
    BY <1>1 DEF CqHolds, Completion, Fresh
  <2>1. CASE j \in 0 .. sq_rsvd_index + CqeNum
    BY <1>1, <1>3, <2>1 DEF ResetInv, CqHolds
  <2>2. CASE j = sq_rsvd_index + 1 + CqeNum
    BY <2>2 DEF ResetInv, ResetTypeOK
  <2> QED BY <2>1, <2>2 DEF ResetInv, ResetTypeOK
<1>4. sq_rsvd_index' <= cqe_ci' + CqeNum
  BY <1>1, TypeParts DEF ResetInv, Counts
<1> QED BY <1>1, <1>2, <1>3, <1>4, CountedKept DEF ResetInv

LEMMA NicExecuteKeeps ==
  ASSUME ResetInv, NicExecute
  PROVE  ResetInv'
<1> USE CqFacts, QpResetAssumption
<1> PICK ok \in BOOLEAN :
      /\ ok => nic_ok = nic_ci
      /\ cq' = [cq EXCEPT ![CqSlot(cq_pi)] =
                  [owner |-> OwnerBit(cq_pi), counter |-> nic_ci % IdxMod, error |-> ~ok]]
      /\ nic_ok' = IF ok THEN nic_ok + 1 ELSE nic_ok
  BY DEF NicExecute
<1> DEFINE new == [owner |-> OwnerBit(cq_pi), counter |-> nic_ci % IdxMod, error |-> ~ok]
<1>1. /\ nic_ci < sq_rsvd_index /\ nic_ci' = nic_ci + 1 /\ cq_pi' = cq_pi + 1
      /\ UNCHANGED <<counter_check, resets, usable, sq_rsvd_index, cqe_ci, cqe_rsvd, status, earlier>>
  BY DEF NicExecute
<1>2. /\ usable /\ cq_pi = earlier + cqe_rsvd + nic_ci /\ nic_ci \in Nat /\ nic_ok \in Nat /\ nic_ok <= nic_ci
      /\ cqe_rsvd \in Nat /\ earlier \in Nat /\ sq_rsvd_index \in Nat /\ cqe_ci \in Nat
      /\ cqe_ci <= sq_rsvd_index /\ sq_rsvd_index <= cqe_ci + CqeNum /\ cq_pi \in Nat
  BY <1>1 DEF ResetInv, ResetTypeOK
<1>3. new \in [owner : {0, 1}, counter : 0 .. IdxMod - 1, error : BOOLEAN] /\ CqSlot(cq_pi) \in Slots
  <2>1. cq_pi \in Nat /\ cq_pi \in Int /\ nic_ci \in Int /\ (~ok) \in BOOLEAN
    BY <1>2
  <2>2. /\ CqSlot(cq_pi) \in Slots /\ nic_ci % IdxMod \in 0 .. IdxMod - 1
        /\ OwnerBit(cq_pi) \in {0, 1}
    BY <2>1
  <2> QED BY <2>1, <2>2, Zenon
<1>4. cq' \in [Slots -> [owner : {0, 1}, counter : 0 .. IdxMod - 1, error : BOOLEAN]]
  <2> HIDE DEF new
  <2>1. cq' = [cq EXCEPT ![CqSlot(cq_pi)] = new]
    BY DEF new
  <2> QED BY <1>3, <2>1 DEF ResetInv, ResetTypeOK
<1>5. /\ nic_ok' \in Nat /\ nic_ok <= nic_ok' /\ nic_ok' <= nic_ci + 1
      /\ ok => nic_ok' = nic_ci + 1 
      /\ ~ok => nic_ok' = nic_ok
  BY <1>2
<1>6. ResetTypeOK'
  <2>1. Counts'
    BY <1>1, <1>2, <1>5, TypeParts DEF ResetInv, Counts
  <2>2. Arrays'
    BY <1>1, <1>4, TypeParts DEF ResetInv, Arrays, Cqes
  <2> QED BY <2>1, <2>2, TypeParts
<1>7. ASSUME Counted PROVE CqHolds'
  <2>0. CqHolds /\ cqe_ci <= nic_ok /\ cq_pi = cqe_rsvd + nic_ci
    BY <1>2, <1>7 DEF ResetInv, Counted
  <2> SUFFICES ASSUME NEW j \in 0 .. sq_rsvd_index + CqeNum
               PROVE  /\ j < nic_ci + 1 /\ j + CqeNum >= nic_ci + 1 => cq'[CqSlot(j + cqe_rsvd)] = Completion(j)'
                      /\ j >= nic_ci + 1 /\ j < CqeNum => cq'[CqSlot(j + cqe_rsvd)] = Fresh
    BY <1>1 DEF CqHolds, Fresh
  <2>1. Completion(j)' = [owner |-> OwnerBit(j + cqe_rsvd), counter |-> j % IdxMod, error |-> ~(j < nic_ok')]
    BY <1>1 DEF Completion
  <2>2. CASE j = nic_ci
    <3>0. j + cqe_rsvd = cq_pi
      BY <1>2, <2>0, <2>2
    <3>1. CqSlot(j + cqe_rsvd) = CqSlot(cq_pi) /\ cq'[CqSlot(cq_pi)] = new
      BY <1>3, <3>0 DEF ResetInv, ResetTypeOK
    <3>2. (~ok) = ~(j < nic_ok')
      BY <1>2, <1>5, <2>2
    <3>3. new = Completion(j)'
      BY <2>1, <2>2, <3>0, <3>2
    <3> QED BY <1>2, <2>0, <2>2, <3>1, <3>3
  <2>3. ASSUME j < nic_ci, j + CqeNum >= nic_ci + 1 PROVE cq'[CqSlot(j + cqe_rsvd)] = Completion(j)'
    <3>1. CqSlot(j + cqe_rsvd) # CqSlot(cq_pi)
      BY <1>2, <2>0, <2>3, SlotsApart
    <3>2. cq'[CqSlot(j + cqe_rsvd)] = cq[CqSlot(j + cqe_rsvd)]
      BY <3>1 DEF ResetInv, ResetTypeOK
    <3>3. cq[CqSlot(j + cqe_rsvd)] = Completion(j)
      BY <1>2, <2>0, <2>3 DEF CqHolds
    <3>4. (j < nic_ok') <=> (j < nic_ok)
      BY <1>2, <1>5, <2>3
    <3> QED BY <2>1, <3>2, <3>3, <3>4 DEF Completion
  <2>4. ASSUME j >= nic_ci + 1, j < CqeNum PROVE cq'[CqSlot(j + cqe_rsvd)] = Fresh
    <3>1. CqSlot(j + cqe_rsvd) # CqSlot(cq_pi)
      BY <1>2, <2>0, <2>4, SlotsApart
    <3>2. cq'[CqSlot(j + cqe_rsvd)] = cq[CqSlot(j + cqe_rsvd)]
      BY <1>2, <3>1 DEF ResetInv, ResetTypeOK
    <3>3. j >= nic_ci
      BY <1>2, <2>4
    <3> QED BY <2>0, <2>4, <3>2, <3>3, Zenon DEF CqHolds
  <2> QED BY <1>2, <2>2, <2>3, <2>4
<1>8. ASSUME Counted
      PROVE  cqe_ci <= nic_ok' /\ \A i \in 0 .. MaxWqes - 1 : status[i] = "ok" => i < nic_ok'
  BY <1>2, <1>5, <1>8 DEF ResetInv
<1> QED BY <1>1, <1>2, <1>6, <1>7, <1>8, CountedKept DEF ResetInv

LEMMA PollKeeps ==
  ASSUME ResetInv, NEW i \in 0 .. MaxWqes - 1, PollOne(i)
  PROVE  ResetInv'
<1> USE CqFacts, QpResetAssumption
<1>1. /\ usable /\ i < sq_rsvd_index
      /\ status' = [status EXCEPT ![i] = Result(i)]
      /\ cqe_ci' = IF Result(i) = "ok" /\ i >= cqe_ci THEN i + 1 ELSE cqe_ci
      /\ UNCHANGED <<counter_check, resets, usable, sq_rsvd_index, cqe_rsvd, nic_ci, nic_ok,
                      cq_pi, cq, earlier>>
  BY DEF PollOne
<1>2. Result(i) \in {"ok", "busy", "error"}
  BY DEF Result
<1>3. cqe_ci' \in 0 .. sq_rsvd_index /\ cqe_ci <= cqe_ci'
  BY <1>1 DEF ResetInv, ResetTypeOK
<1>4. ResetTypeOK'
  <2>1. Counts'
    BY <1>1, <1>3, TypeParts DEF ResetInv, Counts
  <2>2. Arrays'
    BY <1>1, <1>2, TypeParts DEF ResetInv, Arrays
  <2> QED BY <2>1, <2>2, TypeParts
<1>5. sq_rsvd_index' <= cqe_ci' + CqeNum
  <2>1. Counts /\ sq_rsvd_index <= cqe_ci + CqeNum
    BY TypeParts DEF ResetInv
  <2>2. cqe_ci \in Nat /\ cqe_ci' \in Nat /\ sq_rsvd_index \in Nat
    BY <1>3, <2>1 DEF Counts
  <2> QED BY <1>1, <1>3, <2>1, <2>2
<1>6. ASSUME Counted
      PROVE  /\ cqe_ci' <= nic_ok
             /\ CqHolds'
             /\ \A k \in 0 .. MaxWqes - 1 : status'[k] = "ok" => k < nic_ok
  <2>1. Result(i) = "ok" => i < nic_ok
    BY <1>1, <1>6, OkIsTrue
  <2>2. cqe_ci' <= nic_ok
    BY <1>1, <1>6, <2>1 DEF ResetInv, ResetTypeOK
  <2>3. CqHolds'
    BY <1>1, <1>6 DEF ResetInv, CqHolds, Completion, Fresh
  <2>4. \A k \in 0 .. MaxWqes - 1 : status'[k] = "ok" => k < nic_ok
    BY <1>1, <1>6, <2>1 DEF ResetInv, ResetTypeOK
  <2> QED BY <2>2, <2>3, <2>4
<1> QED BY <1>1, <1>4, <1>5, <1>6, CountedKept DEF ResetInv

(* The device copy starts again, with a CQ that the reset has filled or,   *)
(* when it then fails, that nobody polls.                                  *)
LEMMA CopyToFacts ==
  ASSUME ResetInv, Drained, CopyTo, cq_pi' = cq_pi
  PROVE  /\ sq_rsvd_index' = 0 /\ cqe_ci' = 0 /\ nic_ci' = 0 /\ nic_ok' = 0
         /\ cqe_rsvd' \in 0 .. MaxWqes /\ earlier' \in Nat /\ cq_pi' \in Nat
         /\ cq_pi' = earlier' + cqe_rsvd' + nic_ci'
         /\ status' \in [0 .. MaxWqes - 1 -> {"none", "ok", "busy", "error"}]
         /\ \A i \in 0 .. MaxWqes - 1 : status'[i] = "none"
<1>1. Counts /\ Arrays /\ cq_pi = earlier + cqe_rsvd + nic_ci /\ nic_ci = sq_rsvd_index
  BY TypeParts DEF ResetInv, Drained
<1>2. /\ sq_rsvd_index' = 0 /\ cqe_ci' = 0 /\ nic_ci' = 0 /\ nic_ok' = 0
      /\ cqe_rsvd' = sq_rsvd_index /\ earlier' = cq_pi - nic_ci
      /\ status' = [i \in DOMAIN status |-> "none"]
  BY DEF CopyTo, NewRsvd
<1>3. earlier' = earlier + cqe_rsvd /\ earlier' \in Nat /\ cqe_rsvd' \in 0 .. MaxWqes
  BY <1>1, <1>2, QpResetAssumption DEF Counts
<1>4. cq_pi' = earlier' + cqe_rsvd' + nic_ci' /\ cq_pi' \in Nat
  BY <1>1, <1>2, <1>3 DEF Counts
<1> QED BY <1>1, <1>2, <1>3, <1>4 DEF Arrays

LEMMA FilledCq == [s \in Slots |-> Filler] \in [Slots -> Cqes]
BY CqFacts DEF Cqes

LEMMA ResetKeeps ==
  ASSUME ResetInv, Reset
  PROVE  ResetInv'
<1> USE CqFacts, QpResetAssumption
<1>1. /\ Drained /\ resets < MaxResets /\ resets' = resets + 1 /\ usable' = TRUE
      /\ cq' = [s \in Slots |-> Filler] /\ CopyTo /\ cq_pi' = cq_pi
      /\ counter_check' = counter_check
  BY DEF Reset
<1>2. resets \in 0 .. MaxResets /\ resets' \in 1 .. MaxResets /\ counter_check' \in BOOLEAN
  BY <1>1 DEF ResetInv, ResetTypeOK
<1>3. ResetTypeOK'
  <2>1. Counts'
    BY <1>1, <1>2, CopyToFacts DEF Counts
  <2>2. Arrays'
    BY <1>1, CopyToFacts, FilledCq DEF Arrays
  <2> QED BY <2>1, <2>2, TypeParts
<1>4. /\ sq_rsvd_index' = 0 /\ cqe_ci' = 0 /\ nic_ci' = 0 /\ nic_ok' = 0 /\ cqe_rsvd' \in Nat
      /\ cq_pi' = earlier' + cqe_rsvd' + nic_ci'
      /\ \A i \in 0 .. MaxWqes - 1 : status'[i] = "none"
  BY <1>1, CopyToFacts
<1>5. CqHolds'
  <2>1. Fresh' = Filler
    BY <1>2 DEF Fresh
  <2>2. ASSUME NEW j \in Nat PROVE cq'[CqSlot(j + cqe_rsvd')] = Filler
    <3>1. CqSlot(j + cqe_rsvd') \in Slots
      BY <1>4
    <3> QED BY <1>1, <3>1
  <2> QED BY <1>4, <2>1, <2>2 DEF CqHolds
<1> QED BY <1>1, <1>2, <1>3, <1>4, <1>5 DEF ResetInv

LEMMA ResetFailsKeeps ==
  ASSUME ResetInv, NEW place \in Places, ResetFails(place)
  PROVE  ResetInv'
<1> USE CqFacts, QpResetAssumption
<1>1. /\ Drained /\ usable' = FALSE /\ resets' = resets /\ cq_pi' = cq_pi
      /\ counter_check' = counter_check
      /\ cq' = cq \/ cq' = [s \in Slots |-> Filler]
      /\ \/ CopyTo
         \/ UNCHANGED <<sq_rsvd_index, cqe_ci, cqe_rsvd, nic_ci, nic_ok, status, earlier>>
  BY DEF ResetFails
<1>2. resets \in 0 .. MaxResets /\ cq' \in [Slots -> Cqes] /\ nic_ci = sq_rsvd_index
      /\ counter_check' \in BOOLEAN
  BY <1>1, FilledCq, TypeParts DEF ResetInv, Counts, Arrays, Drained
<1>3. CASE CopyTo
  <2>0. /\ sq_rsvd_index' = 0 /\ cqe_ci' = 0 /\ nic_ci' = 0 /\ nic_ok' = 0
        /\ cqe_rsvd' \in 0 .. MaxWqes /\ earlier' \in Nat /\ cq_pi' \in Nat
        /\ cq_pi' = earlier' + cqe_rsvd' + nic_ci'
        /\ \A i \in 0 .. MaxWqes - 1 : status'[i] = "none"
    BY <1>1, <1>3, CopyToFacts
  <2>1. Counts'
    <3>1. resets' \in 0 .. MaxResets /\ usable' \in BOOLEAN /\ counter_check' \in BOOLEAN
      BY <1>1, <1>2
    <3>2. /\ sq_rsvd_index' \in 0 .. MaxWqes /\ nic_ci' \in 0 .. sq_rsvd_index'
          /\ nic_ok' \in 0 .. nic_ci' /\ cqe_ci' \in 0 .. sq_rsvd_index'
      BY <2>0
    <3> QED BY <2>0, <3>1, <3>2 DEF Counts
  <2>2. Arrays'
    BY <1>1, <1>2, <1>3, CopyToFacts DEF Arrays
  <2>3. ResetTypeOK'
    BY <2>1, <2>2, TypeParts
  <2>4. sq_rsvd_index' <= cqe_ci' + CqeNum /\ cqe_ci' <= nic_ok'
    BY <2>0
  <2> QED BY <1>1, <2>0, <2>3, <2>4 DEF ResetInv
<1>4. CASE UNCHANGED <<sq_rsvd_index, cqe_ci, cqe_rsvd, nic_ci, nic_ok, status, earlier>>
  <2>1. Counts'
    BY <1>1, <1>4, TypeParts DEF ResetInv, Counts
  <2>2. Arrays'
    BY <1>2, <1>4, TypeParts DEF ResetInv, Arrays
  <2> QED BY <1>1, <1>2, <1>4, <2>1, <2>2, TypeParts, CountedKept DEF ResetInv
<1> QED BY <1>1, <1>3, <1>4

LEMMA ResetInvariance == ResetSpec => []ResetInv
<1>1. ResetInv /\ [ResetNext]_resetVars => ResetInv'
  <2> SUFFICES ASSUME ResetInv, [ResetNext]_resetVars PROVE ResetInv'
    OBVIOUS
  <2>1. CASE UNCHANGED resetVars
    BY <2>1 DEF ResetInv, ResetTypeOK, Counted, FillerTold, CqHolds, Completion, Fresh
  <2> QED BY <2>1, PostKeeps, NicExecuteKeeps, PollKeeps, ResetKeeps, ResetFailsKeeps DEF ResetNext
<1> QED BY <1>1, ResetInitHolds, PTL DEF ResetSpec

(* Every variable keeps its type, however often the QP is reset and        *)
(* wherever a reset fails.                                                 *)
THEOREM ResetTyped == ResetSpec => []ResetTypeOK
<1>1. ResetInv => ResetTypeOK
  BY DEF ResetInv
<1> QED BY <1>1, ResetInvariance, PTL

(* For every number of resets and of failed attempts, every size of queue, *)
(* range of wqe_counter and build of the polls: as long as one epoch at    *)
(* most had WQEs before this one and the filler reads as not written,      *)
(* success is of a completion of this epoch, and what has completed is     *)
(* seen.                                                                   *)
THEOREM PollsTrueAfterReset == ResetSpec => []PollsTrueWhileCounted
<1>1. ResetInv => PollsTrueWhileCounted
  <2> SUFFICES ASSUME ResetInv, Counted PROVE PollsSurviveReset
    BY DEF PollsTrueWhileCounted, Counted
  <2>1. DOMAIN status = 0 .. MaxWqes - 1 /\ \A i \in DOMAIN status : status[i] = "ok" => i < nic_ok
    BY DEF ResetInv, ResetTypeOK
  <2>2. ASSUME NEW i \in 0 .. nic_ci - 1, usable, i < cqe_ci + CqeNum, i + CqeNum >= nic_ci
        PROVE  Result(i) = IF i < nic_ok THEN "ok" ELSE "error"
    <3>1. i \in 0 .. MaxWqes - 1 /\ i < nic_ci
      BY QpResetAssumption DEF ResetInv, ResetTypeOK
    <3> QED BY <2>2, <3>1, ResultIsTrue
  <2> QED BY <2>1, <2>2 DEF PollsSurviveReset
<1> QED BY <1>1, ResetInvariance, PTL

-----------------------------------------------------------------------------
(* The composition: whichever part a behaviour exercises, the others stand *)
(* still.                                                                  *)
LEMMA PartsRun == Spec => MemSpec /\ ResetSpec /\ QpSpec /\ ObjSpec /\ AttrSpec
<1>1. Init => MemInit /\ ResetInit /\ QpInit /\ ObjInit /\ AttrInit
  BY DEF Init
<1>2. [Next]_<<part, memVars, resetVars, qpVars, objVars, attrVars>>
        => /\ [MemNext]_memVars /\ [ResetNext]_resetVars /\ [QpNext]_qpVars
           /\ [ObjNext]_objVars /\ [AttrNext]_attrVars
  BY DEF Next
<1> QED BY <1>1, <1>2, PTL DEF Spec, MemSpec, ResetSpec, QpSpec, ObjSpec, AttrSpec

(* Neither creation nor an attribute follows a null pointer, where UMEMs   *)
(* are of host memory: with GPU memory the wrapper of the UMEM takes any   *)
(* error for the absence of the SDK, and creation does (run umem_sdk).     *)
THEOREM NullNotFollowed ==
  ASSUME ~GpuUmem PROVE Spec => []NoNullFollowed
<1>1. ObjInv /\ AttrInv => NoNullFollowed
  BY DEF ObjInv, OneKind, NoNullDevice, AttrInv, NoNullFollowed
<1> QED BY <1>1, PartsRun, ObjInvariance, AttrInvariance, PTL
=============================================================================
