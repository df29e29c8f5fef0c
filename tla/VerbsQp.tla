------------------------------ MODULE VerbsQp ------------------------------
(***************************************************************************)
(* The state machine of one QP of the open implementation                  *)
(* (src/src/doca_verbs_qp.cpp): doca_verbs_qp_modify chooses the device    *)
(* command from m_current_state, which only the library's own successful   *)
(* commands change, or from a current state the caller states; a command   *)
(* carries attributes that the device takes either always or when their    *)
(* bit of opt_param_mask is set.  The device, external, refuses a command  *)
(* that does not fit its state and moves to ERR on its own.                *)
(*                                                                         *)
(* Abstracted: RQ_PSN, DEST_QP_NUM and PATH_MTU are one attribute, PATH,   *)
(* and SQ_PSN, ACK_TIMEOUT, RETRY_CNT and RNR_RETRY one, SEND (one command *)
(* requires each group as a whole); a request has the same value for all   *)
(* its attributes; MAX_QP_RD_ATOMIC and MAX_DEST_RD_ATOMIC are left out.   *)
(***************************************************************************)
EXTENDS Naturals

CONSTANT Masks      \* attribute masks doca_verbs_qp_modify is called with

QpStates == {"RST", "INIT", "RTR", "RTS", "ERR"}
StateBits == {"CURRENT_STATE", "NEXT_STATE"}
Remote == {"ALLOW_REMOTE_WRITE", "ALLOW_REMOTE_READ", "ATOMIC_MODE"}
Attrs == Remote \cup {"PKEY_INDEX", "PORT_NUM", "MIN_RNR_TIMER", "AH_ATTR", "PATH", "SEND"}

\* Of the address vector the context holds the source GID index and the destination.
Fields == (Attrs \ {"AH_ATTR"}) \cup {"SGID", "DEST"}

ASSUME MasksAssumption == Masks \subseteq SUBSET (Attrs \cup StateBits)

VARIABLES
  dev_state,        \* the QP's state in the device
  ctx,              \* its context in the device
  m_current_state,  \* the library's copy of the state
  told,             \* ghost: the state the caller was last told of
  want              \* ghost: the context successful calls have promised

qpVars == <<dev_state, ctx, m_current_state, told, want>>

Clear == [f \in Fields |-> 0]

QpInit ==
  /\ dev_state = "RST" /\ m_current_state = "RST" /\ told = "RST"
  /\ ctx = Clear /\ want = Clear
-----------------------------------------------------------------------------
(* Which attributes a command requires, allows, copies and marks.          *)

Requested(t) ==
  CASE t = "RST2INIT" -> {"PKEY_INDEX", "PORT_NUM", "ALLOW_REMOTE_WRITE", "ALLOW_REMOTE_READ"}
    [] t = "INIT2RTR" -> {"PATH", "AH_ATTR", "MIN_RNR_TIMER"}
    [] t = "RTR2RTS" -> {"SEND"}
    [] OTHER -> {}

OptionalOf(t) ==
  CASE t = "RST2INIT" -> {"ATOMIC_MODE"}
    [] t = "INIT2INIT" -> Remote \cup {"PKEY_INDEX", "PORT_NUM"}
    [] t = "INIT2RTR" -> Remote \cup {"PKEY_INDEX"}
    [] t = "RTR2RTS" -> {"MIN_RNR_TIMER", "ALLOW_REMOTE_WRITE", "ATOMIC_MODE"}
    [] t = "RTS2RTS" -> Remote \cup {"MIN_RNR_TIMER", "AH_ATTR"}
    [] OTHER -> {}

MaskValid(t, mask) ==
  /\ Requested(t) \subseteq mask
  /\ mask \subseteq Requested(t) \cup OptionalOf(t) \cup StateBits

\* seeded bug: ALLOW_REMOTE_READ is missing from the table.
OptParamsNoRead(t, mask) ==
  {IF a = "AH_ATTR" THEN "SGID" ELSE a : a \in mask \cap (OptionalOf(t) \ {"ALLOW_REMOTE_READ"})}

\* valid_opt_mask, what a bit of it stands for in the context included.
OptParams(t, mask) ==
  LET legal == CASE t = "INIT2INIT" -> Remote \cup {"PKEY_INDEX", "PORT_NUM"}
                 [] t = "INIT2RTR" -> Remote \cup {"PKEY_INDEX"}
                 [] t = "RTR2RTS" -> {"ALLOW_REMOTE_WRITE", "ATOMIC_MODE", "MIN_RNR_TIMER"}
                 [] t = "RTS2RTS" -> Remote \cup {"AH_ATTR", "MIN_RNR_TIMER"}
                 [] OTHER -> {}
  IN  {IF a = "AH_ATTR" THEN "SGID" ELSE a : a \in mask \cap legal}

\* External.  The fields a command sets whatever opt_param_mask says.
TakenAlways(t) ==
  CASE t = "RST2INIT" -> Remote \cup {"PKEY_INDEX", "PORT_NUM"}
    [] t = "INIT2RTR" -> {"PATH", "MIN_RNR_TIMER", "SGID", "DEST"}
    [] t = "RTR2RTS" -> {"SEND"}
    [] OTHER -> {}

\* External.  The states of the device in which it takes a command.
Fits(t) ==
  CASE t = "RST2INIT" -> dev_state = "RST"
    [] t \in {"INIT2INIT", "INIT2RTR"} -> dev_state = "INIT"
    [] t = "RTR2RTS" -> dev_state = "RTR"
    [] t = "RTS2RTS" -> dev_state = "RTS"
    [] OTHER -> TRUE
-----------------------------------------------------------------------------
(* The commands.                                                           *)

\* seeded bug: it is written first and stays when the device refuses.
NewStateEarly(done, target) == target

\* The library's state is written once the device has answered.
NewState(done, target) == IF done THEN target ELSE m_current_state

\* A command that sets fields: copied ones come from the request whatever its mask,
\* the others only if masked; what is sent and not masked is zero.
Command(t, target, copied, ifMasked, mask, v, done) ==
  LET sent == copied \cup (ifMasked \cap mask)
      taken == TakenAlways(t) \cup OptParams(t, mask)
  IN  /\ done => Fits(t)
      /\ m_current_state' = NewState(done, target)
      /\ dev_state' = IF done THEN target ELSE dev_state
      /\ ctx' = IF done
                THEN [f \in Fields |-> IF f \notin taken THEN ctx[f] ELSE IF f \in sent THEN v ELSE 0]
                ELSE ctx

Rst2Init(mask, v, done) ==
  Command("RST2INIT", "INIT", {"PORT_NUM", "PKEY_INDEX", "ALLOW_REMOTE_WRITE"},
          {"ALLOW_REMOTE_READ", "ATOMIC_MODE"}, mask, v, done)

Init2Init(mask, v, done) ==
  Command("INIT2INIT", "INIT", {"PORT_NUM", "PKEY_INDEX", "ALLOW_REMOTE_WRITE"},
          {"ALLOW_REMOTE_READ", "ATOMIC_MODE"}, mask, v, done)

\* done is FALSE also when the MAC or the RoCE version cannot be resolved.
Init2Rtr(mask, v, done) ==
  Command("INIT2RTR", "RTR", {"PATH", "SGID", "DEST", "PKEY_INDEX", "ALLOW_REMOTE_WRITE"},
          {"MIN_RNR_TIMER", "ALLOW_REMOTE_READ", "ATOMIC_MODE"}, mask, v, done)

Rtr2Rts(mask, v, done) ==
  Command("RTR2RTS", "RTS", {"SEND", "ALLOW_REMOTE_WRITE"}, {"MIN_RNR_TIMER", "ATOMIC_MODE"}, mask, v, done)

Rts2Rts(mask, v, done) ==
  Command("RTS2RTS", "RTS",
          {"ALLOW_REMOTE_WRITE"} \cup IF "AH_ATTR" \in mask THEN {"SGID"} ELSE {},
          {"MIN_RNR_TIMER", "ALLOW_REMOTE_READ", "ATOMIC_MODE"}, mask, v, done)

\* seeded bug: the opcode of the other command, copied.
Qp2ErrCopied(done) ==
  /\ m_current_state' = NewState(done, "ERR")
  /\ dev_state' = IF done THEN "RST" ELSE dev_state
  /\ ctx' = IF done THEN Clear ELSE ctx

Qp2Err(done) ==
  /\ m_current_state' = NewState(done, "ERR")
  /\ dev_state' = IF done THEN "ERR" ELSE dev_state
  /\ UNCHANGED ctx

Qp2Rst(done) ==
  /\ m_current_state' = NewState(done, "RST")
  /\ dev_state' = IF done THEN "RST" ELSE dev_state
  /\ ctx' = IF done THEN Clear ELSE ctx
-----------------------------------------------------------------------------
(* doca_verbs_qp_modify.                                                   *)

Current(mask, current) == IF "CURRENT_STATE" \in mask THEN current ELSE m_current_state

Asked(mask, current, next) == IF "NEXT_STATE" \in mask THEN next ELSE Current(mask, current)

\* The switch on the next state, then on the current one.
Transition(current, next) ==
  CASE next = "RST" -> "2RST"
    [] next = "ERR" -> "2ERR"
    [] next = "INIT" /\ current = "RST" -> "RST2INIT"
    [] next = "INIT" /\ current = "INIT" -> "INIT2INIT"
    [] next = "RTR" /\ current = "INIT" -> "INIT2RTR"
    [] next = "RTS" /\ current = "RTR" -> "RTR2RTS"
    [] next = "RTS" /\ current = "RTS" -> "RTS2RTS"
    [] OTHER -> "invalid"

\* What the status promises the caller.  RTS2RTS sends of an address vector the
\* source GID index alone.
Promised(t, mask) ==
  LET ah == IF t = "INIT2RTR" THEN {"SGID", "DEST"} ELSE {"SGID"}
  IN  (mask \cap Fields) \cup (IF "AH_ATTR" \in mask THEN ah ELSE {})

Answer(t, asked, mask, v, done) ==
  /\ told' = IF done THEN asked ELSE told
  /\ want' = IF ~done THEN want
             ELSE IF asked = "RST" THEN Clear
             ELSE [f \in Fields |-> IF f \in Promised(t, mask) THEN v ELSE want[f]]

\* A mask that does not fit is answered before any command, as is a value out of
\* range or an address vector not given.
Modify(mask, current, next, v, done) ==
  LET asked == Asked(mask, current, next)
      t == Transition(Current(mask, current), asked)
  IN  IF t = "invalid" \/ ~MaskValid(t, mask)
      THEN UNCHANGED qpVars
      ELSE /\ CASE t = "RST2INIT" -> Rst2Init(mask, v, done)
                [] t = "INIT2INIT" -> Init2Init(mask, v, done)
                [] t = "INIT2RTR" -> Init2Rtr(mask, v, done)
                [] t = "RTR2RTS" -> Rtr2Rts(mask, v, done)
                [] t = "RTS2RTS" -> Rts2Rts(mask, v, done)
                [] t = "2ERR" -> Qp2Err(done)
                [] OTHER -> Qp2Rst(done)
           /\ Answer(t, asked, mask, v, done)

\* query_qp reports the state in the device and leaves the library's copy alone.
Query == told' = dev_state /\ UNCHANGED <<dev_state, ctx, m_current_state, want>>

\* External.
DeviceError ==
  /\ dev_state \in {"RTR", "RTS"}
  /\ dev_state' = "ERR"
  /\ UNCHANGED <<ctx, m_current_state, told, want>>

QpNext ==
  \/ \E mask \in Masks, v \in {0, 1}, done \in BOOLEAN :
        \E current \in IF "CURRENT_STATE" \in mask THEN QpStates ELSE {m_current_state},
           next \in IF "NEXT_STATE" \in mask THEN QpStates ELSE {m_current_state} :
          Modify(mask, current, next, v, done)
  \/ Query
  \/ DeviceError

QpSpec == QpInit /\ [][QpNext]_qpVars
-----------------------------------------------------------------------------
\* Type invariant.
QpTypeOK ==
  /\ {dev_state, m_current_state, told} \subseteq QpStates
  /\ {ctx, want} \subseteq [Fields -> {0, 1}]

\* The state qp_modify chooses commands from, and the one the caller of qp_modify or
\* qp_query was told of, are the device's, unless the device has moved to ERR
\* meanwhile: no refused command, no wrong CURRENT_STATE of the caller and no query
\* lets them part, and success is reported of the transition that was asked for.
StateIsKnown == dev_state \in {m_current_state, "ERR"} \cap {told, "ERR"}

\* The masks the library checks, the fields it copies and the bits of opt_param_mask
\* agree: an attribute of a successful call has the value asked for, any other the
\* one it had.
AttrsAsPromised == ctx = want
=============================================================================
