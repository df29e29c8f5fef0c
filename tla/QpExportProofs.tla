----------------------------- MODULE QpExportProofs -----------------------------
(***************************************************************************)
(* Theorems about the export of QPs and its withdrawal.  Two inductive     *)
(* invariants: ExInv, about each QP and what it points to, and UarInv,     *)
(* about the registrations of UARs, which needs CUDA to map a page at its  *)
(* host address (SameAddress): otherwise unexport_uar finds no entry.      *)
(***************************************************************************)
EXTENDS QpExport, FiniteSetTheorems, TLAPS

USE DEF vars, qpVars, uarVars

(***************************************************************************)
(* What holds of a QP that is exported: its handler and doorbell mode are  *)
(* ones export_qp let pass, the CPU proxy has it exactly when it must, and *)
(* its pointers point to what is there.                                    *)
(***************************************************************************)
HandlerFits(q) ==
  /\ handler[q] # "AUTO"
  /\ mode[q] = "VALID" => devMode[q] = "DBR_VALID"
  /\ mode[q] = "NO_DBR_HW" => devMode[q] = "NO_DBR_EXT"
  /\ handler[q] = "SM_NO_DBR" => mode[q] # "VALID"
  /\ q \in cpuProxy <=> handler[q] = "CPU_PROXY" \/ mode[q] = "NO_DBR_SW"

WordFits(q) ==
  /\ cpuDb[q] = "page" <=> handler[q] = "CPU_PROXY"
  /\ handler[q] = "CPU_PROXY" => Page(q) \in live
  /\ Emulated(q) /\ dev[q] # None => cpuDb[q] = dev[q]
  /\ ~Emulated(q) => cpuDb[q] \in {None, "page"}
  /\ cpuDb[q] = q => dev[q] = q
  /\ cpuDb[q] = Multi => dev[q] = Multi \/ "multi_unexport" \in leaky

CopyFits(q) ==
  /\ dev[q] = q => q \in live
  /\ dev[q] = Multi => q \in array \/ "multi_copy" \in leaky
  /\ q \in array => dev[q] = Multi

Bare(q) ==
  handler[q] = "AUTO" /\ mode[q] = "VALID" /\ cpuDb[q] = None /\ dev[q] = None

(* What is allocated has an owner, but for what two of the leaky steps     *)
(* left.                                                                   *)
LiveOwned ==
  /\ \A q \in Qps : Page(q) \in live =>
       (q \in exported /\ cpuDb[q] = "page") \/ "cq_dbr" \in leaky
  /\ \A q \in Qps : q \in live => q \in exported /\ dev[q] = q
  /\ Multi \in live => array # {} \/ "multi_calloc" \in leaky

ExTyped ==
  /\ exported \subseteq Qps /\ cpuProxy \subseteq exported /\ array \subseteq exported
  /\ uar \in [Qps -> Uars] /\ devMode \in [Qps -> DeviceModes]
  /\ handler \in [Qps -> HandlerTypes] /\ mode \in [Qps -> DbrModes]
  /\ cpuDb \in [Qps -> Qps \cup {None, "page", Multi}]
  /\ dev \in [Qps -> Qps \cup {None, Multi}]
  /\ \A q \in Qps : /\ cpuDb[q] \in {None, "page", q, Multi}
                    /\ dev[q] \in {None, q, Multi}
  /\ live \subseteq Qps \cup {Multi} \cup {Page(q) : q \in Qps}
  /\ leaky \subseteq LeakySteps

ExInv ==
  /\ ExTyped
  /\ \A q \in exported : HandlerFits(q) /\ WordFits(q) /\ CopyFits(q)
  /\ \A q \in Qps \ exported : Bare(q)
  /\ array # {} /\ "multi_copy" \notin leaky => Multi \in live
  /\ LiveOwned

UarTyped == refcount \in [Uars -> Nat] /\ registered \subseteq Uars
UarInv == ExInv /\ UarTyped /\ UarBalanced

-----------------------------------------------------------------------------
LEMMA ExInitHolds == Init => ExInv
  BY QpExportAssumption
  DEF Init, ExInv, ExTyped, Bare, LiveOwned, HandlerTypes, DbrModes, LeakySteps, HandlerFits,
      WordFits, CopyFits

LEMMA ChosenFits ==
  ASSUME NEW q \in Qps, NEW h \in Handlers, NEW m \in DbrModes, h # "CPU_PROXY", ~Refused(q, h, m)
  PROVE  /\ Chosen(q, h, m) \in HandlerTypes \ {"AUTO", "CPU_PROXY"}
         /\ Chosen(q, h, m) = "SM_NO_DBR" => m # "VALID"
         /\ m = "VALID" => devMode[q] = "DBR_VALID"
         /\ m = "NO_DBR_HW" => devMode[q] = "NO_DBR_EXT"
  BY QpExportAssumption DEF Chosen, Refused, HandlerTypes, DbrModes

LEMMA ExportGpuStep ==
  ASSUME ExInv, NEW q \in Qps, NEW h \in Handlers, NEW m \in DbrModes, ExportGpu(q, h, m)
  PROVE  ExInv'
<1>1. /\ q \notin exported /\ h # "CPU_PROXY" /\ ~Refused(q, h, m)
      /\ exported' = exported \cup {q}
      /\ handler' = [handler EXCEPT ![q] = Chosen(q, h, m)]
      /\ mode' = [mode EXCEPT ![q] = m]
      /\ cpuProxy' = IF m = "NO_DBR_SW" THEN cpuProxy \cup {q} ELSE cpuProxy
      /\ UNCHANGED <<uar, devMode, cpuDb, dev, array, live, leaky>>
  BY DEF ExportGpu
<1>2. /\ Chosen(q, h, m) \in HandlerTypes \ {"AUTO", "CPU_PROXY"}
      /\ Chosen(q, h, m) = "SM_NO_DBR" => m # "VALID"
      /\ m = "VALID" => devMode[q] = "DBR_VALID"
      /\ m = "NO_DBR_HW" => devMode[q] = "NO_DBR_EXT"
  BY <1>1, ChosenFits
<1>3. ExTyped'
  BY <1>1, <1>2 DEF ExInv, ExTyped
<1>4. ASSUME NEW p \in exported' PROVE (HandlerFits(p) /\ WordFits(p) /\ CopyFits(p))'
  <2>1. CASE p = q
    BY <1>1, <1>2, <2>1, QpExportAssumption
    DEF ExInv, ExTyped, Bare, HandlerFits, WordFits, CopyFits
  <2>2. CASE p # q
    <3>1. p \in exported /\ HandlerFits(p) /\ WordFits(p) /\ CopyFits(p)
      BY <1>1, <2>2 DEF ExInv
    <3>2. handler'[p] = handler[p] /\ mode'[p] = mode[p] /\ (p \in cpuProxy' <=> p \in cpuProxy)
      BY <1>1, <2>2, <3>1 DEF ExInv, ExTyped
    <3> QED BY <1>1, <3>1, <3>2 DEF HandlerFits, WordFits, CopyFits, Emulated
  <2> QED BY <2>1, <2>2
<1>5. ASSUME NEW p \in Qps \ exported' PROVE Bare(p)'
  BY <1>1, <1>5 DEF ExInv, ExTyped, Bare
<1>6. LiveOwned'
  BY <1>1 DEF ExInv, LiveOwned
<1> QED BY <1>1, <1>3, <1>4, <1>5, <1>6 DEF ExInv

LEMMA ExportProxyStep ==
  ASSUME ExInv, NEW q \in Qps, NEW h \in Handlers, NEW m \in DbrModes, ExportProxy(q, h, m)
  PROVE  ExInv'
<1>1. /\ q \notin exported /\ ~Refused(q, h, m)
      /\ exported' = exported \cup {q}
      /\ handler' = [handler EXCEPT ![q] = "CPU_PROXY"]
      /\ mode' = [mode EXCEPT ![q] = m]
      /\ cpuProxy' = cpuProxy \cup {q}
      /\ cpuDb' = [cpuDb EXCEPT ![q] = "page"]
      /\ live' = live \cup {Page(q)}
      /\ UNCHANGED <<uar, devMode, dev, array, leaky>>
  BY DEF ExportProxy
<1>2. /\ m = "VALID" => devMode[q] = "DBR_VALID"
      /\ m = "NO_DBR_HW" => devMode[q] = "NO_DBR_EXT"
  BY <1>1 DEF Refused
<1>3. ExTyped'
  BY <1>1 DEF ExInv, ExTyped, HandlerTypes
<1>4. ASSUME NEW p \in exported' PROVE (HandlerFits(p) /\ WordFits(p) /\ CopyFits(p))'
  <2>1. CASE p = q
    BY <1>1, <1>2, <2>1, QpExportAssumption
    DEF ExInv, ExTyped, Bare, HandlerFits, WordFits, CopyFits, Emulated
  <2>2. CASE p # q
    <3>1. p \in exported /\ HandlerFits(p) /\ WordFits(p) /\ CopyFits(p)
      BY <1>1, <2>2 DEF ExInv
    <3>2. /\ handler'[p] = handler[p] /\ mode'[p] = mode[p] /\ cpuDb'[p] = cpuDb[p]
          /\ (p \in cpuProxy' <=> p \in cpuProxy)
      BY <1>1, <2>2, <3>1 DEF ExInv, ExTyped
    <3> QED BY <1>1, <3>1, <3>2 DEF HandlerFits, WordFits, CopyFits, Emulated
  <2> QED BY <2>1, <2>2
<1>5. ASSUME NEW p \in Qps \ exported' PROVE Bare(p)'
  BY <1>1, <1>5 DEF ExInv, ExTyped, Bare
<1>6. LiveOwned'
  <2>1. \A p \in Qps : Page(p) = Page(q) => p = q
    BY DEF Page
  <2>2. Page(q) \notin Qps \cup {Multi}
    BY QpExportAssumption
  <2> QED BY <1>1, <2>1, <2>2 DEF ExInv, ExTyped, LiveOwned
<1> QED BY <1>1, <1>3, <1>4, <1>5, <1>6 DEF ExInv

(* A failed export leaves at most a page, and says so.                     *)
LEMMA ExportFailsStep ==
  ASSUME ExInv, NEW q \in Qps, NEW h \in Handlers, NEW m \in DbrModes, ExportFails(q, h, m)
  PROVE  ExInv'
<1>1. /\ UNCHANGED qpVars
      /\ \/ UNCHANGED <<live, leaky>>
         \/ live' = live \cup {Page(q)} /\ leaky' = leaky \cup {"cq_dbr"}
  BY DEF ExportFails
<1>2. CASE UNCHANGED <<live, leaky>>
  BY <1>1, <1>2 DEF ExInv, ExTyped, HandlerFits, WordFits, CopyFits, Bare, LiveOwned, Emulated
<1>3. CASE live' = live \cup {Page(q)} /\ leaky' = leaky \cup {"cq_dbr"}
  <2>1. ExTyped'
    BY <1>1, <1>3 DEF ExInv, ExTyped, LeakySteps
  <2>2. \A p \in exported' : (HandlerFits(p) /\ WordFits(p) /\ CopyFits(p))'
    BY <1>1, <1>3 DEF ExInv, HandlerFits, WordFits, CopyFits, Emulated
  <2>3. LiveOwned'
    <3>1. Page(q) \notin Qps \cup {Multi}
      BY QpExportAssumption
    <3> QED BY <1>1, <1>3, <3>1 DEF ExInv, LiveOwned
  <2> QED BY <1>1, <1>3, <2>1, <2>2, <2>3 DEF ExInv, Bare
<1> QED BY <1>1, <1>2, <1>3

LEMMA GetDevStep ==
  ASSUME ExInv, NEW q \in Qps, GetDev(q)
  PROVE  ExInv'
<1>1. /\ q \in exported /\ dev[q] = None
      /\ live' = live \cup {q}
      /\ dev' = [dev EXCEPT ![q] = q]
      /\ cpuDb' = IF Emulated(q) THEN [cpuDb EXCEPT ![q] = q] ELSE cpuDb
      /\ UNCHANGED <<exported, uar, devMode, handler, mode, cpuProxy, array, leaky>>
  BY DEF GetDev, WordIn
<1>2. ExTyped'
  BY <1>1 DEF ExInv, ExTyped
<1>3. ASSUME NEW p \in exported' PROVE (HandlerFits(p) /\ WordFits(p) /\ CopyFits(p))'
  <2>0. HandlerFits(p) /\ WordFits(p) /\ CopyFits(p)
    BY <1>1 DEF ExInv
  <2>1. CASE p = q
    <3>1. q \in Qps /\ q # "page" /\ q # Multi /\ None # Multi
      BY QpExportAssumption
    <3>2. q \notin array
      BY <1>1, <2>0, <2>1, <3>1 DEF CopyFits
    <3>3. dev'[q] = q /\ cpuDb'[q] = IF Emulated(q) THEN q ELSE cpuDb[q]
      BY <1>1 DEF ExInv, ExTyped
    <3>4. HandlerFits(q)'
      BY <1>1, <2>0, <2>1 DEF HandlerFits
    <3>5. WordFits(q)'
      BY <1>1, <2>0, <2>1, <3>1, <3>3 DEF WordFits, Emulated
    <3>6. CopyFits(q)'
      BY <1>1, <3>1, <3>2, <3>3 DEF CopyFits
    <3> QED BY <2>1, <3>4, <3>5, <3>6
  <2>2. CASE p # q
    <3>1. dev'[p] = dev[p] /\ cpuDb'[p] = cpuDb[p]
      BY <1>1, <2>2 DEF ExInv, ExTyped
    <3> QED BY <1>1, <2>0, <3>1 DEF HandlerFits, WordFits, CopyFits, Emulated
  <2> QED BY <2>1, <2>2
<1>4. ASSUME NEW p \in Qps \ exported' PROVE Bare(p)'
  BY <1>1, <1>4 DEF ExInv, ExTyped, Bare
<1>5. LiveOwned'
  <2>1. q # Multi /\ q # "page" /\ \A p \in Qps : Page(p) # q
    BY QpExportAssumption
  <2>2. \A p \in Qps : p # q => dev'[p] = dev[p] /\ cpuDb'[p] = cpuDb[p]
    BY <1>1 DEF ExInv, ExTyped
  <2>3. dev'[q] = q
    BY <1>1 DEF ExInv, ExTyped
  <2>4. cpuDb[q] = "page" => ~Emulated(q)
    BY <1>1 DEF ExInv, WordFits, Emulated
  <2> QED BY <1>1, <2>1, <2>2, <2>3, <2>4 DEF ExInv, ExTyped, LiveOwned
<1> QED BY <1>1, <1>2, <1>3, <1>4, <1>5 DEF ExInv

(* A QP that is pointed into the array, and one that is not.               *)
LEMMA PointedInto ==
  ASSUME ExInv, NEW Q \in SUBSET Qps, Q \subseteq exported, \A q \in Q : dev[q] = None, PointInto(Q),
         UNCHANGED <<exported, uar, devMode, handler, mode, cpuProxy>>
  PROVE  /\ \A p \in Q : dev'[p] = Multi /\ cpuDb'[p] = IF Emulated(p) THEN Multi ELSE cpuDb[p]
         /\ \A p \in Qps \ Q : dev'[p] = dev[p] /\ cpuDb'[p] = cpuDb[p]
         /\ dev' \in [Qps -> Qps \cup {None, Multi}]
         /\ cpuDb' \in [Qps -> Qps \cup {None, "page", Multi}]
         /\ \A p \in Qps : cpuDb'[p] \in {None, "page", p, Multi} /\ dev'[p] \in {None, p, Multi}
         /\ \A p \in Qps : cpuDb'[p] = "page" <=> cpuDb[p] = "page"
         /\ \A p \in Qps : dev'[p] = p <=> dev[p] = p
<1>1. \A p \in Q : dev'[p] = Multi /\ cpuDb'[p] = IF Emulated(p) THEN Multi ELSE cpuDb[p]
  BY DEF PointInto
<1>2. \A p \in Qps \ Q : dev'[p] = dev[p] /\ cpuDb'[p] = cpuDb[p]
  BY DEF PointInto
<1>3. \A p \in Q : Emulated(p) => cpuDb[p] # "page"
  BY DEF ExInv, WordFits, Emulated
<1>4. Multi # "page" /\ \A p \in Qps : p # Multi /\ p # None
  BY QpExportAssumption
<1>5. dev' \in [Qps -> Qps \cup {None, Multi}] /\ cpuDb' \in [Qps -> Qps \cup {None, "page", Multi}]
  BY DEF PointInto, ExInv, ExTyped
<1>6. \A p \in Qps : cpuDb'[p] \in {None, "page", p, Multi} /\ dev'[p] \in {None, p, Multi}
  BY <1>1, <1>2 DEF ExInv, ExTyped
<1> QED BY <1>1, <1>2, <1>3, <1>4, <1>5, <1>6

LEMMA ExportMultiStep ==
  ASSUME ExInv, NEW Q \in SUBSET Qps, ExportMulti(Q)
  PROVE  ExInv'
<1>1. /\ Q # {} /\ Q \subseteq exported /\ array = {} /\ \A q \in Q : dev[q] = None
      /\ PointInto(Q) /\ live' = live \cup {Multi} /\ array' = Q
      /\ UNCHANGED <<exported, uar, devMode, handler, mode, cpuProxy, leaky>>
  BY DEF ExportMulti
<1>2. /\ \A p \in Q : dev'[p] = Multi /\ cpuDb'[p] = IF Emulated(p) THEN Multi ELSE cpuDb[p]
      /\ \A p \in Qps \ Q : dev'[p] = dev[p] /\ cpuDb'[p] = cpuDb[p]
      /\ dev' \in [Qps -> Qps \cup {None, Multi}]
      /\ cpuDb' \in [Qps -> Qps \cup {None, "page", Multi}]
      /\ \A p \in Qps : cpuDb'[p] \in {None, "page", p, Multi} /\ dev'[p] \in {None, p, Multi}
      /\ \A p \in Qps : cpuDb'[p] = "page" <=> cpuDb[p] = "page"
      /\ \A p \in Qps : dev'[p] = p <=> dev[p] = p
  BY <1>1, PointedInto
<1>3. ExTyped'
  BY <1>1, <1>2 DEF ExInv, ExTyped
<1>4. ASSUME NEW p \in exported' PROVE (HandlerFits(p) /\ WordFits(p) /\ CopyFits(p))'
  <2>0. p \in Qps /\ HandlerFits(p) /\ WordFits(p) /\ CopyFits(p)
    BY <1>1 DEF ExInv, ExTyped
  <2>1. HandlerFits(p)'
    BY <1>1, <2>0 DEF HandlerFits
  <2>2. WordFits(p)'
    BY <1>1, <1>2, <2>0 DEF WordFits, Emulated
  <2>3. CopyFits(p)'
    BY <1>1, <1>2, <2>0, QpExportAssumption DEF CopyFits
  <2> QED BY <2>1, <2>2, <2>3
<1>5. ASSUME NEW p \in Qps \ exported' PROVE Bare(p)'
  BY <1>1, <1>2, <1>5 DEF ExInv, Bare
<1>6. LiveOwned'
  BY <1>1, <1>2, QpExportAssumption DEF ExInv, LiveOwned
<1> QED BY <1>1, <1>3, <1>4, <1>5, <1>6 DEF ExInv

LEMMA ExportMultiFailsStep ==
  ASSUME ExInv, NEW Q \in SUBSET Qps, ExportMultiFails(Q)
  PROVE  ExInv'
<1>1. /\ Q # {} /\ Q \subseteq exported /\ array = {} /\ \A q \in Q : dev[q] = None
      /\ UNCHANGED <<exported, uar, devMode, handler, mode, cpuProxy, array>>
      /\ \/ UNCHANGED <<dev, cpuDb, live, leaky>>
         \/ /\ live' = live \cup {Multi} /\ leaky' = leaky \cup {"multi_calloc"}
            /\ UNCHANGED <<dev, cpuDb>>
         \/ PointInto(Q) /\ leaky' = leaky \cup {"multi_copy"} /\ UNCHANGED live
  BY DEF ExportMultiFails
<1>2. CASE UNCHANGED <<dev, cpuDb, live, leaky>>
  BY <1>1, <1>2 DEF ExInv, ExTyped, HandlerFits, WordFits, CopyFits, Bare, LiveOwned, Emulated
<1>3. CASE /\ live' = live \cup {Multi} /\ leaky' = leaky \cup {"multi_calloc"}
           /\ UNCHANGED <<dev, cpuDb>>
  <2>1. ExTyped'
    BY <1>1, <1>3 DEF ExInv, ExTyped, LeakySteps
  <2>2. \A p \in exported' : (HandlerFits(p) /\ WordFits(p) /\ CopyFits(p))'
    BY <1>1, <1>3 DEF ExInv, HandlerFits, WordFits, CopyFits, Emulated
  <2>3. LiveOwned'
    BY <1>1, <1>3, QpExportAssumption DEF ExInv, LiveOwned
  <2> QED BY <1>1, <1>3, <2>1, <2>2, <2>3 DEF ExInv, Bare
<1>4. CASE PointInto(Q) /\ leaky' = leaky \cup {"multi_copy"} /\ UNCHANGED live
  <2>1. /\ \A p \in Q : dev'[p] = Multi /\ cpuDb'[p] = IF Emulated(p) THEN Multi ELSE cpuDb[p]
        /\ \A p \in Qps \ Q : dev'[p] = dev[p] /\ cpuDb'[p] = cpuDb[p]
        /\ dev' \in [Qps -> Qps \cup {None, Multi}]
        /\ cpuDb' \in [Qps -> Qps \cup {None, "page", Multi}]
        /\ \A p \in Qps : cpuDb'[p] \in {None, "page", p, Multi} /\ dev'[p] \in {None, p, Multi}
        /\ \A p \in Qps : cpuDb'[p] = "page" <=> cpuDb[p] = "page"
        /\ \A p \in Qps : dev'[p] = p <=> dev[p] = p
    BY <1>1, <1>4, PointedInto
  <2>2. ExTyped'
    BY <1>1, <1>4, <2>1 DEF ExInv, ExTyped, LeakySteps
  <2>3. ASSUME NEW p \in exported' PROVE (HandlerFits(p) /\ WordFits(p) /\ CopyFits(p))'
    <3>0. p \in Qps /\ HandlerFits(p) /\ WordFits(p) /\ CopyFits(p)
      BY <1>1 DEF ExInv, ExTyped
    <3>1. HandlerFits(p)'
      BY <1>1, <3>0 DEF HandlerFits
    <3>2. WordFits(p)'
      BY <1>1, <1>4, <2>1, <3>0 DEF WordFits, Emulated
    <3>3. CopyFits(p)'
      BY <1>1, <1>4, <2>1, <3>0, QpExportAssumption DEF CopyFits
    <3> QED BY <3>1, <3>2, <3>3
  <2>4. ASSUME NEW p \in Qps \ exported' PROVE Bare(p)'
    BY <1>1, <2>1, <2>4 DEF ExInv, Bare
  <2>5. LiveOwned'
    BY <1>1, <1>4, <2>1 DEF ExInv, LiveOwned
  <2> QED BY <1>1, <1>4, <2>2, <2>3, <2>4, <2>5 DEF ExInv
<1> QED BY <1>1, <1>2, <1>3, <1>4

LEMMA UnexportMultiStep ==
  ASSUME ExInv, UnexportMulti
  PROVE  ExInv'
<1>1. /\ array # {}
      /\ dev' = [q \in Qps |-> IF q \in array THEN None ELSE dev[q]]
      /\ live' = live \ {Multi} /\ array' = {}
      /\ leaky' = IF \E q \in array : Emulated(q) THEN leaky \cup {"multi_unexport"} ELSE leaky
      /\ UNCHANGED <<exported, uar, devMode, handler, mode, cpuProxy, cpuDb>>
  BY DEF UnexportMulti
<1>2. /\ None # Multi /\ \A p \in Qps : p # Multi /\ p # None /\ Page(p) # Multi
  BY QpExportAssumption
<1>3. ExTyped'
  BY <1>1 DEF ExInv, ExTyped, LeakySteps
<1>4. ASSUME NEW p \in exported' PROVE (HandlerFits(p) /\ WordFits(p) /\ CopyFits(p))'
  <2>0. p \in Qps /\ HandlerFits(p) /\ WordFits(p) /\ CopyFits(p)
    BY <1>1 DEF ExInv, ExTyped
  <2>1. dev'[p] = IF p \in array THEN None ELSE dev[p]
    BY <1>1, <2>0
  <2>2. leaky \subseteq leaky' /\ ("multi_copy" \in leaky' <=> "multi_copy" \in leaky)
    BY <1>1
  <2>3. HandlerFits(p)'
    BY <1>1, <2>0 DEF HandlerFits
  <2>4. WordFits(p)'
    <3>1. /\ cpuDb'[p] = cpuDb[p] /\ handler'[p] = handler[p] /\ (Emulated(p)' <=> Emulated(p))
          /\ (Page(p) \in live' <=> Page(p) \in live)
      BY <1>1, <1>2, <2>0 DEF Emulated
    <3>2. cpuDb[p] = p => dev'[p] = p
      BY <1>2, <2>0, <2>1 DEF WordFits, CopyFits
    <3>3. p \in array /\ cpuDb[p] = Multi => "multi_unexport" \in leaky'
      <4>1. cpuDb[p] = Multi => Emulated(p)
        BY <2>0, QpExportAssumption DEF WordFits
      <4> QED BY <1>1, <4>1
    <3>4. cpuDb[p] = Multi => dev'[p] = Multi \/ "multi_unexport" \in leaky'
      BY <2>0, <2>1, <2>2, <3>3 DEF WordFits
    <3>5. Emulated(p) /\ dev'[p] # None => cpuDb[p] = dev'[p]
      BY <2>0, <2>1 DEF WordFits
    <3> QED BY <2>0, <3>1, <3>2, <3>4, <3>5 DEF WordFits
  <2>5. CopyFits(p)'
    BY <1>1, <1>2, <2>0, <2>1, <2>2 DEF CopyFits
  <2> QED BY <2>3, <2>4, <2>5
<1>5. ASSUME NEW p \in Qps \ exported' PROVE Bare(p)'
  BY <1>1, <1>5 DEF ExInv, Bare
<1>6. LiveOwned'
  <2>1. \A p \in Qps : dev[p] = p => dev'[p] = p
    BY <1>1, <1>2 DEF ExInv, ExTyped, CopyFits
  <2> QED BY <1>1, <1>2, <2>1 DEF ExInv, LiveOwned
<1> QED BY <1>1, <1>3, <1>4, <1>5, <1>6 DEF ExInv

LEMMA UnexportStep ==
  ASSUME ExInv, NEW q \in Qps, Unexport(q)
  PROVE  ExInv'
<1>1. /\ q \in exported /\ q \notin array
      /\ live' = live \ ({dev[q]} \cup (IF cpuDb[q] = "page" THEN {Page(q)} ELSE {}))
      /\ exported' = exported \ {q} /\ cpuProxy' = cpuProxy \ {q}
      /\ cpuDb' = [cpuDb EXCEPT ![q] = None] /\ dev' = [dev EXCEPT ![q] = None]
      /\ handler' = [handler EXCEPT ![q] = "AUTO"] /\ mode' = [mode EXCEPT ![q] = "VALID"]
      /\ UNCHANGED <<uar, devMode, array, leaky>>
  BY DEF Unexport, FreedWith
<1>2. /\ None # Multi
      /\ \A p \in Qps : /\ p # Multi /\ p # None /\ Page(p) \notin Qps \cup {None, Multi}
                        /\ (Page(p) = Page(q) => p = q)
  BY QpExportAssumption DEF Page
<1>3. ExTyped'
  BY <1>1 DEF ExInv, ExTyped, HandlerTypes, DbrModes
<1>4. \A p \in Qps \ {q} : /\ dev'[p] = dev[p] /\ cpuDb'[p] = cpuDb[p] /\ handler'[p] = handler[p]
                           /\ mode'[p] = mode[p] /\ (p \in cpuProxy' <=> p \in cpuProxy)
                           /\ (p \in live' <=> p \in live) /\ (Page(p) \in live' <=> Page(p) \in live)
  BY <1>1, <1>2 DEF ExInv, ExTyped
<1>5. ASSUME NEW p \in exported' PROVE (HandlerFits(p) /\ WordFits(p) /\ CopyFits(p))'
  <2>0. p \in Qps \ {q} /\ HandlerFits(p) /\ WordFits(p) /\ CopyFits(p)
    BY <1>1 DEF ExInv, ExTyped
  <2>1. HandlerFits(p)'
    BY <1>1, <1>4, <2>0 DEF HandlerFits
  <2>2. WordFits(p)'
    BY <1>1, <1>4, <2>0 DEF WordFits, Emulated
  <2>3. CopyFits(p)'
    BY <1>1, <1>4, <2>0 DEF CopyFits
  <2> QED BY <2>1, <2>2, <2>3
<1>6. ASSUME NEW p \in Qps \ exported' PROVE Bare(p)'
  BY <1>1, <1>4, <1>6 DEF ExInv, ExTyped, Bare
<1>7. array' # {} /\ "multi_copy" \notin leaky' => Multi \in live'
  <2>1. "multi_copy" \notin leaky => dev[q] # Multi
    BY <1>1 DEF ExInv, CopyFits
  <2> QED BY <1>1, <1>2, <2>1 DEF ExInv
<1>8. LiveOwned'
  <2>1. q \notin live'
    BY <1>1 DEF ExInv, LiveOwned
  <2>2. Page(q) \in live' => "cq_dbr" \in leaky'
    BY <1>1 DEF ExInv, LiveOwned
  <2>3. Multi \in live' => array' # {} \/ "multi_calloc" \in leaky'
    BY <1>1 DEF ExInv, LiveOwned
  <2> QED BY <1>1, <1>4, <2>1, <2>2, <2>3 DEF ExInv, LiveOwned
<1> QED BY <1>3, <1>5, <1>6, <1>7, <1>8 DEF ExInv

LEMMA ExNextHolds == ExInv /\ [Next]_vars => ExInv'
<1> SUFFICES ASSUME ExInv, [Next]_vars PROVE ExInv'
  OBVIOUS
<1>1. CASE UnexportMulti
  BY <1>1, UnexportMultiStep
<1>2. CASE \E Q \in SUBSET Qps : ExportMulti(Q) \/ ExportMultiFails(Q)
  BY <1>2, ExportMultiStep, ExportMultiFailsStep
<1>3. ASSUME NEW q \in Qps, GetDev(q) \/ Unexport(q) PROVE ExInv'
  BY <1>3, GetDevStep, UnexportStep
<1>4. ASSUME NEW q \in Qps, NEW h \in Handlers, NEW m \in DbrModes,
             ExportGpu(q, h, m) \/ ExportProxy(q, h, m) \/ ExportFails(q, h, m)
      PROVE  ExInv'
  BY <1>4, ExportGpuStep, ExportProxyStep, ExportFailsStep
<1>5. ASSUME UNCHANGED <<qpVars, live, leaky>> PROVE ExInv'
  BY <1>5 DEF ExInv, ExTyped, HandlerFits, WordFits, CopyFits, Bare, LiveOwned, Emulated
<1>6. ASSUME NEW q \in Qps, GetDevFails(q) PROVE ExInv'
  BY <1>5, <1>6 DEF GetDevFails
<1>7. UNCHANGED vars => ExInv'
  BY <1>5
<1> QED BY <1>1, <1>2, <1>3, <1>4, <1>6, <1>7 DEF Next

-----------------------------------------------------------------------------
(* The registrations.  What one step does to the GPU's users of a UAR.     *)

LEMMA UsersFinite ==
  ASSUME ExTyped, NEW u \in Uars
  PROVE  IsFiniteSet(GpuUsers(u)) /\ Cardinality(GpuUsers(u)) \in Nat
<1>1. GpuUsers(u) \subseteq Qps
  BY DEF ExTyped, GpuUsers
<1>2. IsFiniteSet(GpuUsers(u))
  BY <1>1, QpExportAssumption, FS_Subset
<1> QED BY <1>2, FS_CardinalityType

LEMMA UarInitHolds == Init => UarInv
<1> SUFFICES ASSUME Init PROVE UarInv
  OBVIOUS
<1>1. UarTyped
  BY DEF Init, UarTyped
<1>2. ASSUME NEW u \in Uars
      PROVE  refcount[u] = Cardinality(GpuUsers(u)) /\ (u \in registered <=> refcount[u] > 0)
  <2>1. GpuUsers(u) = {}
    BY DEF Init, GpuUsers
  <2> QED BY <2>1, FS_EmptySet DEF Init
<1> QED BY <1>1, <1>2, ExInitHolds DEF UarInv, UarBalanced

(* A step that leaves the UARs, and who uses them, alone.                  *)
LEMMA UsersKept ==
  ASSUME UarInv, ExInv', UNCHANGED uarVars, \A u \in Uars : GpuUsers(u)' = GpuUsers(u)
  PROVE  UarInv'
  BY DEF UarInv, UarTyped, UarBalanced

LEMMA ExportUarStep ==
  ASSUME UarInv, ExInv', NEW q \in Qps, NEW h \in Handlers, NEW m \in DbrModes, ExportGpu(q, h, m)
  PROVE  UarInv'
<1>1. /\ q \notin exported /\ h # "CPU_PROXY" /\ ~Refused(q, h, m)
      /\ exported' = exported \cup {q}
      /\ handler' = [handler EXCEPT ![q] = Chosen(q, h, m)]
      /\ refcount' = [refcount EXCEPT ![uar[q]] = @ + 1]
      /\ registered' = registered \cup {uar[q]}
      /\ UNCHANGED uar
  BY DEF ExportGpu, ExportUar
<1>2. Chosen(q, h, m) \in HandlerTypes /\ Chosen(q, h, m) # "CPU_PROXY"
  BY <1>1, ChosenFits
<1>3. uar[q] \in Uars /\ refcount \in [Uars -> Nat]
  BY DEF UarInv, ExInv, ExTyped, UarTyped
<1>4. UarTyped'
  BY <1>1, <1>3 DEF UarInv, UarTyped
<1>5. \A p \in exported : p # q /\ handler'[p] = handler[p]
  BY <1>1 DEF UarInv, ExInv, ExTyped
<1>6. handler'[q] # "CPU_PROXY"
  BY <1>1, <1>2 DEF UarInv, ExInv, ExTyped
<1>7. ASSUME NEW u \in Uars
      PROVE  (refcount[u] = Cardinality(GpuUsers(u)) /\ (u \in registered <=> refcount[u] > 0))'
  <2>1. refcount[u] = Cardinality(GpuUsers(u)) /\ (u \in registered <=> refcount[u] > 0)
    BY DEF UarInv, UarBalanced
  <2>2. CASE u = uar[q]
    <3>1. GpuUsers(u)' = GpuUsers(u) \cup {q} /\ q \notin GpuUsers(u)
      BY <1>1, <1>5, <1>6, <2>2 DEF GpuUsers
    <3>2. Cardinality(GpuUsers(u) \cup {q}) = Cardinality(GpuUsers(u)) + 1
      BY <3>1, UsersFinite, FS_AddElement DEF UarInv, ExInv
    <3>3. refcount'[u] = refcount[u] + 1 /\ refcount[u] \in Nat /\ u \in registered'
      BY <1>1, <1>3, <2>2
    <3> QED BY <2>1, <3>1, <3>2, <3>3
  <2>3. CASE u # uar[q]
    <3>1. GpuUsers(u)' = GpuUsers(u)
      BY <1>1, <1>5, <2>3 DEF GpuUsers
    <3> QED BY <1>1, <1>3, <2>1, <2>3, <3>1
  <2> QED BY <2>2, <2>3
<1> QED BY <1>4, <1>7 DEF UarInv, UarBalanced

LEMMA UnexportUarStep ==
  ASSUME SameAddress, UarInv, ExInv', NEW q \in Qps, Unexport(q)
  PROVE  UarInv'
<1>1. /\ q \in exported /\ exported' = exported \ {q}
      /\ handler' = [handler EXCEPT ![q] = "AUTO"]
      /\ ReleaseUar(q) /\ UNCHANGED uar
  BY DEF Unexport
<1>2. uar[q] \in Uars /\ refcount \in [Uars -> Nat]
  BY DEF UarInv, ExInv, ExTyped, UarTyped
<1>3. \A p \in exported' : handler'[p] = handler[p]
  BY <1>1 DEF UarInv, ExInv, ExTyped
<1>4. \A u \in Uars : GpuUsers(u)' = GpuUsers(u) \ {q}
  BY <1>1, <1>3 DEF GpuUsers
<1>5. CASE handler[q] = "CPU_PROXY"
  <2>1. \A u \in Uars : GpuUsers(u)' = GpuUsers(u)
    BY <1>4, <1>5 DEF GpuUsers
  <2> QED BY <1>1, <1>5, <2>1, UsersKept DEF ReleaseUar
<1>6. CASE handler[q] # "CPU_PROXY"
  <2> DEFINE v == uar[q]
  <2>1. /\ refcount' = [refcount EXCEPT ![v] = @ - 1]
        /\ registered' = IF refcount[v] = 1 THEN registered \ {v} ELSE registered
    BY <1>1, <1>6 DEF ReleaseUar, UnexportUar
  <2>2. refcount[v] = Cardinality(GpuUsers(v)) /\ q \in GpuUsers(v)
    BY <1>1, <1>2, <1>6 DEF UarInv, UarBalanced, GpuUsers
  <2>3. Cardinality(GpuUsers(v) \ {q}) = Cardinality(GpuUsers(v)) - 1
    BY <1>2, <2>2, UsersFinite, FS_RemoveElement DEF UarInv, ExInv
  <2>4. Cardinality(GpuUsers(v)) >= 1
    <3>1. IsFiniteSet(GpuUsers(v) \ {q}) /\ Cardinality(GpuUsers(v) \ {q}) \in Nat
      BY <1>2, UsersFinite, FS_RemoveElement, FS_CardinalityType DEF UarInv, ExInv
    <3> QED BY <1>2, <2>3, <3>1, UsersFinite DEF UarInv, ExInv
  <2>5. refcount' \in [Uars -> Nat] /\ registered' \subseteq Uars
    <3>1. refcount[v] - 1 \in Nat
      BY <1>2, <2>2, <2>4
    <3> QED BY <1>2, <2>1, <3>1 DEF UarInv, UarTyped
  <2>6. ASSUME NEW u \in Uars
        PROVE  (refcount[u] = Cardinality(GpuUsers(u)) /\ (u \in registered <=> refcount[u] > 0))'
    <3>1. refcount[u] = Cardinality(GpuUsers(u)) /\ (u \in registered <=> refcount[u] > 0)
      BY DEF UarInv, UarBalanced
    <3>2. CASE u = v
      <4>1. refcount'[u] = refcount[u] - 1 /\ refcount[u] \in Nat
        BY <1>2, <2>1, <3>2
      <4>2. refcount'[u] = Cardinality(GpuUsers(u)')
        BY <1>4, <2>3, <3>1, <3>2, <4>1
      <4>3. u \in registered' <=> refcount[u] # 1
        <5>1. refcount[v] = refcount[u] /\ refcount[u] >= 1 /\ u \in registered
          BY <2>2, <2>4, <3>1, <3>2, <4>1
        <5>2. CASE refcount[v] = 1
          BY <2>1, <3>2, <5>1, <5>2
        <5>3. CASE refcount[v] # 1
          BY <2>1, <5>1, <5>3
        <5> QED BY <5>2, <5>3
      <4> QED BY <2>2, <2>4, <3>2, <4>1, <4>2, <4>3
    <3>3. CASE u # v
      <4>1. GpuUsers(u)' = GpuUsers(u)
        BY <1>4, <3>3 DEF GpuUsers
      <4>2. refcount'[u] = refcount[u] /\ (u \in registered' <=> u \in registered)
        BY <1>2, <2>1, <3>3
      <4> QED BY <3>1, <4>1, <4>2
    <3> QED BY <3>2, <3>3
  <2> HIDE DEF v
  <2> QED BY <2>5, <2>6 DEF UarInv, UarTyped, UarBalanced
<1> QED BY <1>5, <1>6

LEMMA UarNextHolds == SameAddress /\ UarInv /\ [Next]_vars => UarInv'
<1> SUFFICES ASSUME SameAddress, UarInv, [Next]_vars PROVE UarInv'
  OBVIOUS
<1>1. ExInv'
  BY ExNextHolds DEF UarInv
<1>2. ASSUME UNCHANGED <<uarVars, exported, uar, handler>> PROVE UarInv'
  <2>1. \A u \in Uars : GpuUsers(u)' = GpuUsers(u)
    BY <1>2 DEF GpuUsers
  <2> QED BY <1>1, <1>2, <2>1, UsersKept
<1>3. CASE UnexportMulti
  BY <1>2, <1>3 DEF UnexportMulti
<1>4. ASSUME NEW Q \in SUBSET Qps, ExportMulti(Q) \/ ExportMultiFails(Q) PROVE UarInv'
  BY <1>2, <1>4 DEF ExportMulti, ExportMultiFails
<1>5. ASSUME NEW q \in Qps, GetDev(q) \/ GetDevFails(q) PROVE UarInv'
  BY <1>2, <1>5 DEF GetDev, GetDevFails
<1>6. ASSUME NEW q \in Qps, Unexport(q) PROVE UarInv'
  BY <1>1, <1>6, UnexportUarStep
<1>7. ASSUME NEW q \in Qps, NEW h \in Handlers, NEW m \in DbrModes PROVE
        /\ ExportGpu(q, h, m) => UarInv'
        /\ ExportProxy(q, h, m) => UarInv'
        /\ ExportFails(q, h, m) => UarInv'
  <2>1. ExportGpu(q, h, m) => UarInv'
    BY <1>1, ExportUarStep
  <2>2. ASSUME ExportProxy(q, h, m) PROVE UarInv'
    <3>1. /\ q \notin exported /\ exported' = exported \cup {q}
          /\ handler' = [handler EXCEPT ![q] = "CPU_PROXY"]
          /\ UNCHANGED <<uar, uarVars>>
      BY <2>2 DEF ExportProxy
    <3>2. handler'[q] = "CPU_PROXY" /\ \A p \in exported : handler'[p] = handler[p]
      BY <3>1 DEF UarInv, ExInv, ExTyped
    <3>3. \A u \in Uars : GpuUsers(u)' = GpuUsers(u)
      BY <3>1, <3>2 DEF GpuUsers
    <3> QED BY <1>1, <3>1, <3>3, UsersKept
  <2>3. ExportFails(q, h, m) => UarInv'
    BY <1>2 DEF ExportFails
  <2> QED BY <2>1, <2>2, <2>3
<1>8. UNCHANGED vars => UarInv'
  BY <1>2
<1> QED BY <1>3, <1>4, <1>5, <1>6, <1>7, <1>8 DEF Next

-----------------------------------------------------------------------------
(* What the invariants are for.                                            *)

LEMMA ExNothingLost == UarInv => NothingLost
<1> SUFFICES ASSUME UarInv, leaky \cap {"cq_dbr", "multi_calloc"} = {}, NEW x \in live
             PROVE  x \in Owned
  BY DEF NothingLost, UarInv
<1>0. "cq_dbr" \notin leaky /\ "multi_calloc" \notin leaky
  OBVIOUS
<1>1. CASE x \in Qps
  BY <1>1 DEF UarInv, ExInv, LiveOwned, Owned
<1>2. CASE x = Multi
  BY <1>0, <1>2 DEF UarInv, ExInv, LiveOwned, Owned
<1>3. ASSUME NEW q \in Qps, x = Page(q) PROVE x \in Owned
  BY <1>0, <1>3 DEF UarInv, ExInv, LiveOwned, Owned
<1> QED BY <1>1, <1>2, <1>3 DEF UarInv, ExInv, ExTyped

LEMMA ExPointersLive == ExInv => PointersLive
<1> SUFFICES ASSUME ExInv PROVE PointersLive
  OBVIOUS
<1>1. WordIsRead
  <2> SUFFICES ASSUME NEW q \in cpuProxy
               PROVE  IF handler[q] = "CPU_PROXY"
                        THEN cpuDb[q] = "page" /\ Page(q) \in live
                        ELSE /\ dev[q] # None => cpuDb[q] = dev[q]
                             /\ cpuDb[q] \in live \cup {None} \/ Forsaken(q) \/ FillFailed(q)
    BY DEF WordIsRead
  <2>1. /\ q \in Qps /\ q \in exported /\ HandlerFits(q) /\ WordFits(q) /\ CopyFits(q)
        /\ cpuDb[q] \in {None, "page", q, Multi} /\ dev[q] \in {None, q, Multi}
    BY DEF ExInv, ExTyped
  <2>2. CASE handler[q] = "CPU_PROXY"
    BY <2>1, <2>2 DEF WordFits
  <2>3. CASE handler[q] # "CPU_PROXY"
    <3>1. Emulated(q) /\ cpuDb[q] # "page"
      BY <2>1, <2>3 DEF HandlerFits, WordFits, Emulated
    <3>2. dev[q] # None => cpuDb[q] = dev[q]
      BY <2>1, <3>1 DEF WordFits
    <3>3. CASE cpuDb[q] = q
      BY <2>1, <2>3, <3>2, <3>3 DEF WordFits, CopyFits
    <3>4. CASE cpuDb[q] = Multi /\ dev[q] = Multi
      <4>1. Multi \in live \/ "multi_copy" \in leaky
        BY <2>1, <3>4 DEF ExInv, CopyFits
      <4> QED BY <2>3, <3>2, <3>4, <4>1 DEF FillFailed
    <3>5. CASE cpuDb[q] = Multi /\ dev[q] # Multi
      <4>1. dev[q] = None /\ "multi_unexport" \in leaky
        BY <2>1, <3>2, <3>5 DEF WordFits
      <4> QED BY <2>3, <3>5, <4>1 DEF Forsaken
    <3> QED BY <2>1, <2>3, <3>1, <3>2, <3>3, <3>4, <3>5
  <2> QED BY <2>2, <2>3
<1>2. ASSUME "multi_copy" \notin leaky, NEW q \in exported PROVE dev[q] = None \/ dev[q] \in live
  <2>1. q \in Qps /\ CopyFits(q) /\ dev[q] \in {None, q, Multi}
    BY DEF ExInv, ExTyped
  <2> QED BY <1>2, <2>1 DEF ExInv, CopyFits
<1> QED BY <1>1, <1>2 DEF PointersLive

LEMMA ExSubmits == ExInv => SubmitReachesDevice
<1> SUFFICES ASSUME ExInv, NEW q \in Submittable
             PROVE  /\ devMode[q] = "DBR_VALID" => Submit(q) = "submit_db" \/ q \in cpuProxy
                    /\ Submit(q) = "submit_proxy" => cpuDb[q] = "page"
  BY DEF SubmitReachesDevice
<1>1. /\ q \in exported /\ q \in Qps /\ handler[q] # "SM_BF" /\ HandlerFits(q) /\ WordFits(q)
      /\ handler[q] \in HandlerTypes /\ mode[q] \in DbrModes
  BY DEF ExInv, ExTyped, Submittable
<1>2. handler[q] = "SM_DB" \/ handler[q] = "SM_NO_DBR" \/ handler[q] = "CPU_PROXY"
  BY <1>1 DEF HandlerTypes, HandlerFits
<1>3. CASE handler[q] = "SM_DB"
  BY <1>3 DEF Submit
<1>4. CASE handler[q] = "SM_NO_DBR"
  <2>1. Submit(q) = "submit_db_no_dbr"
    BY <1>4 DEF Submit
  <2> QED BY <1>1, <1>4, <2>1 DEF HandlerFits, DbrModes
<1>5. CASE handler[q] = "CPU_PROXY"
  BY <1>1, <1>5 DEF HandlerFits, WordFits
<1> QED BY <1>2, <1>3, <1>4, <1>5

LEMMA ExTypeOK == UarInv => TypeOK
<1> SUFFICES ASSUME UarInv PROVE TypeOK
  OBVIOUS
<1>1. ASSUME NEW u \in Uars PROVE refcount[u] \in 0 .. Cardinality(Qps)
  <2>1. GpuUsers(u) \subseteq Qps
    BY DEF UarInv, ExInv, ExTyped, GpuUsers
  <2>2. Cardinality(GpuUsers(u)) <= Cardinality(Qps) /\ Cardinality(Qps) \in Nat
    BY <2>1, QpExportAssumption, FS_Subset, FS_CardinalityType
  <2> QED BY <2>2, UsersFinite DEF UarInv, UarBalanced, UarTyped, ExInv
<1>2. refcount \in [Uars -> 0 .. Cardinality(Qps)]
  BY <1>1 DEF UarInv, UarTyped
<1> QED BY <1>2 DEF TypeOK, UarInv, UarTyped, ExInv, ExTyped

-----------------------------------------------------------------------------
(* The pointers of a QP, after any calls of export_qp, get_qp_dev and the  *)
(* array's functions, failed or not.  The word the service thread reads is *)
(* the CPU proxy's page, or sq_wqe_pi of the copy the QP has, and it is    *)
(* there; but before the first copy it is null, and in an array that was   *)
(* withdrawn, or whose filling failed, it dangles.  Device copies are      *)
(* there but in such a filling.                                            *)
THEOREM PointersStayLive == Spec => []PointersLive
<1>1. Spec => []ExInv
  BY ExInitHolds, ExNextHolds, PTL DEF Spec
<1> QED BY <1>1, ExPointersLive, PTL

(* The handler and doorbell mode export_qp lets through are ones with      *)
(* which a kernel's submit reaches the device.                             *)
THEOREM SubmitReaches == Spec => []SubmitReachesDevice
<1>1. Spec => []ExInv
  BY ExInitHolds, ExNextHolds, PTL DEF Spec
<1> QED BY <1>1, ExSubmits, PTL

(* Every variable of the export keeps its type, the count of a UAR's       *)
(* registrations included, where CUDA maps a page at its host address.     *)
THEOREM ExportTyped == ASSUME SameAddress PROVE Spec => []TypeOK
<1>1. Spec => []UarInv
  BY UarInitHolds, UarNextHolds, PTL DEF Spec
<1> QED BY <1>1, ExTypeOK, PTL

(* Where CUDA maps a page at its host address, a UAR is registered exactly *)
(* while a QP rings it from the GPU, and no memory is lost but by the two  *)
(* steps whose error path forgets it.                                      *)
THEOREM ExportBalanced == ASSUME SameAddress PROVE Spec => []NothingLost
<1>1. Spec => []UarInv
  BY UarInitHolds, UarNextHolds, PTL DEF Spec
<1> QED BY <1>1, ExNothingLost, PTL
=============================================================================
