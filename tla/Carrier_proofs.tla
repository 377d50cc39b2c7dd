--------------------------- MODULE Carrier_proofs ---------------------------
(***************************************************************************)
(* Theorems about Carrier, for every number of lanes and outputs, every    *)
(* set of circuits and every transfer that fails: what is measured during  *)
(* a calibration, and that a successful one restores the circuit.          *)
(***************************************************************************)
EXTENDS Carrier, TLAPS

-----------------------------------------------------------------------------
(* Types *)

\* The parts of a circuit have their types.
LEMMA CircuitFields ==
  ASSUME NEW m \in Circuit
  PROVE  /\ m.u \in UStates /\ m.c \in CStates /\ m.i \in IStates /\ m.sh \in SHStates
         /\ m.bus \in {"ADC", "CL0_GAIN"} /\ m.mux \in Channels /\ m.acl \in ACLs
         /\ m.u.conn \subseteq Lanes /\ m.u.modes \in Modes \X Modes /\ m.u.ref \in {"ONE", "ONE_TENTH"}
         /\ m.c.factors \in Factors /\ m.c.gains \in [Lanes -> {"one", "corrected"}]
         /\ m.i.out \in [Lanes -> Outputs \cup {-1}] /\ m.i.upscaling \subseteq Lanes
BY DEF Circuit, UStates, CStates, IStates

\* Transmission modes that are all the same
LEMMA AllModes ==
  ASSUME NEW mode \in Modes
  PROVE  All(mode) \in Modes \X Modes
BY DEF All

\* The circuit after a reset, and what Done() leaves behind.
LEMMA DefaultType ==
  /\ Default \in Circuit
  /\ NoLocals.old \in [acl : ACLs, bus : {"ADC", "CL0_GAIN"}, u : UStates, factors : Factors,
                       upscaling : SUBSET Lanes, offset_modes : Modes \X Modes]
  /\ NoLocals.before = Default
<1>1. All("ANALOG_INPUT") \in Modes \X Modes
  BY AllModes DEF Modes
<1>2. Default.u \in UStates
  BY <1>1 DEF Default, UStates
<1>3. Default.c \in CStates
  BY DEF Default, CStates, Factors
<1>4. Default.i \in IStates
  BY DEF Default, IStates
<1>5. Default \in Circuit
  BY <1>2, <1>3, <1>4 DEF Default, Circuit, SHStates, Channels, ACLs
<1>6. NoLocals.old \in [acl : ACLs, bus : {"ADC", "CL0_GAIN"}, u : UStates, factors : Factors,
                       upscaling : SUBSET Lanes, offset_modes : Modes \X Modes]
  <2>1. Default.u.modes \in Modes \X Modes /\ Default.c.factors \in Factors
    BY <1>5, CircuitFields
  <2> QED BY <1>2, <2>1 DEF NoLocals, ACLs
<1> QED BY <1>5, <1>6 DEF NoLocals
-----------------------------------------------------------------------------
(* The inductive invariant *)

\* A lane is being calibrated; the loops are left; the cluster is being calibrated.
LaneActive == pc \in {"gain", "measure"} \/ (pc \in {"offsets", "compensate"} /\ caller = "lane")
Ending == pc \in {"modes", "upscaling"} \/ (pc \in {"offsets", "compensate"} /\ caller = "end")
InCluster == pc = "lane" \/ LaneActive \/ Ending

\* The cluster is left; a calibration of routes is going on.
Leaving == pc \in {"restore_bus", "restore_acl"}
InRoutes == pc \in {"bus", "clear"} \/ InCluster \/ Leaving

\* The ACL, the ADC channels and the ADC bus
CarrierInv ==
  /\ InRoutes => /\ old.acl = before.acl /\ mem.mux = before.mux
                 /\ mem.acl = "INTERNAL" /\ hw.acl = "INTERNAL"
  /\ pc = "bus" => mem.bus = before.bus
  /\ pc \in {"clear", "restore_bus"} \/ InCluster =>
       old.bus = before.bus /\ mem.bus = "CL0_GAIN" /\ hw.bus = "CL0_GAIN"
  /\ pc = "restore_acl" => mem.bus = before.bus /\ hw.bus = before.bus

\* The U-block: its connections never change, its modes only within the cluster.
UInv ==
  /\ pc \in {"bus", "clear"} => mem.u = before.u
  /\ InCluster => old.u = before.u /\ mem.u.conn = before.u.conn
  /\ LaneActive =>
       /\ mem.u.ref = "ONE"
       /\ pc = "compensate" => old.offset_modes = All("POS_REF")
       /\ pc # "compensate" => mem.u.modes = All("POS_REF")
       /\ pc \in {"gain", "measure"} => hw.u = mem.u
  /\ pc = "upscaling" \/ Leaving => mem.u = before.u /\ hw.u = mem.u

\* The factors: none, that of the lane, or all that were before.
Alone(l) == [k \in Lanes |-> IF k = l THEN "one" ELSE "zero"]

CInv ==
  /\ pc \in {"bus", "clear"} => mem.c.factors = before.c.factors
  /\ InCluster => /\ old.factors = before.c.factors /\ lanes \subseteq Routed(before)
                  /\ hw.c = mem.c
  /\ pc = "lane" => mem.c.factors = Zero
  /\ LaneActive => /\ lane \in Routed(before)
                   /\ mem.c.factors = Alone(lane) /\ mem.c.gains[lane] = "one"
  /\ Ending \/ Leaving => mem.c.factors = before.c.factors /\ hw.c = mem.c

\* The I-block: its outputs never change, its upscaling only within the cluster.
Unscaled == [out |-> before.i.out, upscaling |-> {}]

BlockIInv ==
  /\ pc \in {"bus", "clear"} => mem.i = before.i
  /\ InCluster => old.upscaling = before.i.upscaling /\ mem.i = Unscaled /\ hw.i = Unscaled
  /\ Leaving => mem.i = before.i /\ hw.i = before.i

\* The SH-block, and what the offsets were compensated for.
SHInv ==
  /\ pc = "measure" => hw.sh = GainGroup(before.i.out[lane])
  /\ Leaving => mem.sh = "INJECT" /\ hw.sh = "INJECT"
  /\ pc \in {"modes", "upscaling"} \/ Leaving => compensated = [c |-> hw.c, i |-> Unscaled]

\* calibrate_offsets() has a caller.
CallerInv == pc \in {"offsets", "compensate"} => caller # "none"

StageInv == CallerInv /\ CarrierInv /\ UInv /\ CInv /\ BlockIInv /\ SHInv
ReturnInv == CalibrationRestores /\ OffsetsFitFactors

Inv == TypeOK /\ StageInv /\ ReturnInv

-----------------------------------------------------------------------------
(* Types of the changed circuits *)

\* The parts of the hardware have their types.
LEMMA HwFields ==
  ASSUME NEW h \in HwStates
  PROVE  /\ h.u \in UStates \cup {Unknown} /\ h.c \in CStates \cup {Unknown}
         /\ h.i \in IStates \cup {Unknown} /\ h.sh \in SHStates \cup {Unknown}
         /\ h.bus \in {"ADC", "CL0_GAIN", Unknown} /\ h.mux \in Channels \cup {Unknown}
         /\ h.acl \in ACLs \cup {Unknown}
BY DEF HwStates

\* The blocks after a change
LEMMA UType ==
  ASSUME NEW u \in UStates, NEW s \in Modes \X Modes, NEW r \in {"ONE", "ONE_TENTH"}
  PROVE  [u EXCEPT !.modes = s] \in UStates /\ [u EXCEPT !.modes = s, !.ref = r] \in UStates
BY DEF UStates

\* The C-block after a change of its factors or its gain corrections
LEMMA CType ==
  ASSUME NEW c \in CStates, NEW f \in Factors, NEW g \in [Lanes -> {"one", "corrected"}]
  PROVE  /\ [c EXCEPT !.factors = f] \in CStates /\ [c EXCEPT !.gains = g] \in CStates
         /\ [c EXCEPT !.factors = f, !.gains = g] \in CStates
BY DEF CStates

\* The I-block after a change of its upscaling
LEMMA IType ==
  ASSUME NEW i \in IStates, NEW s \in SUBSET Lanes
  PROVE  [i EXCEPT !.upscaling = s] \in IStates
BY DEF IStates

\* reset() of a circuit is one.
LEMMA ResetType ==
  ASSUME NEW m \in Circuit, NEW circuit \in BOOLEAN, NEW calibration \in BOOLEAN
  PROVE  Reset(m, circuit, calibration) \in Circuit
<1> DEFINE n == IF circuit THEN Default ELSE m
           g == IF calibration THEN Default.c.gains ELSE m.c.gains
<1>1. n \in Circuit
  BY DefaultType
<1>2. g \in [Lanes -> {"one", "corrected"}]
  BY DefaultType, CircuitFields
<1>3. Reset(m, circuit, calibration) = [n EXCEPT !.c = [n.c EXCEPT !.gains = g], !.mux = "DISABLED"]
  BY <1>1 DEF Reset, Circuit
<1> HIDE DEF n, g
<1>4. [n.c EXCEPT !.gains = g] \in CStates
  <2>1. n.c \in CStates /\ n.c.factors \in Factors
    BY <1>1, CircuitFields
  <2> QED BY <1>2, <2>1, CType
<1> QED BY <1>1, <1>3, <1>4 DEF Circuit, Channels

\* write_to_hardware() of a circuit leaves typed hardware.
LEMMA WriteAllType ==
  ASSUME TypeOK, NEW m \in Circuit, NEW F, WriteAll(m, F)
  PROVE  mem' \in Circuit /\ hw' \in HwStates /\ cluster_failed' \in BOOLEAN
<1>1. hw \in HwStates
  BY DEF TypeOK
<1>2. hw' = Written(m, F) /\ mem' = m
  BY DEF WriteAll
<1>3. Written(m, F) \in HwStates
  BY <1>1, HwFields, CircuitFields DEF Written, HwStates
<1>4. cluster_failed' \in BOOLEAN
  BY DEF WriteAll
<1> QED BY <1>2, <1>3, <1>4

-----------------------------------------------------------------------------
(* Requests *)

\* Outside of a calibration of the routes only the types matter.
LEMMA Outside ==
  ASSUME TypeOK', CallerInv', ~InRoutes', pc' # "return"
  PROVE  Inv'
<1>1. ~Calibrated'
  BY DEF Calibrated
<1>2. ReturnInv'
  BY <1>1 DEF ReturnInv, CalibrationRestores, OffsetsFitFactors
<1>3. CarrierInv' /\ UInv'
  BY DEF CarrierInv, UInv, InRoutes, InCluster, LaneActive, Ending, Leaving
<1>4. CInv' /\ BlockIInv' /\ SHInv'
  BY DEF CInv, BlockIInv, SHInv, InRoutes, InCluster, LaneActive, Ending, Leaving
<1> QED BY <1>2, <1>3, <1>4 DEF Inv, StageInv

\* Places that are outside whoever has called
Elsewhere == {"idle", "kludge", "inject", "mul", "config", "children", "configured", "offset_done",
              "answered", "run", "routes"}

\* Such places are outside of the calibration of routes.
LEMMA OutsideElsewhere ==
  ASSUME TypeOK', pc' \in Elsewhere
  PROVE  Inv'
<1>1. ~InRoutes' /\ pc' # "return"
  BY DEF Elsewhere, InRoutes, InCluster, LaneActive, Ending, Leaving
<1>2. CallerInv'
  BY DEF Elsewhere, CallerInv
<1> QED BY <1>1, <1>2, Outside

\* user_reset_config(), with or without a write
LEMMA ResetRequestInv ==
  ASSUME TypeOK, NEW circuit \in BOOLEAN, NEW calibration \in BOOLEAN, NEW sync \in BOOLEAN,
         NEW F, ResetRequest(circuit, calibration, sync, F)
  PROVE  Inv'
<1>1. Reset(mem, circuit, calibration) \in Circuit
  BY ResetType DEF TypeOK
<1>2. mem' \in Circuit /\ hw' \in HwStates /\ cluster_failed' \in BOOLEAN
  BY <1>1, WriteAllType DEF ResetRequest, TypeOK
<1>3. result' \in BOOLEAN
  BY DEF ResetRequest, Status
<1>4. TypeOK'
  BY <1>2, <1>3 DEF ResetRequest, TypeOK, localVars
<1> QED BY <1>4, OutsideElsewhere DEF ResetRequest, Elsewhere

\* reset_before of user_set_extended_config()
LEMMA SetConfigInv ==
  ASSUME TypeOK, NEW reset_before \in BOOLEAN, NEW F, SetConfig(reset_before, F)
  PROVE  Inv'
<1>1. Reset(mem, TRUE, TRUE) \in Circuit
  BY ResetType DEF TypeOK
<1>2. mem' \in Circuit /\ hw' \in HwStates /\ cluster_failed' \in BOOLEAN
  BY <1>1, WriteAllType DEF SetConfig, TypeOK
<1>3. TypeOK'
  BY <1>2 DEF SetConfig, TypeOK, localVars
<1> QED BY <1>3, OutsideElsewhere DEF SetConfig, Elsewhere

\* sh_kludge of user_set_extended_config()
LEMMA KludgeInv ==
  ASSUME TypeOK, NEW F, TrackKludge(F) \/ InjectKludge(F) \/ SkipKludge
  PROVE  Inv'
<1>1. /\ [mem EXCEPT !.sh = "TRACK"] \in Circuit
      /\ [mem EXCEPT !.sh = "INJECT"] \in Circuit
  BY DEF TypeOK, Circuit, SHStates
<1>2. mem' \in Circuit /\ hw' \in HwStates /\ cluster_failed' \in BOOLEAN
  BY <1>1, WriteAllType DEF TrackKludge, InjectKludge, SkipKludge, TypeOK, historyVars
<1>3. TypeOK'
  BY <1>2 DEF TrackKludge, InjectKludge, SkipKludge, TypeOK, localVars, historyVars
<1> QED BY <1>3, OutsideElsewhere DEF TrackKludge, InjectKludge, SkipKludge, Elsewhere

\* The steps of a request that leave memory and hardware alone
LEMMA ControlInv ==
  ASSUME TypeOK, NEW ok \in BOOLEAN,
         \/ MulKludge(ok) \/ ConfigSelfEnd(ok)
         \/ WithoutOffset \/ WithRoutes \/ WithoutRoutes \/ StartRun
  PROVE  Inv'
<1>1. /\ mem' = mem /\ hw' = hw /\ old' = old /\ lanes' = lanes /\ lane' = lane /\ caller' = caller
      /\ before' = before /\ task' \in {task, "run"}
      /\ pc' \in Elsewhere
  BY DEF MulKludge, ConfigSelfEnd, WithoutOffset, WithRoutes, WithoutRoutes, StartRun,
         localVars, historyVars, Elsewhere
<1>2. result' \in BOOLEAN /\ success' \in BOOLEAN /\ cluster_failed' \in BOOLEAN
  BY Zenon DEF MulKludge, ConfigSelfEnd, WithoutOffset, WithRoutes, WithoutRoutes, StartRun,
         localVars, historyVars, TypeOK
<1>3. TypeOK'
  BY <1>1, <1>2 DEF TypeOK, Elsewhere
<1> QED BY <1>1, <1>3, OutsideElsewhere

\* calibrate_offset of user_set_extended_config(): the caller is not a calibration of routes.
LEMMA WithOffsetInv ==
  ASSUME TypeOK, WithOffset
  PROVE  Inv'
<1>1. TypeOK'
  BY DEF TypeOK, WithOffset, historyVars
<1>2. ~InRoutes' /\ pc' # "return" /\ CallerInv'
  BY DEF WithOffset, CallerInv, InRoutes, InCluster, LaneActive, Ending, Leaving
<1> QED BY <1>1, <1>2, Outside

\* The answer: nothing of the request is left.
LEMMA DoneInv ==
  ASSUME TypeOK, Done
  PROVE  Inv'
<1>1. TypeOK'
  BY DefaultType DEF TypeOK, Done
<1> QED BY <1>1, OutsideElsewhere DEF Done, Elsewhere

\* A circuit that a client configures
LEMMA ConfigFields ==
  ASSUME NEW cfg \in Configs
  PROVE  /\ cfg.u \in UStates /\ cfg.factors \in Factors /\ cfg.i \in IStates
         /\ cfg.sh \in SHStates /\ cfg.mux \in Channels /\ cfg.acl \in ACLs
BY ConfigsAssumption DEF ConfigType

\* ADC channels and ACL, written while the message is read
LEMMA ConfigSettingInv ==
  ASSUME TypeOK, NEW cfg \in Configs, NEW setting \in {"mux", "acl"}, NEW transferred \in BOOLEAN,
         ConfigSetting(cfg, setting) \/ ConfigSettingFails(cfg, setting, transferred)
  PROVE  Inv'
<1>1. mem' = [mem EXCEPT ![setting] = cfg[setting]]
  BY DEF ConfigSetting, ConfigSettingFails
<1>2. hw' \in {hw, [hw EXCEPT ![setting] = cfg[setting]], [hw EXCEPT ![setting] = Unknown]}
  BY DEF ConfigSetting, ConfigSettingFails
<1>3. mem' \in Circuit /\ hw' \in HwStates
  <2>1. CASE setting = "mux"
    BY <1>1, <1>2, <2>1, ConfigFields DEF TypeOK, Circuit, HwStates
  <2>2. CASE setting = "acl"
    BY <1>1, <1>2, <2>2, ConfigFields DEF TypeOK, Circuit, HwStates
  <2> QED BY <2>1, <2>2
<1>4. /\ old' = old /\ lanes' = lanes /\ lane' = lane /\ caller' = caller
      /\ before' = before /\ task' = task /\ pc' \in Elsewhere
  BY DEF ConfigSetting, ConfigSettingFails, localVars, historyVars, Elsewhere
<1>5. result' \in BOOLEAN /\ success' \in BOOLEAN /\ cluster_failed' \in BOOLEAN
  BY Zenon DEF ConfigSetting, ConfigSettingFails, localVars, historyVars, TypeOK
<1>6. TypeOK'
  BY <1>3, <1>4, <1>5 DEF TypeOK, Elsewhere
<1> QED BY <1>4, <1>6, OutsideElsewhere

\* A circuit with the blocks of a message
LEMMA MergeType ==
  ASSUME NEW m \in Circuit, NEW u \in UStates, NEW f \in Factors, NEW i \in IStates, NEW s \in SHStates
  PROVE  [m EXCEPT !.u = u, !.c.factors = f, !.i = i, !.sh = s] \in Circuit
<1>1. m.c \in CStates /\ m.c.gains \in [Lanes -> {"one", "corrected"}]
  BY CircuitFields
<1>2. [m.c EXCEPT !.factors = f] \in CStates
  BY <1>1, CType
<1> DEFINE c == [m.c EXCEPT !.factors = f]
<1>3. [m EXCEPT !.u = u, !.c.factors = f, !.i = i, !.sh = s] = [m EXCEPT !.u = u, !.c = c, !.i = i, !.sh = s]
  BY DEF Circuit
<1> HIDE DEF c
<1>4. [m EXCEPT !.u = u, !.c = c, !.i = i, !.sh = s] \in Circuit
  BY <1>2 DEF Circuit, c
<1> QED BY <1>3, <1>4

\* The blocks of the message and the write of user_set_config()
LEMMA ConfigChildrenInv ==
  ASSUME TypeOK, NEW cfg \in Configs, NEW F, ConfigChildren(cfg, F)
  PROVE  Inv'
<1>1. [mem EXCEPT !.u = cfg.u, !.c.factors = cfg.factors, !.i = cfg.i, !.sh = cfg.sh] \in Circuit
  BY MergeType, ConfigFields DEF TypeOK
<1>2. mem' \in Circuit /\ hw' \in HwStates /\ cluster_failed' \in BOOLEAN
  BY <1>1, WriteAllType DEF ConfigChildren
<1>3. result' \in BOOLEAN
  BY DEF ConfigChildren, Status
<1>4. pc' \in Elsewhere
  BY DEF ConfigChildren, Elsewhere
<1>5. TypeOK'
  BY <1>2, <1>3, <1>4 DEF ConfigChildren, TypeOK, localVars, Elsewhere
<1> QED BY <1>4, <1>5, OutsideElsewhere

\* A message that is applied in part
LEMMA ConfigFailsInv ==
  ASSUME TypeOK, NEW cfg \in Configs, NEW applied, ConfigFails(cfg, applied)
  PROVE  Inv'
<1> DEFINE u == IF "u" \in applied THEN cfg.u ELSE mem.u
           f == IF "c" \in applied THEN cfg.factors ELSE mem.c.factors
           i == IF "i" \in applied THEN cfg.i ELSE mem.i
           s == IF "sh" \in applied THEN cfg.sh ELSE mem.sh
<1>1. mem \in Circuit
  BY DEF TypeOK
<1>2. u \in UStates /\ f \in Factors /\ i \in IStates /\ s \in SHStates
  BY <1>1, CircuitFields, ConfigFields
<1>3. mem' = [mem EXCEPT !.u = u, !.c.factors = f, !.i = i, !.sh = s]
  BY <1>1 DEF ConfigFails, Circuit
<1> HIDE DEF u, f, i, s
<1>4. mem' \in Circuit
  BY <1>1, <1>2, <1>3, MergeType
<1>5. TypeOK'
  BY <1>4 DEF ConfigFails, TypeOK, localVars, historyVars
<1> QED BY <1>5, OutsideElsewhere DEF ConfigFails, Elsewhere

\* No request disturbs the invariant.
LEMMA RequestsInv ==
  ASSUME Inv, Requests
  PROVE  Inv'
<1>0. TypeOK
  BY DEF Inv
<1>1. CASE \E F \in Failures : \E circuit, calibration, sync \in BOOLEAN : ResetRequest(circuit, calibration, sync, F)
  BY <1>0, <1>1, ResetRequestInv
<1>2. CASE \E F \in Failures : \E reset_before \in BOOLEAN : SetConfig(reset_before, F)
  BY <1>0, <1>2, SetConfigInv
<1>3. CASE (\E F \in Failures : TrackKludge(F) \/ InjectKludge(F)) \/ SkipKludge
  BY <1>0, <1>3, KludgeInv
<1>4. CASE \E F \in Failures : \E cfg \in Configs : ConfigChildren(cfg, F)
  BY <1>0, <1>4, ConfigChildrenInv
<1>5. CASE \E cfg \in Configs, setting \in {"mux", "acl"} :
             \/ ConfigSetting(cfg, setting)
             \/ \E transferred \in BOOLEAN : ConfigSettingFails(cfg, setting, transferred)
  BY <1>0, <1>5, ConfigSettingInv
<1>6. CASE \/ \E ok \in BOOLEAN : MulKludge(ok) \/ ConfigSelfEnd(ok)
           \/ WithoutOffset \/ WithRoutes \/ WithoutRoutes \/ StartRun
  BY <1>0, <1>6, ControlInv
<1>7. CASE \E cfg \in Configs, applied \in Applied : ConfigFails(cfg, applied)
  BY <1>0, <1>7, ConfigFailsInv
<1>8. CASE WithOffset
  BY <1>0, <1>8, WithOffsetInv
<1>9. CASE Done
  BY <1>0, <1>9, DoneInv
<1> QED
  BY <1>1, <1>2, <1>3, <1>4, <1>5, <1>6, <1>7, <1>8, <1>9 DEF Requests

-----------------------------------------------------------------------------
(* The calibration up to the cluster *)

\* After a failed transfer only the types matter.
LEMMA Failing ==
  ASSUME TypeOK', pc' = "return", result' = FALSE
  PROVE  Inv'
<1>1. ReturnInv'
  BY DEF ReturnInv, CalibrationRestores, OffsetsFitFactors, Calibrated
<1>2. CallerInv' /\ CarrierInv' /\ UInv'
  BY DEF CallerInv, CarrierInv, UInv, InRoutes, InCluster, LaneActive, Ending, Leaving
<1>3. CInv' /\ BlockIInv' /\ SHInv'
  BY DEF CInv, BlockIInv, SHInv, InRoutes, InCluster, LaneActive, Ending, Leaving
<1> QED BY <1>1, <1>2, <1>3 DEF Inv, StageInv

\* Before the return nothing is said about it.
LEMMA NotReturned ==
  ASSUME pc' # "return"
  PROVE  ReturnInv'
BY DEF ReturnInv, CalibrationRestores, OffsetsFitFactors, Calibrated

\* LUCIDAC::calibrate_routes() saves the ACL and sets it to internal.
LEMMA RoutesBeginInv ==
  ASSUME Inv, NEW ok \in BOOLEAN, RoutesBegin(ok)
  PROVE  Inv'
<1>0. TypeOK
  BY DEF Inv
<1>1. mem' \in Circuit /\ hw' \in HwStates
  BY <1>0 DEF TypeOK, RoutesBegin, Circuit, HwStates, ACLs
<1>2. old' \in [acl : ACLs, bus : {"ADC", "CL0_GAIN"}, u : UStates, factors : Factors,
                upscaling : SUBSET Lanes, offset_modes : Modes \X Modes]
  BY <1>0, CircuitFields DEF TypeOK, RoutesBegin
<1>3. TypeOK'
  BY <1>0, <1>1, <1>2, ZenonT(40) DEF TypeOK, RoutesBegin, Continue, Fail
<1>4. CASE ~ok
  BY <1>3, <1>4, Failing DEF RoutesBegin, Fail
<1>5. CASE ok
  <2>1. pc' = "bus"
    BY <1>5 DEF RoutesBegin, Continue
  <2>2. /\ mem'.mux = before'.mux /\ mem'.bus = before'.bus /\ mem'.u = before'.u
        /\ mem'.c = before'.c /\ mem'.i = before'.i /\ mem'.acl = "INTERNAL" /\ hw'.acl = "INTERNAL"
        /\ old'.acl = before'.acl
    BY <1>0, <1>5 DEF RoutesBegin, TypeOK, Circuit, HwStates
  <2>3. CarrierInv' /\ UInv'
    BY <2>1, <2>2 DEF CarrierInv, UInv, InRoutes, InCluster, LaneActive, Ending, Leaving
  <2>4. CInv' /\ BlockIInv' /\ SHInv'
    BY <2>1, <2>2 DEF CInv, BlockIInv, SHInv, InRoutes, InCluster, LaneActive, Ending, Leaving
  <2> QED BY <1>3, <2>1, <2>3, <2>4, NotReturned DEF Inv, StageInv, CallerInv
<1> QED BY <1>4, <1>5

\* calibrate_routes_in_cluster() saves the ADC bus and sets it to the gain outputs.
LEMMA SelectGainInv ==
  ASSUME Inv, NEW ok \in BOOLEAN, SelectGain(ok)
  PROVE  Inv'
<1>0. TypeOK /\ pc = "bus" /\ CarrierInv /\ UInv /\ CInv /\ BlockIInv
  BY DEF Inv, StageInv, SelectGain
<1>1. mem' \in Circuit /\ hw' \in HwStates
  BY <1>0 DEF TypeOK, SelectGain, Circuit, HwStates
<1>2. old' \in [acl : ACLs, bus : {"ADC", "CL0_GAIN"}, u : UStates, factors : Factors,
                upscaling : SUBSET Lanes, offset_modes : Modes \X Modes]
  BY <1>0, CircuitFields DEF TypeOK, SelectGain
<1>3. TypeOK'
  BY <1>0, <1>1, <1>2, ZenonT(40) DEF TypeOK, SelectGain, Continue, Fail, historyVars
<1>4. CASE ~ok
  BY <1>3, <1>4, Failing DEF SelectGain, Fail
<1>5. CASE ok
  <2>1. pc' = "clear" /\ before' = before
    BY <1>5 DEF SelectGain, Continue, historyVars
  <2>2. /\ mem'.mux = mem.mux /\ mem'.bus = "CL0_GAIN" /\ mem'.u = mem.u
        /\ mem'.c = mem.c /\ mem'.i = mem.i /\ mem'.acl = mem.acl
        /\ hw'.bus = "CL0_GAIN" /\ hw'.acl = hw.acl
        /\ old'.acl = old.acl /\ old'.bus = mem.bus
    BY <1>0, <1>5 DEF SelectGain, TypeOK, Circuit, HwStates
  <2>3. CarrierInv' /\ UInv'
    BY <1>0, <2>1, <2>2 DEF CarrierInv, UInv, InRoutes, InCluster, LaneActive, Ending, Leaving
  <2>4. CInv' /\ BlockIInv' /\ SHInv'
    BY <1>0, <2>1, <2>2 DEF CInv, BlockIInv, SHInv, InRoutes, InCluster, LaneActive, Ending, Leaving
  <2> QED BY <1>3, <2>1, <2>3, <2>4, NotReturned DEF Inv, StageInv, CallerInv
<1> QED BY <1>4, <1>5

\* The C-block without factors, the I-block without upscaling
LEMMA ClearFactorsFields ==
  ASSUME TypeOK, NEW ok \in BOOLEAN, ClearFactors(ok)
  PROVE  /\ mem' \in Circuit /\ hw' \in HwStates
         /\ old' \in [acl : ACLs, bus : {"ADC", "CL0_GAIN"}, u : UStates, factors : Factors,
                      upscaling : SUBSET Lanes, offset_modes : Modes \X Modes]
         /\ mem'.mux = mem.mux /\ mem'.bus = mem.bus /\ mem'.u = mem.u /\ mem'.acl = mem.acl
         /\ mem'.c.factors = Zero
         /\ mem'.i = [out |-> mem.i.out, upscaling |-> {}]
         /\ hw'.c = mem'.c /\ (ok => hw'.i = mem'.i) /\ hw'.bus = hw.bus /\ hw'.acl = hw.acl
         /\ old'.acl = old.acl /\ old'.bus = old.bus /\ old'.u = mem.u
         /\ old'.factors = mem.c.factors /\ old'.upscaling = mem.i.upscaling
<1> DEFINE c == [mem.c EXCEPT !.factors = Zero]
           i == [mem.i EXCEPT !.upscaling = {}]
<1>1. mem \in Circuit /\ hw \in HwStates
  BY DEF TypeOK
<1>2. /\ mem.c \in CStates /\ mem.i \in IStates /\ mem.u \in UStates /\ mem.c.factors \in Factors
      /\ mem.i.upscaling \subseteq Lanes /\ mem.c.gains \in [Lanes -> {"one", "corrected"}]
  BY <1>1, CircuitFields
<1>3. Zero \in Factors
  BY DEF Zero, Factors
<1>4. c \in CStates /\ i \in IStates
  BY <1>2, <1>3, CType, IType
<1>5. c.factors = Zero /\ i = [out |-> mem.i.out, upscaling |-> {}]
  BY <1>2, SMTT(40) DEF CStates, IStates
<1>6. mem' = [mem EXCEPT !.c = c, !.i = i]
  BY <1>1 DEF ClearFactors, Circuit
<1> HIDE DEF c, i
<1>7. /\ mem' \in Circuit /\ mem'.c = c /\ mem'.i = i
      /\ mem'.mux = mem.mux /\ mem'.bus = mem.bus /\ mem'.u = mem.u /\ mem'.acl = mem.acl
  BY <1>1, <1>4, <1>6 DEF Circuit
<1>8. /\ hw' = [hw EXCEPT !.c = mem'.c, !.i = IF ok THEN mem'.i ELSE Unknown]
      /\ old' = [old EXCEPT !.u = mem.u, !.factors = mem.c.factors, !.upscaling = mem.i.upscaling]
  BY DEF ClearFactors
<1>9. hw' \in HwStates /\ hw'.c = mem'.c /\ (ok => hw'.i = mem'.i) /\ hw'.bus = hw.bus /\ hw'.acl = hw.acl
  BY <1>1, <1>4, <1>7, <1>8 DEF HwStates
<1>10. /\ old' \in [acl : ACLs, bus : {"ADC", "CL0_GAIN"}, u : UStates, factors : Factors,
                   upscaling : SUBSET Lanes, offset_modes : Modes \X Modes]
       /\ old'.acl = old.acl /\ old'.bus = old.bus /\ old'.u = mem.u
       /\ old'.factors = mem.c.factors /\ old'.upscaling = mem.i.upscaling
  BY <1>2, <1>8 DEF TypeOK
<1> QED BY <1>5, <1>7, <1>9, <1>10

\* Cluster::calibrate_routes() saves U, factors and upscaling, and begins without factors.
LEMMA ClearFactorsInv ==
  ASSUME Inv, NEW ok \in BOOLEAN, ClearFactors(ok)
  PROVE  Inv'
<1>0. TypeOK /\ pc = "clear" /\ CarrierInv /\ UInv /\ CInv /\ BlockIInv
  BY DEF Inv, StageInv, ClearFactors
<1>1. lanes' = Routed(mem)
  BY DEF ClearFactors
<1>2. lanes' \subseteq Lanes
  BY <1>0, <1>1, CircuitFields DEF TypeOK, Routed
<1>3. TypeOK'
  BY <1>0, <1>2, ClearFactorsFields, ZenonT(40) DEF TypeOK, ClearFactors, Continue, Fail, historyVars
<1>4. CASE ~ok
  BY <1>3, <1>4, Failing DEF ClearFactors, Fail
<1>5. CASE ok
  <2>1. pc' = "lane" /\ before' = before
    BY <1>5 DEF ClearFactors, Continue, historyVars
  <2>2. mem.u = before.u /\ mem.i = before.i /\ mem.c.factors = before.c.factors
    BY <1>0 DEF UInv, CInv, BlockIInv
  <2>3. lanes' \subseteq Routed(before')
    BY <1>1, <2>1, <2>2 DEF Routed
  <2>4. CarrierInv' /\ UInv'
    BY <1>0, <2>1, <2>2, ClearFactorsFields DEF CarrierInv, UInv, InRoutes, InCluster, LaneActive, Ending, Leaving
  <2>5. CInv'
    BY <1>0, <2>1, <2>2, <2>3, ClearFactorsFields DEF CInv, InRoutes, InCluster, LaneActive, Ending, Leaving
  <2>6. BlockIInv' /\ SHInv'
    BY <1>0, <1>5, <2>1, <2>2, ClearFactorsFields
       DEF BlockIInv, SHInv, InRoutes, InCluster, LaneActive, Ending, Leaving, Unscaled
  <2> QED BY <1>3, <2>1, <2>4, <2>5, <2>6, NotReturned DEF Inv, StageInv, CallerInv
<1> QED BY <1>4, <1>5

-----------------------------------------------------------------------------
(* The loops of the cluster *)

\* One lane gets its factor, all get the reference.
LEMMA LaneBeginFields ==
  ASSUME TypeOK, NEW ok \in BOOLEAN, NEW l \in Lanes, LaneBegin(l, ok)
  PROVE  /\ mem' \in Circuit /\ hw' \in HwStates
         /\ mem'.mux = mem.mux /\ mem'.bus = mem.bus /\ mem'.acl = mem.acl /\ mem'.i = mem.i
         /\ mem'.u.conn = mem.u.conn /\ mem'.u.modes = All("POS_REF")
         /\ mem'.u.ref = (IF l \in mem.i.upscaling THEN "ONE_TENTH" ELSE "ONE")
         /\ ok => /\ mem'.c.factors = [mem.c.factors EXCEPT ![l] = "one"] /\ mem'.c.gains[l] = "one"
                  /\ hw'.c = mem'.c /\ hw'.u = mem'.u
         /\ hw'.bus = hw.bus /\ hw'.acl = hw.acl /\ hw'.i = hw.i
<1> DEFINE r == IF l \in mem.i.upscaling THEN "ONE_TENTH" ELSE "ONE"
           u == [mem.u EXCEPT !.modes = All("POS_REF"), !.ref = r]
           c == IF ok THEN Activated(mem.c, l) ELSE mem.c
<1>1. mem \in Circuit /\ hw \in HwStates
  BY DEF TypeOK
<1>2. /\ mem.c \in CStates /\ mem.u \in UStates /\ mem.c.factors \in Factors
      /\ mem.c.gains \in [Lanes -> {"one", "corrected"}]
  BY <1>1, CircuitFields
<1>3. All("POS_REF") \in Modes \X Modes /\ r \in {"ONE", "ONE_TENTH"}
  BY AllModes DEF Modes
<1>4. u \in UStates
  BY <1>2, <1>3, UType
<1>5. u.conn = mem.u.conn /\ u.modes = All("POS_REF") /\ u.ref = r
  BY <1>2 DEF UStates
<1>6. /\ [mem.c.factors EXCEPT ![l] = "one"] \in Factors
      /\ [mem.c.gains EXCEPT ![l] = "one"] \in [Lanes -> {"one", "corrected"}]
      /\ [mem.c.gains EXCEPT ![l] = "one"][l] = "one"
  BY <1>2 DEF Factors
<1>7. c \in CStates
  BY <1>2, <1>6 DEF CStates, Activated
<1>8. ok => c.factors = [mem.c.factors EXCEPT ![l] = "one"] /\ c.gains[l] = "one"
  BY <1>6 DEF Activated
<1>9. mem' = [mem EXCEPT !.u = u, !.c = c]
  BY <1>1, <1>2 DEF LaneBegin, Circuit, UStates
<1> HIDE DEF u, c, r
<1>10. /\ mem' \in Circuit /\ mem'.c = c /\ mem'.u = u
       /\ mem'.mux = mem.mux /\ mem'.bus = mem.bus /\ mem'.i = mem.i /\ mem'.acl = mem.acl
  BY <1>1, <1>4, <1>7, <1>9 DEF Circuit
<1>11. hw' = [hw EXCEPT !.u = IF ok THEN mem'.u ELSE Unknown, !.c = IF ok THEN mem'.c ELSE hw.c]
  BY <1>1 DEF LaneBegin, HwStates
<1>12. /\ hw' \in HwStates /\ (ok => hw'.c = mem'.c /\ hw'.u = mem'.u)
       /\ hw'.bus = hw.bus /\ hw'.acl = hw.acl /\ hw'.i = hw.i
  BY <1>1, <1>4, <1>7, <1>10, <1>11, ZenonT(40) DEF HwStates
<1> QED BY <1>5, <1>8, <1>10, <1>12 DEF r

\* The lane is one of those that were routed, and the only one with a factor.
LEMMA LaneBeginInv ==
  ASSUME Inv, NEW ok \in BOOLEAN, NEW l \in Lanes, LaneBegin(l, ok)
  PROVE  Inv'
<1>0. TypeOK /\ pc = "lane" /\ CarrierInv /\ UInv /\ CInv /\ BlockIInv
  BY DEF Inv, StageInv, LaneBegin
<1>1. lane' = l /\ l \in lanes /\ lanes' \subseteq lanes /\ old' = old /\ caller' = "lane" /\ before' = before
  BY DEF LaneBegin, historyVars
<1>2. TypeOK'
  BY <1>0, <1>1, LaneBeginFields, ZenonT(40) DEF TypeOK, LaneBegin, Continue, Fail, historyVars
<1>3. CASE ~ok
  BY <1>2, <1>3, Failing DEF LaneBegin, Fail
<1>4. CASE ok
  <2>1. pc' = "offsets"
    BY <1>4 DEF LaneBegin, Continue
  <2>2. /\ old.u = before.u /\ mem.u.conn = before.u.conn /\ old.factors = before.c.factors
        /\ lanes \subseteq Routed(before) /\ mem.c.factors = Zero
        /\ old.upscaling = before.i.upscaling /\ mem.i = Unscaled /\ hw.i = Unscaled
    BY <1>0 DEF UInv, CInv, BlockIInv, InCluster
  <2>3. mem'.u.ref = "ONE"
    <3>1. mem'.u.ref = (IF l \in mem.i.upscaling THEN "ONE_TENTH" ELSE "ONE")
      BY <1>0, LaneBeginFields
    <3>2. mem.i.upscaling = {}
      BY <2>2 DEF Unscaled
    <3> QED BY <3>1, <3>2
  <2>4. mem'.c.factors = Alone(l)
    <3>1. mem'.c.factors = [mem.c.factors EXCEPT ![l] = "one"]
      BY <1>0, <1>4, LaneBeginFields
    <3> QED BY <2>2, <3>1 DEF Zero, Alone
  <2>5. CarrierInv'
    BY <1>0, <1>1, <2>1, LaneBeginFields DEF CarrierInv, InRoutes, InCluster, LaneActive, Ending, Leaving
  <2>6. UInv'
    BY <1>0, <1>1, <2>1, <2>2, <2>3, LaneBeginFields DEF UInv, InCluster, LaneActive, Ending, Leaving
  <2>7. CInv'
    BY <1>0, <1>1, <1>4, <2>1, <2>2, <2>4, LaneBeginFields DEF CInv, InCluster, LaneActive, Ending, Leaving, Routed
  <2>8. BlockIInv' /\ SHInv'
    BY <1>0, <1>1, <2>1, <2>2, LaneBeginFields
       DEF BlockIInv, SHInv, InCluster, LaneActive, Ending, Leaving, Unscaled
  <2>9. CallerInv'
    BY <1>1 DEF CallerInv
  <2> QED BY <1>2, <2>1, <2>5, <2>6, <2>7, <2>8, <2>9, NotReturned DEF Inv, StageInv
<1> QED BY <1>3, <1>4

\* The SH-block selects the group of the output of this lane.
LEMMA LaneGainInv ==
  ASSUME Inv, LaneGain
  PROVE  Inv'
<1>0. TypeOK /\ pc = "gain" /\ CarrierInv /\ UInv /\ CInv /\ BlockIInv
  BY DEF Inv, StageInv, LaneGain
<1>1. /\ old' = old /\ lanes' = lanes /\ lane' = lane /\ caller' = caller /\ before' = before
      /\ task' = task /\ pc' = "measure"
  BY DEF LaneGain, localVars, historyVars
<1>2. mem' = [mem EXCEPT !.sh = GainGroup(mem.i.out[lane])]
  BY DEF LaneGain
<1>3. /\ mem' \in Circuit /\ mem'.sh = GainGroup(mem.i.out[lane])
      /\ mem'.mux = mem.mux /\ mem'.bus = mem.bus /\ mem'.u = mem.u /\ mem'.c = mem.c
      /\ mem'.i = mem.i /\ mem'.acl = mem.acl
  BY <1>0, <1>2 DEF TypeOK, Circuit, GainGroup, SHStates
<1>4. hw' = [hw EXCEPT !.sh = mem'.sh] /\ mem'.sh \in SHStates
  BY <1>3, CircuitFields DEF LaneGain
<1>5. /\ hw' \in HwStates /\ hw'.sh = mem'.sh
      /\ hw'.bus = hw.bus /\ hw'.u = hw.u /\ hw'.c = hw.c /\ hw'.i = hw.i /\ hw'.acl = hw.acl
  BY <1>0, <1>4 DEF TypeOK, HwStates
<1>6. TypeOK'
  <2>1. result' \in BOOLEAN /\ success' \in BOOLEAN /\ cluster_failed' \in BOOLEAN
    BY <1>0, Zenon DEF TypeOK, LaneGain, localVars, historyVars
  <2> QED BY <1>0, <1>1, <1>3, <1>5, <2>1 DEF TypeOK
<1>7. CarrierInv'
  BY <1>0, <1>1, <1>3, <1>5 DEF CarrierInv, InRoutes, InCluster, LaneActive, Ending, Leaving
<1>8. UInv'
  BY <1>0, <1>1, <1>3, <1>5 DEF UInv, InCluster, LaneActive, Ending, Leaving
<1>9. CInv'
  BY <1>0, <1>1, <1>3, <1>5 DEF CInv, InCluster, LaneActive, Ending, Leaving, Routed
<1>10. BlockIInv' /\ SHInv'
  BY <1>0, <1>1, <1>3, <1>5 DEF BlockIInv, SHInv, InCluster, LaneActive, Ending, Leaving, Unscaled
<1> QED BY <1>1, <1>6, <1>7, <1>8, <1>9, <1>10, NotReturned DEF Inv, StageInv, CallerInv

\* The gain is corrected, the factor taken away again.
LEMMA LaneMeasuredFields ==
  ASSUME TypeOK, lane \in Lanes, NEW in_range \in BOOLEAN, LaneMeasured(in_range)
  PROVE  /\ mem' \in Circuit /\ hw' \in HwStates
         /\ mem'.mux = mem.mux /\ mem'.bus = mem.bus /\ mem'.acl = mem.acl /\ mem'.i = mem.i
         /\ mem'.u = mem.u /\ mem'.c.factors = [mem.c.factors EXCEPT ![lane] = "zero"]
         /\ hw'.c = mem'.c /\ hw'.bus = hw.bus /\ hw'.acl = hw.acl /\ hw'.i = hw.i
<1> DEFINE g == [mem.c.gains EXCEPT ![lane] = IF in_range THEN "corrected" ELSE "one"]
           f == [mem.c.factors EXCEPT ![lane] = "zero"]
           c == [mem.c EXCEPT !.factors = f, !.gains = g]
<1>1. mem \in Circuit /\ hw \in HwStates
  BY DEF TypeOK
<1>2. /\ mem.c \in CStates /\ mem.c.factors \in Factors
      /\ mem.c.gains \in [Lanes -> {"one", "corrected"}]
  BY <1>1, CircuitFields
<1>3. g \in [Lanes -> {"one", "corrected"}] /\ f \in Factors
  BY <1>2 DEF Factors
<1>4. mem' = [mem EXCEPT !.c = c]
  BY <1>1, <1>2 DEF LaneMeasured, Circuit, CStates, Deactivated
<1> HIDE DEF f, g
<1>5. c \in CStates /\ c.factors = f
  BY <1>2, <1>3 DEF CStates
<1> HIDE DEF c
<1>6. /\ mem' \in Circuit /\ mem'.c = c
      /\ mem'.mux = mem.mux /\ mem'.bus = mem.bus /\ mem'.u = mem.u /\ mem'.i = mem.i /\ mem'.acl = mem.acl
  BY <1>1, <1>4, <1>5 DEF Circuit
<1>7. hw' = [hw EXCEPT !.c = mem'.c]
  BY DEF LaneMeasured
<1>8. /\ hw' \in HwStates /\ hw'.c = mem'.c
      /\ hw'.bus = hw.bus /\ hw'.acl = hw.acl /\ hw'.i = hw.i
  BY <1>1, <1>5, <1>6, <1>7 DEF HwStates
<1> QED BY <1>5, <1>6, <1>8 DEF f

\* Behind the measurement no lane has a factor.
LEMMA LaneMeasuredInv ==
  ASSUME Inv, NEW in_range \in BOOLEAN, LaneMeasured(in_range)
  PROVE  Inv'
<1>0. TypeOK /\ pc = "measure" /\ CarrierInv /\ UInv /\ CInv /\ BlockIInv
  BY DEF Inv, StageInv, LaneMeasured
<1>1. /\ old' = old /\ lanes' = lanes /\ lane' = lane /\ caller' = caller /\ before' = before
      /\ task' = task /\ pc' = "lane"
  BY DEF LaneMeasured, historyVars
<1>2. /\ lane \in Routed(before) /\ mem.c.factors = Alone(lane) /\ old.factors = before.c.factors
      /\ lanes \subseteq Routed(before)
  BY <1>0 DEF CInv, InCluster, LaneActive
<1>3. lane \in Lanes
  BY <1>0, <1>2, CircuitFields DEF TypeOK, Routed
<1>4. mem'.c.factors = Zero
  BY <1>0, <1>2, <1>3, LaneMeasuredFields DEF Alone, Zero
<1>5. TypeOK'
  <2>1. result' \in BOOLEAN /\ success' \in BOOLEAN /\ cluster_failed' \in BOOLEAN
    BY <1>0, Zenon DEF TypeOK, LaneMeasured, historyVars
  <2> QED BY <1>0, <1>1, <1>3, <2>1, LaneMeasuredFields DEF TypeOK
<1>6. CarrierInv'
  BY <1>0, <1>1, <1>3, LaneMeasuredFields DEF CarrierInv, InRoutes, InCluster, LaneActive, Ending, Leaving
<1>7. UInv'
  BY <1>0, <1>1, <1>3, LaneMeasuredFields DEF UInv, InCluster, LaneActive, Ending, Leaving
<1>8. CInv'
  BY <1>0, <1>1, <1>2, <1>3, <1>4, LaneMeasuredFields DEF CInv, InCluster, LaneActive, Ending, Leaving
<1>9. BlockIInv' /\ SHInv'
  BY <1>0, <1>1, <1>3, LaneMeasuredFields DEF BlockIInv, SHInv, InCluster, LaneActive, Ending, Leaving, Unscaled
<1> QED BY <1>1, <1>5, <1>6, <1>7, <1>8, <1>9, NotReturned DEF Inv, StageInv, CallerInv

-----------------------------------------------------------------------------
(* The end of the cluster, and the calibration of offsets *)

\* Behind the loops the factors are those before, the gains corrected.
LEMMA RestoreFactorsInv ==
  ASSUME Inv, RestoreFactors
  PROVE  Inv'
<1>0. TypeOK /\ pc = "lane" /\ CarrierInv /\ UInv /\ CInv /\ BlockIInv
  BY DEF Inv, StageInv, RestoreFactors
<1>1. /\ old' = old /\ lanes' = lanes /\ lane' = lane /\ caller' = "end" /\ before' = before
      /\ task' = task /\ pc' = "offsets"
  BY DEF RestoreFactors, historyVars, AfterFactors
<1> DEFINE c == [mem.c EXCEPT !.factors = old.factors]
<1>2. mem.c \in CStates /\ mem.c.gains \in [Lanes -> {"one", "corrected"}] /\ old.factors \in Factors
  BY <1>0, CircuitFields DEF TypeOK
<1>3. c \in CStates /\ c.factors = old.factors
  BY <1>2, CType DEF CStates
<1>4. mem' = [mem EXCEPT !.c = c]
  BY <1>0 DEF RestoreFactors, TypeOK, Circuit
<1> HIDE DEF c
<1>5. /\ mem' \in Circuit /\ mem'.c = c
      /\ mem'.mux = mem.mux /\ mem'.bus = mem.bus /\ mem'.u = mem.u /\ mem'.i = mem.i /\ mem'.acl = mem.acl
  BY <1>0, <1>3, <1>4 DEF TypeOK, Circuit
<1>6. hw' = [hw EXCEPT !.c = mem'.c]
  BY DEF RestoreFactors
<1>7. /\ hw' \in HwStates /\ hw'.c = mem'.c
      /\ hw'.bus = hw.bus /\ hw'.acl = hw.acl /\ hw'.i = hw.i
  BY <1>0, <1>3, <1>5, <1>6 DEF TypeOK, HwStates
<1>8. TypeOK'
  <2>1. result' \in BOOLEAN /\ success' \in BOOLEAN /\ cluster_failed' \in BOOLEAN
    BY <1>0, Zenon DEF TypeOK, RestoreFactors, historyVars
  <2> QED BY <1>0, <1>1, <1>5, <1>7, <2>1 DEF TypeOK
<1>9. CarrierInv' /\ CallerInv'
  BY <1>0, <1>1, <1>5, <1>7 DEF CarrierInv, CallerInv, InRoutes, InCluster, LaneActive, Ending, Leaving
<1>10. UInv'
  BY <1>0, <1>1, <1>5, <1>7 DEF UInv, InCluster, LaneActive, Ending, Leaving
<1>11. CInv'
  BY <1>0, <1>1, <1>3, <1>5, <1>7 DEF CInv, InCluster, LaneActive, Ending, Leaving
<1>12. BlockIInv' /\ SHInv'
  BY <1>0, <1>1, <1>5, <1>7 DEF BlockIInv, SHInv, InCluster, LaneActive, Ending, Leaving, Unscaled
<1> QED BY <1>1, <1>8, <1>9, <1>10, <1>11, <1>12, NotReturned DEF Inv, StageInv

\* A change of the modes, and the U-block in the hardware
LEMMA ModesFields ==
  ASSUME TypeOK, NEW ok \in BOOLEAN, NEW u \in UStates, mem' = [mem EXCEPT !.u = u],
         hw' = [hw EXCEPT !.u = IF ok THEN mem'.u ELSE Unknown]
  PROVE  /\ mem' \in Circuit /\ hw' \in HwStates /\ mem'.u = u /\ (ok => hw'.u = u)
         /\ mem'.mux = mem.mux /\ mem'.bus = mem.bus /\ mem'.c = mem.c /\ mem'.i = mem.i
         /\ mem'.acl = mem.acl /\ mem'.sh = mem.sh
         /\ hw'.bus = hw.bus /\ hw'.acl = hw.acl /\ hw'.i = hw.i /\ hw'.c = hw.c /\ hw'.sh = hw.sh
<1>1. mem' \in Circuit /\ mem'.u = u
  BY DEF TypeOK, Circuit
<1>2. hw' \in HwStates
  BY <1>1 DEF TypeOK, HwStates
<1> QED BY <1>1, <1>2 DEF TypeOK, Circuit, HwStates

\* The U-block is the one before: its connections never changed, modes and reference are put back.
LEMMA RestoreModesInv ==
  ASSUME Inv, NEW ok \in BOOLEAN, RestoreModes(ok)
  PROVE  Inv'
<1>0. TypeOK /\ pc = "modes" /\ CarrierInv /\ UInv /\ CInv /\ BlockIInv /\ SHInv
  BY DEF Inv, StageInv, RestoreModes
<1>1. /\ old' = old /\ lanes' = lanes /\ lane' = lane /\ caller' = caller /\ before' = before
      /\ task' = task /\ compensated' = compensated
  BY DEF RestoreModes, localVars, historyVars
<1>2. mem.u \in UStates /\ before.u \in UStates
  BY <1>0, CircuitFields DEF TypeOK
<1>3. Restored(mem.u) = before.u
  <2>1. old.u = before.u /\ mem.u.conn = before.u.conn
    BY <1>0 DEF UInv, InCluster, Ending
  <2>2. Restored(mem.u) = [mem.u EXCEPT !.modes = before.u.modes, !.ref = before.u.ref]
    BY <2>1 DEF Restored
  <2> QED BY <1>2, <2>1, <2>2, ZenonT(40) DEF UStates
<1>4. mem' = [mem EXCEPT !.u = before.u] /\ hw' = [hw EXCEPT !.u = IF ok THEN mem'.u ELSE Unknown]
  BY <1>0, <1>3 DEF RestoreModes, TypeOK, Circuit
<1>5. /\ mem' \in Circuit /\ hw' \in HwStates /\ mem'.u = before.u /\ (ok => hw'.u = before.u)
      /\ mem'.mux = mem.mux /\ mem'.bus = mem.bus /\ mem'.c = mem.c /\ mem'.i = mem.i
      /\ mem'.acl = mem.acl /\ mem'.sh = mem.sh
      /\ hw'.bus = hw.bus /\ hw'.acl = hw.acl /\ hw'.i = hw.i /\ hw'.c = hw.c /\ hw'.sh = hw.sh
  BY <1>0, <1>2, <1>4, ModesFields
<1>6. TypeOK'
  <2>1. success' \in BOOLEAN /\ cluster_failed' \in BOOLEAN
    BY <1>0, Zenon DEF TypeOK, RestoreModes, localVars, historyVars
  <2> QED BY <1>0, <1>1, <1>5, <2>1, ZenonT(40) DEF TypeOK, RestoreModes, Continue, Fail
<1>7. CASE ~ok
  BY <1>6, <1>7, Failing DEF RestoreModes, Fail
<1>8. CASE ok
  <2>1. pc' = "upscaling"
    BY <1>8 DEF RestoreModes, Continue
  <2>2. CarrierInv' /\ CallerInv'
    BY <1>0, <1>1, <1>5, <2>1 DEF CarrierInv, CallerInv, InRoutes, InCluster, LaneActive, Ending, Leaving
  <2>3. UInv'
    BY <1>0, <1>1, <1>5, <1>8, <2>1 DEF UInv, InCluster, LaneActive, Ending, Leaving
  <2>4. CInv'
    BY <1>0, <1>1, <1>5, <2>1 DEF CInv, InCluster, LaneActive, Ending, Leaving
  <2>5. BlockIInv' /\ SHInv'
    BY <1>0, <1>1, <1>5, <2>1 DEF BlockIInv, SHInv, InCluster, LaneActive, Ending, Leaving, Unscaled
  <2> QED BY <1>6, <2>1, <2>2, <2>3, <2>4, <2>5, NotReturned DEF Inv, StageInv
<1> QED BY <1>7, <1>8

\* calibrate_offsets() keeps the modes of its caller and grounds all inputs.
LEMMA OffsetsBeginInv ==
  ASSUME Inv, NEW ok \in BOOLEAN, OffsetsBegin(ok)
  PROVE  Inv'
<1>0. TypeOK /\ pc = "offsets" /\ CallerInv /\ CarrierInv /\ UInv /\ CInv /\ BlockIInv
  BY DEF Inv, StageInv, OffsetsBegin
<1>1. /\ lanes' = lanes /\ lane' = lane /\ caller' = caller /\ before' = before /\ task' = task
  BY DEF OffsetsBegin, historyVars
<1> DEFINE u == [mem.u EXCEPT !.modes = All("GROUND")]
<1>2. mem.u \in UStates /\ mem.u.modes \in Modes \X Modes
  BY <1>0, CircuitFields DEF TypeOK
<1>3. u \in UStates /\ u.conn = mem.u.conn /\ u.ref = mem.u.ref
  <2>1. All("GROUND") \in Modes \X Modes
    BY AllModes DEF Modes
  <2> QED BY <1>2, <2>1, UType DEF UStates
<1>4. mem' = [mem EXCEPT !.u = u] /\ hw' = [hw EXCEPT !.u = IF ok THEN mem'.u ELSE Unknown]
  BY <1>0 DEF OffsetsBegin, TypeOK, Circuit
<1> HIDE DEF u
<1>5. /\ mem' \in Circuit /\ hw' \in HwStates /\ mem'.u = u
      /\ mem'.mux = mem.mux /\ mem'.bus = mem.bus /\ mem'.c = mem.c /\ mem'.i = mem.i
      /\ mem'.acl = mem.acl /\ mem'.sh = mem.sh
      /\ hw'.bus = hw.bus /\ hw'.acl = hw.acl /\ hw'.i = hw.i /\ hw'.c = hw.c /\ hw'.sh = hw.sh
  BY <1>0, <1>3, <1>4, ModesFields
<1>6. /\ old' \in [acl : ACLs, bus : {"ADC", "CL0_GAIN"}, u : UStates, factors : Factors,
                   upscaling : SUBSET Lanes, offset_modes : Modes \X Modes]
      /\ old'.acl = old.acl /\ old'.bus = old.bus /\ old'.u = old.u /\ old'.factors = old.factors
      /\ old'.upscaling = old.upscaling /\ old'.offset_modes = mem.u.modes
  BY <1>0, <1>2 DEF TypeOK, OffsetsBegin
<1>7. TypeOK'
  <2>1. success' \in BOOLEAN /\ cluster_failed' \in BOOLEAN
    BY <1>0, Zenon DEF TypeOK, OffsetsBegin, historyVars
  <2> QED BY <1>0, <1>1, <1>5, <1>6, <2>1 DEF TypeOK, OffsetsBegin, Continue, Fail
<1>8. CASE ~ok
  BY <1>7, <1>8, Failing DEF OffsetsBegin, Fail
<1>9. CASE ok
  <2>1. pc' = "compensate"
    BY <1>9 DEF OffsetsBegin, Continue
  <2>2. CarrierInv' /\ CallerInv'
    BY <1>0, <1>1, <1>5, <1>6, <2>1 DEF CarrierInv, CallerInv, InRoutes, InCluster, LaneActive, Ending, Leaving
  <2>3. UInv'
    BY <1>0, <1>1, <1>3, <1>5, <1>6, <2>1 DEF UInv, InCluster, LaneActive, Ending, Leaving
  <2>4. CInv'
    BY <1>0, <1>1, <1>5, <1>6, <2>1 DEF CInv, InCluster, LaneActive, Ending, Leaving
  <2>5. BlockIInv' /\ SHInv'
    BY <1>0, <1>1, <1>5, <1>6, <2>1 DEF BlockIInv, SHInv, InCluster, LaneActive, Ending, Leaving, Unscaled
  <2> QED BY <1>7, <2>1, <2>2, <2>3, <2>4, <2>5, NotReturned DEF Inv, StageInv
<1> QED BY <1>8, <1>9

\* calibrate_offsets() returns to its caller with the modes it had.
LEMMA CompensateInv ==
  ASSUME Inv, NEW ok \in BOOLEAN, Compensate(ok)
  PROVE  Inv'
<1>0. TypeOK /\ pc = "compensate" /\ CallerInv /\ CarrierInv /\ UInv /\ CInv /\ BlockIInv
  BY DEF Inv, StageInv, Compensate
<1>1. /\ old' = old /\ lanes' = lanes /\ lane' = lane /\ caller' = caller /\ before' = before
      /\ task' = task /\ compensated' = [c |-> hw.c, i |-> hw.i]
  BY DEF Compensate, localVars
<1> DEFINE u == [mem.u EXCEPT !.modes = old.offset_modes]
<1>2. mem.u \in UStates /\ mem.u.ref \in {"ONE", "ONE_TENTH"} /\ old.offset_modes \in Modes \X Modes
  BY <1>0, CircuitFields DEF TypeOK
<1>3. u \in UStates /\ u.conn = mem.u.conn /\ u.ref = mem.u.ref /\ u.modes = old.offset_modes
  BY <1>2, UType DEF UStates
<1>4. mem' = [mem EXCEPT !.u = u, !.sh = "INJECT"]
  BY <1>0 DEF Compensate, TypeOK, Circuit
<1> HIDE DEF u
<1>5. /\ mem' \in Circuit /\ mem'.u = u
      /\ mem'.mux = mem.mux /\ mem'.bus = mem.bus /\ mem'.c = mem.c /\ mem'.i = mem.i /\ mem'.acl = mem.acl
  BY <1>0, <1>3, <1>4 DEF TypeOK, Circuit, SHStates
<1>6. hw' = [hw EXCEPT !.sh = "INJECT", !.u = IF ok THEN mem'.u ELSE Unknown]
  BY DEF Compensate
<1>7. /\ hw' \in HwStates /\ (ok => hw'.u = mem'.u)
      /\ hw'.bus = hw.bus /\ hw'.acl = hw.acl /\ hw'.i = hw.i /\ hw'.c = hw.c
  BY <1>0, <1>3, <1>5, <1>6, ZenonT(40) DEF TypeOK, HwStates, SHStates
<1>8. caller \in {"set_config", "lane", "end"}
  BY <1>0 DEF CallerInv, TypeOK
<1>9. ReturnTo[caller] \in {"offset_done", "gain", "modes"}
  BY <1>8 DEF ReturnTo
<1>10. TypeOK'
  <2>1. success' \in BOOLEAN /\ cluster_failed' \in BOOLEAN
    BY <1>0, Zenon DEF TypeOK, Compensate, localVars
  <2> QED BY <1>0, <1>1, <1>5, <1>7, <1>9, <2>1, ZenonT(40) DEF TypeOK, Compensate, Continue, Fail
<1>11. CASE ~ok
  BY <1>10, <1>11, Failing DEF Compensate, Fail
<1>12. CASE ok /\ caller = "set_config"
  <2>1. pc' = "offset_done"
    BY <1>12 DEF Compensate, Continue, ReturnTo
  <2> QED BY <1>10, <2>1, OutsideElsewhere DEF Elsewhere
<1>13. CASE ok /\ caller = "lane"
  <2>1. pc' = "gain"
    BY <1>13 DEF Compensate, Continue, ReturnTo
  <2>2. CarrierInv' /\ CallerInv'
    BY <1>0, <1>1, <1>5, <1>7, <1>13, <2>1 DEF CarrierInv, CallerInv, InRoutes, InCluster, LaneActive, Ending, Leaving
  <2>3. UInv'
    BY <1>0, <1>1, <1>3, <1>5, <1>7, <1>13, <2>1 DEF UInv, InCluster, LaneActive, Ending, Leaving
  <2>4. CInv'
    BY <1>0, <1>1, <1>5, <1>7, <1>13, <2>1 DEF CInv, InCluster, LaneActive, Ending, Leaving
  <2>5. BlockIInv' /\ SHInv'
    BY <1>0, <1>1, <1>5, <1>7, <1>13, <2>1 DEF BlockIInv, SHInv, InCluster, LaneActive, Ending, Leaving, Unscaled
  <2> QED BY <1>10, <2>1, <2>2, <2>3, <2>4, <2>5, NotReturned DEF Inv, StageInv
<1>14. CASE ok /\ caller = "end"
  <2>1. pc' = "modes"
    BY <1>14 DEF Compensate, Continue, ReturnTo
  <2>2. CarrierInv' /\ CallerInv'
    BY <1>0, <1>1, <1>5, <1>7, <1>14, <2>1 DEF CarrierInv, CallerInv, InRoutes, InCluster, LaneActive, Ending, Leaving
  <2>3. UInv'
    BY <1>0, <1>1, <1>3, <1>5, <1>7, <1>14, <2>1 DEF UInv, InCluster, LaneActive, Ending, Leaving
  <2>4. CInv'
    BY <1>0, <1>1, <1>5, <1>7, <1>14, <2>1 DEF CInv, InCluster, LaneActive, Ending, Leaving
  <2>5. BlockIInv' /\ SHInv'
    BY <1>0, <1>1, <1>5, <1>7, <1>14, <2>1 DEF BlockIInv, SHInv, InCluster, LaneActive, Ending, Leaving, Unscaled
  <2> QED BY <1>10, <2>1, <2>2, <2>3, <2>4, <2>5, NotReturned DEF Inv, StageInv
<1> QED BY <1>8, <1>11, <1>12, <1>13, <1>14

\* The I-block is the one before, and SH injects; a gain out of range fails here.
LEMMA RestoreUpscalingInv ==
  ASSUME Inv, NEW ok \in BOOLEAN, RestoreUpscaling(ok)
  PROVE  Inv'
<1>0. TypeOK /\ pc = "upscaling" /\ CarrierInv /\ UInv /\ CInv /\ BlockIInv /\ SHInv
  BY DEF Inv, StageInv, RestoreUpscaling
<1>1. /\ old' = old /\ lanes' = lanes /\ lane' = lane /\ caller' = caller /\ before' = before
      /\ task' = task /\ compensated' = compensated
  BY DEF RestoreUpscaling, localVars, historyVars
<1>2. before.i \in IStates
  BY <1>0, CircuitFields DEF TypeOK
<1>3. [mem.i EXCEPT !.upscaling = old.upscaling] = before.i
  <2>1. mem.i = Unscaled /\ old.upscaling = before.i.upscaling
    BY <1>0 DEF BlockIInv, InCluster, Ending
  <2> QED BY <1>2, <2>1 DEF Unscaled, IStates
<1>4. mem' = [mem EXCEPT !.i = before.i, !.sh = IF ok THEN "INJECT" ELSE mem.sh]
  BY <1>0, <1>3 DEF RestoreUpscaling, TypeOK, Circuit
<1>5. /\ mem' \in Circuit /\ mem'.i = before.i /\ (ok => mem'.sh = "INJECT")
      /\ mem'.mux = mem.mux /\ mem'.bus = mem.bus /\ mem'.c = mem.c /\ mem'.u = mem.u /\ mem'.acl = mem.acl
  BY <1>0, <1>2, <1>4 DEF TypeOK, Circuit, SHStates
<1>6. hw' = [hw EXCEPT !.i = IF ok THEN mem'.i ELSE Unknown, !.sh = IF ok THEN "INJECT" ELSE hw.sh]
  BY <1>0 DEF RestoreUpscaling, TypeOK, HwStates
<1>7. /\ hw' \in HwStates /\ (ok => hw'.i = mem'.i /\ hw'.sh = "INJECT")
      /\ hw'.bus = hw.bus /\ hw'.acl = hw.acl /\ hw'.u = hw.u /\ hw'.c = hw.c
  BY <1>0, <1>2, <1>5, <1>6 DEF TypeOK, HwStates, SHStates
<1>8. TypeOK'
  <2>1. success' \in BOOLEAN /\ cluster_failed' \in BOOLEAN
    BY <1>0, Zenon DEF TypeOK, RestoreUpscaling, localVars, historyVars
  <2> QED BY <1>0, <1>1, <1>5, <1>7, <2>1 DEF TypeOK, RestoreUpscaling, Continue, Fail
<1>9. CASE ~(ok /\ success)
  BY <1>8, <1>9, Failing DEF RestoreUpscaling, Fail
<1>10. CASE ok /\ success
  <2>1. pc' = "restore_bus"
    BY <1>10 DEF RestoreUpscaling, Continue
  <2>2. CarrierInv' /\ CallerInv'
    BY <1>0, <1>1, <1>5, <1>7, <2>1 DEF CarrierInv, CallerInv, InRoutes, InCluster, LaneActive, Ending, Leaving
  <2>3. UInv'
    BY <1>0, <1>1, <1>5, <1>7, <2>1 DEF UInv, InCluster, LaneActive, Ending, Leaving
  <2>4. CInv'
    BY <1>0, <1>1, <1>5, <1>7, <2>1 DEF CInv, InCluster, LaneActive, Ending, Leaving
  <2>5. BlockIInv' /\ SHInv'
    BY <1>0, <1>1, <1>5, <1>7, <1>10, <2>1 DEF BlockIInv, SHInv, InCluster, LaneActive, Ending, Leaving, Unscaled
  <2> QED BY <1>8, <2>1, <2>2, <2>3, <2>4, <2>5, NotReturned DEF Inv, StageInv
<1> QED BY <1>9, <1>10

\* The ADC bus is the one before.
LEMMA RestoreBusInv ==
  ASSUME Inv, NEW ok \in BOOLEAN, RestoreBus(ok)
  PROVE  Inv'
<1>0. TypeOK /\ pc = "restore_bus" /\ CarrierInv /\ UInv /\ CInv /\ BlockIInv /\ SHInv
  BY DEF Inv, StageInv, RestoreBus
<1>1. /\ old' = old /\ lanes' = lanes /\ lane' = lane /\ caller' = caller /\ before' = before
      /\ task' = task /\ compensated' = compensated
  BY DEF RestoreBus, localVars, historyVars
<1>2. /\ mem' \in Circuit /\ mem'.bus = old.bus
      /\ mem'.mux = mem.mux /\ mem'.i = mem.i /\ mem'.c = mem.c /\ mem'.u = mem.u /\ mem'.acl = mem.acl
      /\ mem'.sh = mem.sh
  BY <1>0 DEF RestoreBus, TypeOK, Circuit
<1>3. /\ hw' \in HwStates /\ (ok => hw'.bus = old.bus)
      /\ hw'.i = hw.i /\ hw'.acl = hw.acl /\ hw'.u = hw.u /\ hw'.c = hw.c /\ hw'.sh = hw.sh
  BY <1>0 DEF RestoreBus, TypeOK, HwStates
<1>4. TypeOK'
  <2>1. success' \in BOOLEAN /\ cluster_failed' \in BOOLEAN
    BY <1>0, Zenon DEF TypeOK, RestoreBus, localVars, historyVars
  <2> QED BY <1>0, <1>1, <1>2, <1>3, <2>1, ZenonT(40) DEF TypeOK, RestoreBus, Continue, Fail
<1>5. CASE ~ok
  BY <1>4, <1>5, Failing DEF RestoreBus, Fail
<1>6. CASE ok
  <2>1. pc' = "restore_acl"
    BY <1>6 DEF RestoreBus, Continue
  <2>2. CarrierInv' /\ CallerInv'
    BY <1>0, <1>1, <1>2, <1>3, <1>6, <2>1 DEF CarrierInv, CallerInv, InRoutes, InCluster, LaneActive, Ending, Leaving
  <2>3. UInv'
    BY <1>0, <1>1, <1>2, <1>3, <2>1 DEF UInv, InCluster, LaneActive, Ending, Leaving
  <2>4. CInv'
    BY <1>0, <1>1, <1>2, <1>3, <2>1 DEF CInv, InCluster, LaneActive, Ending, Leaving
  <2>5. BlockIInv' /\ SHInv'
    BY <1>0, <1>1, <1>2, <1>3, <2>1 DEF BlockIInv, SHInv, InCluster, LaneActive, Ending, Leaving, Unscaled
  <2> QED BY <1>4, <2>1, <2>2, <2>3, <2>4, <2>5, NotReturned DEF Inv, StageInv
<1> QED BY <1>5, <1>6

\* The calibration succeeds: everything has been put back.
LEMMA RestoreACLInv ==
  ASSUME Inv, NEW ok \in BOOLEAN, RestoreACL(ok)
  PROVE  Inv'
<1>0. TypeOK /\ pc = "restore_acl" /\ CarrierInv /\ UInv /\ CInv /\ BlockIInv /\ SHInv
  BY DEF Inv, StageInv, RestoreACL
<1>1. /\ old' = old /\ lanes' = lanes /\ lane' = lane /\ caller' = caller /\ before' = before
      /\ task' = task /\ compensated' = compensated /\ pc' = "return" /\ result' = ok
  BY DEF RestoreACL, localVars, historyVars
<1>2. /\ mem' \in Circuit /\ mem'.acl = old.acl
      /\ mem'.mux = mem.mux /\ mem'.i = mem.i /\ mem'.c = mem.c /\ mem'.u = mem.u /\ mem'.bus = mem.bus
      /\ mem'.sh = mem.sh
  BY <1>0 DEF RestoreACL, TypeOK, Circuit
<1>3. /\ hw' \in HwStates /\ (ok => hw'.acl = old.acl)
      /\ hw'.i = hw.i /\ hw'.bus = hw.bus /\ hw'.u = hw.u /\ hw'.c = hw.c /\ hw'.sh = hw.sh
  BY <1>0 DEF RestoreACL, TypeOK, HwStates
<1>4. TypeOK'
  <2>1. success' \in BOOLEAN /\ cluster_failed' \in BOOLEAN
    BY <1>0, Zenon DEF TypeOK, RestoreACL, localVars, historyVars
  <2> QED BY <1>0, <1>1, <1>2, <1>3, <2>1 DEF TypeOK
<1>5. CASE ~ok
  BY <1>1, <1>4, <1>5, Failing
<1>6. CASE ok
  <2>1. /\ mem'.u = before'.u /\ mem'.c.factors = before'.c.factors /\ mem'.i = before'.i
        /\ mem'.sh = "INJECT" /\ mem'.bus = before'.bus /\ mem'.mux = before'.mux /\ mem'.acl = before'.acl
    BY <1>0, <1>1, <1>2 DEF CarrierInv, UInv, CInv, BlockIInv, SHInv, InRoutes, Leaving
  <2>2. /\ hw'.u = mem'.u /\ hw'.c = mem'.c /\ hw'.i = mem'.i /\ hw'.sh = mem'.sh
        /\ hw'.bus = mem'.bus /\ hw'.acl = mem'.acl
    BY <1>0, <1>2, <1>3, <1>6 DEF CarrierInv, UInv, CInv, BlockIInv, SHInv, InRoutes, Leaving
  <2>3. mem' = [before' EXCEPT !.c.gains = mem'.c.gains, !.sh = "INJECT"]
    <3>1. before' \in Circuit
      BY <1>4 DEF TypeOK
    <3>2. mem'.c = [before'.c EXCEPT !.gains = mem'.c.gains]
      <4>1. mem'.c \in CStates /\ before'.c \in CStates
        BY <1>2, <3>1, CircuitFields
      <4> QED BY <2>1, <4>1 DEF CStates
    <3>3. [before' EXCEPT !.c.gains = mem'.c.gains, !.sh = "INJECT"]
            = [before' EXCEPT !.c = mem'.c, !.sh = "INJECT"]
      BY <3>1, <3>2 DEF Circuit
    <3>4. mem' = [before' EXCEPT !.c = mem'.c, !.sh = "INJECT"]
      BY <1>2, <2>1, <3>1 DEF Circuit
    <3> QED BY <3>3, <3>4
  <2>4. hw' = [mem' EXCEPT !.mux = hw'.mux]
    BY <1>2, <1>3, <2>2 DEF Circuit, HwStates
  <2>5. compensated' = [c |-> hw'.c, i |-> [hw'.i EXCEPT !.upscaling = {}]]
    <3>1. compensated' = [c |-> hw'.c, i |-> Unscaled]
      BY <1>0, <1>1, <1>3 DEF SHInv, Leaving
    <3>2. hw'.i = before.i /\ before.i \in IStates
      BY <1>0, <1>1, <2>1, <2>2, CircuitFields DEF TypeOK
    <3>3. Unscaled = [hw'.i EXCEPT !.upscaling = {}]
      BY <3>2 DEF Unscaled, IStates
    <3> QED BY <3>1, <3>3
  <2>6. ReturnInv'
    BY <2>3, <2>4, <2>5 DEF ReturnInv, CalibrationRestores, OffsetsFitFactors
  <2>7. CarrierInv' /\ UInv' /\ CallerInv'
    BY <1>1 DEF CarrierInv, UInv, CallerInv, InRoutes, InCluster, LaneActive, Ending, Leaving
  <2>8. CInv' /\ BlockIInv' /\ SHInv'
    BY <1>1 DEF CInv, BlockIInv, SHInv, InRoutes, InCluster, LaneActive, Ending, Leaving
  <2> QED BY <1>4, <2>6, <2>7, <2>8 DEF Inv, StageInv
<1> QED BY <1>5, <1>6

\* Behind the return the request goes on.
LEMMA ReturnStepInv ==
  ASSUME Inv, Return
  PROVE  Inv'
<1>1. pc' \in {"run", "answered"}
  BY DEF Return
<1>2. TypeOK'
  BY <1>1 DEF Inv, TypeOK, Return, localVars, historyVars
<1> QED BY <1>1, <1>2, OutsideElsewhere DEF Elsewhere

-----------------------------------------------------------------------------
(* Theorems *)

\* The invariant holds after init().
LEMMA InitInv == Init => Inv
<1> SUFFICES ASSUME Init
             PROVE  Inv
  OBVIOUS
<1>1. Default.i \in IStates
  BY DefaultType, CircuitFields
<1>2. hw \in HwStates
  BY <1>1 DEF Init, HwStates
<1>3. TypeOK
  BY <1>2, DefaultType DEF Init, TypeOK
<1>4. ReturnInv
  BY DEF Init, ReturnInv, CalibrationRestores, OffsetsFitFactors, Calibrated
<1>5. CallerInv /\ CarrierInv /\ UInv
  BY DEF Init, CallerInv, CarrierInv, UInv, InRoutes, InCluster, LaneActive, Ending, Leaving
<1>6. CInv /\ BlockIInv /\ SHInv
  BY DEF Init, CInv, BlockIInv, SHInv, InRoutes, InCluster, LaneActive, Ending, Leaving
<1> QED BY <1>3, <1>4, <1>5, <1>6 DEF Inv, StageInv

\* No step of a calibration disturbs the invariant.
LEMMA CalibrationInv ==
  ASSUME Inv, Calibration
  PROVE  Inv'
<1>1. CASE \E ok \in BOOLEAN : RoutesBegin(ok) \/ SelectGain(ok) \/ ClearFactors(ok)
  BY <1>1, RoutesBeginInv, SelectGainInv, ClearFactorsInv
<1>2. CASE \E ok \in BOOLEAN : RestoreModes(ok) \/ RestoreUpscaling(ok) \/ RestoreBus(ok) \/ RestoreACL(ok)
  BY <1>2, RestoreModesInv, RestoreUpscalingInv, RestoreBusInv, RestoreACLInv
<1>3. CASE \E ok \in BOOLEAN : OffsetsBegin(ok) \/ Compensate(ok) \/ LaneMeasured(ok)
  BY <1>3, OffsetsBeginInv, CompensateInv, LaneMeasuredInv
<1>4. CASE \E ok \in BOOLEAN : \E l \in Lanes : LaneBegin(l, ok)
  BY <1>4, LaneBeginInv
<1>5. CASE LaneGain \/ RestoreFactors \/ Return
  BY <1>5, LaneGainInv, RestoreFactorsInv, ReturnStepInv
<1> QED BY <1>1, <1>2, <1>3, <1>4, <1>5 DEF Calibration

\* Nor does a step that changes nothing.
LEMMA StutterInv ==
  ASSUME Inv, UNCHANGED vars
  PROVE  Inv'
<1> USE DEF vars, localVars, historyVars
<1>1. TypeOK'
  BY DEF Inv, TypeOK
<1>2. ReturnInv'
  BY DEF Inv, ReturnInv, CalibrationRestores, OffsetsFitFactors, Calibrated
<1>3. CallerInv' /\ CarrierInv' /\ UInv'
  BY DEF Inv, StageInv, CallerInv, CarrierInv, UInv, InRoutes, InCluster, LaneActive, Ending, Leaving
<1>4. CInv' /\ BlockIInv' /\ SHInv'
  BY DEF Inv, StageInv, CInv, BlockIInv, SHInv, InRoutes, InCluster, LaneActive, Ending, Leaving, Routed, Unscaled
<1> QED BY <1>1, <1>2, <1>3, <1>4 DEF Inv, StageInv

\* The inductive invariant: where each part of the circuit is at every step of a calibration.
THEOREM InvHolds == Spec => []Inv
<1>1. Inv /\ [Next]_vars => Inv'
  BY RequestsInv, CalibrationInv, StutterInv DEF Next
<1> QED BY <1>1, InitInv, PTL DEF Spec

\* The types of configuration, hardware and locals.
THEOREM TypeCorrect == Spec => []TypeOK
<1>1. Inv => TypeOK
  BY DEF Inv
<1> QED BY <1>1, InvHolds, PTL

\* LUCIDAC::calibrate_routes() puts back what it has changed if it returns true, whatever
\* the circuit and wherever transfers have failed before.
THEOREM SuccessRestores == Spec => []CalibrationRestores
<1>1. Inv => CalibrationRestores
  BY DEF Inv, ReturnInv
<1> QED BY <1>1, InvHolds, PTL

\* The offsets are those of the corrected coefficients without upscaling.
THEOREM OffsetsAreThoseOfFactors == Spec => []OffsetsFitFactors
<1>1. Inv => OffsetsFitFactors
  BY DEF Inv, ReturnInv
<1> QED BY <1>1, InvHolds, PTL

\* When a lane is measured, it is the only one with a factor, with the reference at its
\* input and its output on the ADC bus.
THEOREM MeasuredAlone == Spec => []LaneIsMeasuredAlone
<1>1. Inv => LaneIsMeasuredAlone
  <2> SUFFICES ASSUME Inv, pc = "measure"
               PROVE  LaneIsMeasuredAlone
    BY DEF LaneIsMeasuredAlone
  <2>1. hw.u = mem.u /\ mem.u.conn = before.u.conn /\ mem.u.modes = All("POS_REF") /\ mem.u.ref = "ONE"
    BY DEF Inv, StageInv, UInv, InCluster, LaneActive
  <2>2. mem.u \in UStates
    BY CircuitFields DEF Inv, TypeOK
  <2>3. hw.u = [conn |-> before.u.conn, modes |-> All("POS_REF"), ref |-> "ONE"]
    BY <2>1, <2>2 DEF UStates
  <2>4. /\ lane \in Routed(before) /\ hw.c = mem.c
        /\ mem.c.factors = Alone(lane) /\ mem.c.gains[lane] = "one"
    BY DEF Inv, StageInv, CInv, InCluster, LaneActive
  <2>5. lane \in hw.u.conn
    BY <2>1, <2>4 DEF Routed
  <2>6. hw.c.factors = [l \in Lanes |-> IF l = lane THEN "one" ELSE "zero"] /\ hw.c.gains[lane] = "one"
    BY <2>4 DEF Alone
  <2>7. hw.i = [out |-> before.i.out, upscaling |-> {}] /\ hw.sh = GainGroup(before.i.out[lane])
    BY DEF Inv, StageInv, BlockIInv, SHInv, Unscaled, InCluster, LaneActive
  <2>8. hw.bus = "CL0_GAIN" /\ hw.acl = "INTERNAL"
    BY DEF Inv, StageInv, CarrierInv, InRoutes, InCluster, LaneActive
  <2> QED BY <2>3, <2>5, <2>6, <2>7, <2>8 DEF LaneIsMeasuredAlone
<1> QED BY <1>1, InvHolds, PTL

-----------------------------------------------------------------------------
(* What the client is told about set_config *)

\* set_config so far: what has been configured has been written, but for a failed cluster.
Believed == task = "set_config" /\ ~cluster_failed

WrittenInv ==
  Believed =>
    /\ \/ pc \in {"configured", "offset_done", "routes"}
       \/ pc \in {"offsets", "compensate"} /\ caller = "set_config"
       \/ pc \in {"return", "answered"} /\ result
       => hw = mem
    /\ InRoutes => hw.mux = mem.mux

\* A transfer in which nothing fails
LEMMA WrittenIsAll ==
  ASSUME NEW m \in Circuit, NEW F, Status(F), F \cap ClusterParts = {}
  PROVE  Written(m, F) = m
<1>1. "M" \notin F /\ "U" \notin F /\ "I" \notin F /\ "CTRL" \notin F /\ "MUX" \notin F /\ "ACL" \notin F
  BY DEF Status, ClusterParts
<1>2. F \cap {"M", "U"} = {} /\ F \cap {"CTRL", "MUX", "ACL"} = {}
  BY <1>1
<1>3. Written(m, F) = [u |-> m.u, c |-> m.c, i |-> m.i, sh |-> m.sh, bus |-> m.bus, mux |-> m.mux, acl |-> m.acl]
  BY <1>1, <1>2 DEF Written
<1> QED BY <1>3 DEF Circuit

\* The answers that are not preceded by a calibration
LEMMA RequestsWritten ==
  ASSUME TypeOK, WrittenInv, Requests
  PROVE  WrittenInv'
<1> USE DEF WrittenInv, Believed
<1>1. CASE \E F \in Failures : \E circuit, calibration, sync \in BOOLEAN : ResetRequest(circuit, calibration, sync, F)
  BY <1>1 DEF ResetRequest
<1>2. CASE \E F \in Failures : \E reset_before \in BOOLEAN : SetConfig(reset_before, F)
  BY <1>2 DEF SetConfig, InRoutes, InCluster, LaneActive, Ending, Leaving
<1>3. CASE (\E F \in Failures : TrackKludge(F) \/ InjectKludge(F)) \/ SkipKludge
  BY <1>3 DEF TrackKludge, InjectKludge, SkipKludge, InRoutes, InCluster, LaneActive, Ending, Leaving
<1>4. CASE \E F \in Failures : \E cfg \in Configs : ConfigChildren(cfg, F)
  <2> PICK F \in Failures, cfg \in Configs : ConfigChildren(cfg, F)
    BY <1>4
  <2> DEFINE m == [mem EXCEPT !.u = cfg.u, !.c.factors = cfg.factors, !.i = cfg.i, !.sh = cfg.sh]
  <2>1. m \in Circuit
    BY MergeType, ConfigFields DEF TypeOK
  <2>2. WriteAll(m, F) /\ result' = Status(F) /\ pc' \in {"configured", "answered"} /\ (pc' = "configured" => Status(F))
    BY DEF ConfigChildren
  <2> HIDE DEF m
  <2>3. mem' = m /\ hw' = Written(m, F) /\ cluster_failed' = (F \cap ClusterParts # {})
    BY <2>2 DEF WriteAll
  <2>4. Status(F) /\ ~cluster_failed' => hw' = mem'
    BY <2>1, <2>3, WrittenIsAll
  <2>5. ~InRoutes'
    BY <2>2 DEF InRoutes, InCluster, LaneActive, Ending, Leaving
  <2> QED BY <2>2, <2>4, <2>5
<1>5. CASE \E cfg \in Configs, setting \in {"mux", "acl"} :
             \/ ConfigSetting(cfg, setting)
             \/ \E transferred \in BOOLEAN : ConfigSettingFails(cfg, setting, transferred)
  BY <1>5 DEF ConfigSetting, ConfigSettingFails, InRoutes, InCluster, LaneActive, Ending, Leaving
<1>6. CASE \E ok \in BOOLEAN : MulKludge(ok) \/ ConfigSelfEnd(ok)
  BY <1>6 DEF MulKludge, ConfigSelfEnd, InRoutes, InCluster, LaneActive, Ending, Leaving
<1>7. CASE \E cfg \in Configs, applied \in Applied : ConfigFails(cfg, applied)
  BY <1>7 DEF ConfigFails, InRoutes, InCluster, LaneActive, Ending, Leaving
<1>8. CASE WithOffset \/ WithoutOffset
  BY <1>8 DEF WithOffset, WithoutOffset, historyVars, InRoutes, InCluster, LaneActive, Ending, Leaving
<1>9. CASE WithRoutes \/ WithoutRoutes
  BY <1>9 DEF WithRoutes, WithoutRoutes, historyVars, InRoutes, InCluster, LaneActive, Ending, Leaving
<1>10. CASE StartRun \/ Done
  BY <1>10 DEF StartRun, Done
<1> QED
  BY <1>1, <1>2, <1>3, <1>4, <1>5, <1>6, <1>7, <1>8, <1>9, <1>10 DEF Requests

\* The calibration of routes does not touch the ADC channels.
LEMMA RoutesKeepChannels ==
  ASSUME TypeOK, NEW ok \in BOOLEAN,
         \/ RoutesBegin(ok) \/ SelectGain(ok) \/ ClearFactors(ok) \/ RestoreModes(ok)
         \/ RestoreUpscaling(ok) \/ RestoreBus(ok) \/ RestoreACL(ok)
         \/ OffsetsBegin(ok) \/ Compensate(ok) \/ LaneMeasured(ok)
         \/ \E l \in Lanes : LaneBegin(l, ok)
         \/ LaneGain \/ RestoreFactors
  PROVE  mem'.mux = mem.mux /\ hw'.mux = hw.mux
<1>1. mem \in Circuit /\ hw \in HwStates
  BY DEF TypeOK
<1>2. CASE RoutesBegin(ok) \/ SelectGain(ok) \/ RestoreBus(ok) \/ RestoreACL(ok)
  BY <1>1, <1>2 DEF RoutesBegin, SelectGain, RestoreBus, RestoreACL, Circuit, HwStates
<1>3. CASE ClearFactors(ok) \/ RestoreUpscaling(ok) \/ RestoreFactors \/ LaneGain
  BY <1>1, <1>3 DEF ClearFactors, RestoreUpscaling, RestoreFactors, LaneGain, Circuit, HwStates
<1>4. CASE RestoreModes(ok) \/ OffsetsBegin(ok) \/ Compensate(ok)
  BY <1>1, <1>4 DEF RestoreModes, OffsetsBegin, Compensate, Circuit, HwStates
<1>5. CASE LaneMeasured(ok) \/ \E l \in Lanes : LaneBegin(l, ok)
  BY <1>1, <1>5 DEF LaneMeasured, LaneBegin, Circuit, HwStates
<1> QED BY <1>2, <1>3, <1>4, <1>5

\* The answer behind a calibration
LEMMA CalibrationWritten ==
  ASSUME Inv, Inv', WrittenInv, Calibration
  PROVE  WrittenInv'
<1>0. TypeOK
  BY DEF Inv
<1> USE DEF WrittenInv, Believed
<1>1. CASE \E ok \in BOOLEAN : RoutesBegin(ok)
  <2> PICK ok \in BOOLEAN : RoutesBegin(ok)
    BY <1>1
  <2>1. /\ pc = "routes" /\ task' = task /\ cluster_failed' = cluster_failed
        /\ pc' = "bus" \/ (pc' = "return" /\ result' = FALSE)
    BY DEF RoutesBegin, Continue, Fail
  <2>2. mem'.mux = mem.mux /\ hw'.mux = hw.mux
    BY <1>0, RoutesKeepChannels
  <2> QED BY <2>1, <2>2
<1>2. CASE \/ \E ok \in BOOLEAN : \/ SelectGain(ok) \/ ClearFactors(ok) \/ RestoreModes(ok)
                                  \/ RestoreUpscaling(ok) \/ RestoreBus(ok) \/ LaneMeasured(ok)
                                  \/ \E l \in Lanes : LaneBegin(l, ok)
           \/ LaneGain \/ RestoreFactors
  <2>1. InRoutes /\ task' = task /\ cluster_failed' = cluster_failed
    BY <1>2 DEF SelectGain, ClearFactors, RestoreModes, RestoreUpscaling, RestoreBus, LaneMeasured,
                LaneBegin, LaneGain, RestoreFactors, historyVars, InRoutes, InCluster, LaneActive, Ending, Leaving
  <2>2. /\ pc' \notin {"configured", "offset_done", "routes", "answered", "compensate"}
        /\ pc' = "return" => result' = FALSE
        /\ pc' = "offsets" => caller' # "set_config"
    BY <1>2 DEF SelectGain, ClearFactors, RestoreModes, RestoreUpscaling, RestoreBus, LaneMeasured,
                LaneBegin, LaneGain, RestoreFactors, AfterFactors, Continue, Fail
  <2>3. mem'.mux = mem.mux /\ hw'.mux = hw.mux
    BY <1>0, <1>2, RoutesKeepChannels
  <2> QED BY <2>1, <2>2, <2>3
<1>3. CASE \E ok \in BOOLEAN : RestoreACL(ok)
  <2> PICK ok \in BOOLEAN : RestoreACL(ok)
    BY <1>3
  <2>1. /\ InRoutes /\ task' = task /\ cluster_failed' = cluster_failed /\ pc' = "return"
    BY DEF RestoreACL, historyVars, InRoutes, Leaving
  <2>2. mem'.mux = mem.mux /\ hw'.mux = hw.mux
    BY <1>0, RoutesKeepChannels
  <2>3. CASE result' /\ Believed'
    <3>1. hw' = [mem' EXCEPT !.mux = hw'.mux] /\ mem' \in Circuit
      BY <2>1, <2>3 DEF Inv, ReturnInv, CalibrationRestores, Calibrated, TypeOK
    <3>2. hw'.mux = mem'.mux
      BY <2>1, <2>2, <2>3
    <3>3. hw' = mem'
      BY <3>1, <3>2 DEF Circuit
    <3> QED BY <3>2, <3>3
  <2>4. ~InRoutes'
    BY <2>1 DEF InRoutes, InCluster, LaneActive, Ending, Leaving
  <2> QED BY <2>1, <2>3, <2>4
<1>4. CASE \E ok \in BOOLEAN : OffsetsBegin(ok)
  <2> PICK ok \in BOOLEAN : OffsetsBegin(ok)
    BY <1>4
  <2>1. /\ pc = "offsets" /\ task' = task /\ cluster_failed' = cluster_failed /\ caller' = caller
        /\ (pc' = "compensate" /\ ok) \/ (pc' = "return" /\ result' = FALSE)
        /\ mem' = [mem EXCEPT !.u.modes = All("GROUND")]
        /\ hw' = [hw EXCEPT !.u = IF ok THEN mem'.u ELSE Unknown]
    BY DEF OffsetsBegin, Continue, Fail, historyVars
  <2>2. mem'.mux = mem.mux /\ hw'.mux = hw.mux
    BY <1>0, RoutesKeepChannels
  <2>3. InRoutes' => InRoutes
    BY <2>1 DEF InRoutes, InCluster, LaneActive, Ending, Leaving
  <2>4. ok /\ hw = mem => hw' = mem'
    BY <1>0, <2>1 DEF TypeOK, Circuit
  <2> QED BY <2>1, <2>2, <2>3, <2>4
<1>5. CASE \E ok \in BOOLEAN : Compensate(ok)
  <2> PICK ok \in BOOLEAN : Compensate(ok)
    BY <1>5
  <2>1. /\ pc = "compensate" /\ task' = task /\ cluster_failed' = cluster_failed /\ caller' = caller
        /\ (pc' = ReturnTo[caller] /\ ok) \/ (pc' = "return" /\ result' = FALSE)
        /\ mem' = [mem EXCEPT !.sh = "INJECT", !.u.modes = old.offset_modes]
        /\ hw' = [hw EXCEPT !.sh = "INJECT", !.u = IF ok THEN mem'.u ELSE Unknown]
    BY DEF Compensate, Continue, Fail, localVars
  <2>2. mem'.mux = mem.mux /\ hw'.mux = hw.mux
    BY <1>0, RoutesKeepChannels
  <2>3. caller \in {"set_config", "lane", "end"}
    BY <2>1 DEF Inv, StageInv, CallerInv, TypeOK
  <2>4. ok /\ hw = mem => hw' = mem'
    BY <1>0, <2>1 DEF TypeOK, Circuit
  <2>5. CASE ok /\ caller = "set_config"
    <3>1. pc' \in {"offset_done", "return"} /\ (pc' = "return" => result' = FALSE)
      BY <2>1, <2>5 DEF ReturnTo
    <3>2. ~InRoutes'
      BY <3>1 DEF InRoutes, InCluster, LaneActive, Ending, Leaving
    <3> QED BY <2>1, <2>4, <2>5, <3>1, <3>2
  <2>6. CASE ok /\ caller \in {"lane", "end"}
    <3>1. pc' \in {"gain", "modes", "return"} /\ (pc' = "return" => result' = FALSE)
      BY <2>1, <2>6 DEF ReturnTo
    <3>2. InRoutes
      BY <2>1, <2>6 DEF InRoutes, InCluster, LaneActive, Ending
    <3> QED BY <2>1, <2>2, <3>1, <3>2
  <2>7. CASE ~ok
    <3>1. pc' = "return" /\ result' = FALSE
      BY <2>1, <2>7
    <3>2. ~InRoutes'
      BY <3>1 DEF InRoutes, InCluster, LaneActive, Ending, Leaving
    <3> QED BY <3>1, <3>2
  <2> QED BY <2>3, <2>5, <2>6, <2>7
<1>6. CASE Return
  <2>1. /\ pc = "return" /\ pc' \in {"run", "answered"} /\ mem' = mem /\ hw' = hw /\ result' = result
        /\ task' = task /\ cluster_failed' = cluster_failed
    BY <1>6 DEF Return, historyVars
  <2>2. ~InRoutes'
    BY <2>1 DEF InRoutes, InCluster, LaneActive, Ending, Leaving
  <2> QED BY <2>1, <2>2
<1> QED BY <1>1, <1>2, <1>3, <1>4, <1>5, <1>6 DEF Calibration

\* set_config: a success that the client is told is in the hardware, through every
\* combination of resets, kludges and calibrations, unless the cluster failed unnoticed.
THEOREM ToldIsWritten == Spec => []SuccessIsWritten
<1>1. Init => WrittenInv
  BY DEF Init, WrittenInv, Believed
<1>2. Inv /\ Inv' /\ WrittenInv /\ [Next]_vars => WrittenInv'
  <2>1. ASSUME Inv, Inv', WrittenInv, Next
        PROVE  WrittenInv'
    BY <2>1, RequestsWritten, CalibrationWritten DEF Next, Inv
  <2>2. ASSUME WrittenInv, UNCHANGED vars
        PROVE  WrittenInv'
    BY <2>2 DEF vars, localVars, historyVars, WrittenInv, Believed, InRoutes, InCluster, LaneActive, Ending, Leaving
  <2> QED BY <2>1, <2>2
<1>3. WrittenInv => SuccessIsWritten
  BY DEF WrittenInv, Believed, SuccessIsWritten
<1> QED BY <1>1, <1>2, <1>3, InvHolds, PTL DEF Spec
=============================================================================
