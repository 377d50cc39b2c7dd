------------------------------ MODULE Carrier ------------------------------
(***************************************************************************)
(* The carrier: circuit configuration in memory and in the hardware,       *)
(* set_config and reset, and the calibration of offsets and routes         *)
(* (platform-lucidac/src/carrier, lucidac, entity).                        *)
(*                                                                         *)
(* Every block keeps its configuration in memory; write_to_hardware()      *)
(* transfers it, and each transfer that the code checks may fail.  The     *)
(* calibration changes the circuit, measures and puts it back, with a      *)
(* return at every failing transfer.  A LUCIDAC has one cluster.           *)
(***************************************************************************)
EXTENDS Integers

CONSTANTS
  NumLanes,       \* lanes through U, C and I-block (32)
  HalfOutputs,    \* outputs of the I-block in one gain group (8)
  Configs,        \* bound: the circuits that clients configure
  Failures,       \* bound: the parts whose transfers fail in one write
  Applied,        \* bound: the pieces of a message that are applied before one is refused
  Unknown         \* content of a register after a failed transfer

Lanes == 0 .. NumLanes - 1
Outputs == 0 .. 2 * HalfOutputs - 1

Modes == {"ANALOG_INPUT", "POS_REF", "NEG_REF", "GROUND"}
UStates == [conn : SUBSET Lanes, modes : Modes \X Modes, ref : {"ONE", "ONE_TENTH"}]
Factors == [Lanes -> {"zero", "one", "other"}]
CStates == [factors : Factors, gains : [Lanes -> {"one", "corrected"}]]
IStates == [out : [Lanes -> Outputs \cup {-1}], upscaling : SUBSET Lanes]
SHStates == {"TRACK", "TRACK_AT_IC", "INJECT", "GAIN_ZERO_TO_SEVEN", "GAIN_EIGHT_TO_FIFTEEN"}
ACLs == {"INTERNAL", "EXTERNAL"}
Channels == {"DISABLED", "SELECTED"}

\* What a message configures: the blocks that remember it and the carrier's own settings.
ConfigType == [u : UStates, factors : Factors, i : IStates, sh : SHStates, mux : Channels, acl : ACLs]

ASSUME SizeAssumption == NumLanes \in Nat /\ HalfOutputs \in Nat
ASSUME ConfigsAssumption == Configs \subseteq ConfigType

\* The parts of the hardware whose transfer is checked; those of C and SH cannot fail.
Parts == {"M", "U", "I", "CTRL", "MUX", "ACL"}
ClusterParts == {"M", "U", "I"}

ASSUME FailuresAssumption == Failures \subseteq SUBSET Parts
ASSUME AppliedAssumption == Applied \subseteq SUBSET {"u", "c", "i", "sh"}

Circuit == [u : UStates, c : CStates, i : IStates, sh : SHStates,
            bus : {"ADC", "CL0_GAIN"}, mux : Channels, acl : ACLs]

VARIABLES
  mem,            \* the configuration in memory
  hw,             \* the same in the hardware
  pc, task,       \* where the main program is, and for which request
  result,         \* what is returned or answered
  old,            \* the locals old_... of the calibration
  lanes, lane,    \* the connections still to be calibrated, and the current one
  success,        \* local of Cluster::calibrate_routes()
  caller,         \* who has called calibrate_offsets()
  before,         \* history: mem when LUCIDAC::calibrate_routes() was called
  compensated,    \* history: C and I-block in the hardware when SH was last tracking
  cluster_failed  \* history: the last write_to_hardware() failed in the cluster

localVars == <<old, lanes, lane, success, caller>>
historyVars == <<before, compensated, cluster_failed>>
vars == <<mem, hw, pc, task, result, localVars, historyVars>>

All(mode) == <<mode, mode>>

-----------------------------------------------------------------------------
(* reset() of the carrier and of everything in it *)

Default == [u |-> [conn |-> {}, modes |-> All("ANALOG_INPUT"), ref |-> "ONE"],
            c |-> [factors |-> [l \in Lanes |-> "one"], gains |-> [l \in Lanes |-> "one"]],
            i |-> [out |-> [l \in Lanes |-> -1], upscaling |-> {}],
            sh |-> "INJECT", bus |-> "ADC", mux |-> "DISABLED", acl |-> "INTERNAL"]

\* The ADC channels are reset whatever the action.
Reset(m, circuit, calibration) ==
  [(IF circuit THEN Default ELSE m) EXCEPT
     !.c.gains = IF calibration THEN Default.c.gains ELSE m.c.gains, !.mux = "DISABLED"]

\* Locals and history while no request is served
NoLocals ==
  [old |-> [acl |-> "INTERNAL", bus |-> "ADC", u |-> Default.u, factors |-> Default.c.factors,
            upscaling |-> {}, offset_modes |-> Default.u.modes],
   before |-> Default, compensated |-> [c |-> Unknown, i |-> Unknown]]

\* init() has written the I-block and the CTRL-block; nothing else has been written yet.
Init ==
  /\ mem = Default
  /\ hw = [u |-> Unknown, c |-> Unknown, i |-> Default.i, sh |-> Unknown, bus |-> "ADC",
           mux |-> Unknown, acl |-> Unknown]
  /\ pc = "idle" /\ task = "none" /\ result = TRUE
  /\ old = NoLocals.old /\ lanes = {} /\ lane = -1 /\ success = TRUE /\ caller = "none"
  /\ before = NoLocals.before /\ compensated = NoLocals.compensated /\ cluster_failed = FALSE

-----------------------------------------------------------------------------
(* write_to_hardware() of the carrier, when the transfers of the parts F fail *)

\* The cluster stops at the first failing block, the carrier goes on.
Written(m, F) ==
  [u |-> IF "M" \in F THEN hw.u ELSE IF "U" \in F THEN Unknown ELSE m.u,
   c |-> IF F \cap {"M", "U"} # {} THEN hw.c ELSE m.c,
   i |-> IF F \cap {"M", "U"} # {} THEN hw.i ELSE IF "I" \in F THEN Unknown ELSE m.i,
   sh |-> IF F \cap ClusterParts # {} THEN hw.sh ELSE m.sh,
   bus |-> IF "CTRL" \in F THEN Unknown ELSE m.bus,
   mux |-> IF "MUX" \in F THEN Unknown ELSE m.mux,
   acl |-> IF "ACL" \in F THEN Unknown ELSE m.acl]

\* The status: a failing cluster adds its index, and that of the only cluster is 0.
StatusOfLast(F) == "ACL" \notin F
Status(F) == F \cap {"CTRL", "MUX", "ACL"} = {}

WriteAll(m, F) ==
  /\ mem' = m /\ hw' = Written(m, F)
  /\ cluster_failed' = (F \cap ClusterParts # {})

-----------------------------------------------------------------------------
(* The requests *)

\* user_reset_config(); sync says whether the hardware is written.
ResetRequest(circuit, calibration, sync, F) ==
  /\ pc = "idle"
  /\ pc' = "answered" /\ task' = "reset"
  /\ IF sync
       THEN WriteAll(Reset(mem, circuit, calibration), F) /\ result' = Status(F)
       ELSE /\ mem' = Reset(mem, circuit, calibration) /\ result' = TRUE
            /\ UNCHANGED <<hw, cluster_failed>>
  /\ UNCHANGED <<localVars, before, compensated>>

\* user_set_extended_config(): reset_before; the status of the write is dropped.
SetConfig(reset_before, F) ==
  /\ pc = "idle"
  /\ pc' = "kludge" /\ task' = "set_config"
  /\ IF reset_before THEN WriteAll(Reset(mem, TRUE, TRUE), F)
                     ELSE UNCHANGED <<mem, hw, cluster_failed>>
  /\ UNCHANGED <<result, localVars, before, compensated>>

\* sh_kludge
TrackKludge(F) ==
  /\ pc = "kludge"
  /\ pc' = "inject" /\ WriteAll([mem EXCEPT !.sh = "TRACK"], F)
  /\ UNCHANGED <<task, result, localVars, before, compensated>>

InjectKludge(F) ==
  /\ pc = "inject"
  /\ pc' = "mul" /\ WriteAll([mem EXCEPT !.sh = "INJECT"], F)
  /\ UNCHANGED <<task, result, localVars, before, compensated>>

SkipKludge ==
  /\ pc = "kludge"
  /\ pc' = "mul"
  /\ UNCHANGED <<mem, hw, task, result, localVars, historyVars>>

\* mul_calib_kludge changes multipliers only; unless it fails the message is applied.
MulKludge(ok) ==
  /\ pc = "mul"
  /\ IF ok THEN pc' = "config" /\ result' = result ELSE pc' = "answered" /\ result' = FALSE
  /\ UNCHANGED <<mem, hw, task, localVars, historyVars>>

\* LUCIDAC::config_self_from_json(): each setting in the message is written at once.
ConfigSetting(cfg, setting) ==
  /\ pc = "config"
  /\ mem' = [mem EXCEPT ![setting] = cfg[setting]] /\ hw' = [hw EXCEPT ![setting] = cfg[setting]]
  /\ UNCHANGED <<pc, task, result, localVars, historyVars>>

\* A setting is refused, or its transfer fails.
ConfigSettingFails(cfg, setting, transferred) ==
  /\ pc = "config"
  /\ mem' = [mem EXCEPT ![setting] = cfg[setting]]
  /\ hw' = IF transferred THEN [hw EXCEPT ![setting] = Unknown] ELSE hw
  /\ pc' = "answered" /\ result' = FALSE
  /\ UNCHANGED <<task, localVars, historyVars>>

ConfigSelfEnd(ok) ==
  /\ pc = "config"
  /\ IF ok THEN pc' = "children" /\ result' = result ELSE pc' = "answered" /\ result' = FALSE
  /\ UNCHANGED <<mem, hw, task, localVars, historyVars>>

\* config_children_from_json(), then the write of user_set_config().
ConfigChildren(cfg, F) ==
  /\ pc = "children"
  /\ WriteAll([mem EXCEPT !.u = cfg.u, !.c.factors = cfg.factors, !.i = cfg.i, !.sh = cfg.sh], F)
  /\ result' = Status(F)
  /\ pc' = IF Status(F) THEN "configured" ELSE "answered"
  /\ UNCHANGED <<task, localVars, before, compensated>>

\* A piece of the message is refused: those before it have been applied.
ConfigFails(cfg, applied) ==
  /\ pc = "children"
  /\ mem' = [mem EXCEPT !.u = IF "u" \in applied THEN cfg.u ELSE @,
                        !.c.factors = IF "c" \in applied THEN cfg.factors ELSE @,
                        !.i = IF "i" \in applied THEN cfg.i ELSE @,
                        !.sh = IF "sh" \in applied THEN cfg.sh ELSE @]
  /\ pc' = "answered" /\ result' = FALSE
  /\ UNCHANGED <<hw, task, localVars, historyVars>>

\* calibrate_offset and calibrate_routes of the message
WithOffset ==
  /\ pc = "configured"
  /\ pc' = "offsets" /\ caller' = "set_config"
  /\ UNCHANGED <<mem, hw, task, result, old, lanes, lane, success, historyVars>>

WithoutOffset ==
  /\ pc = "configured"
  /\ pc' = "offset_done"
  /\ UNCHANGED <<mem, hw, task, result, localVars, historyVars>>

WithRoutes ==
  /\ pc = "offset_done"
  /\ pc' = "routes"
  /\ UNCHANGED <<mem, hw, task, result, localVars, historyVars>>

WithoutRoutes ==
  /\ pc = "offset_done"
  /\ pc' = "answered" /\ result' = TRUE
  /\ UNCHANGED <<mem, hw, task, localVars, historyVars>>

\* run_next() of a run that is to be calibrated
StartRun ==
  /\ pc = "idle"
  /\ pc' = "routes" /\ task' = "run"
  /\ UNCHANGED <<mem, hw, result, localVars, historyVars>>

\* The request is answered, or the run executed: run_next() only logs a failed calibration.
Done ==
  /\ pc \in {"answered", "run"}
  /\ pc' = "idle" /\ task' = "none" /\ result' = TRUE
  /\ old' = NoLocals.old /\ lanes' = {} /\ lane' = -1 /\ success' = TRUE /\ caller' = "none"
  /\ before' = NoLocals.before /\ compensated' = NoLocals.compensated /\ cluster_failed' = FALSE
  /\ UNCHANGED <<mem, hw>>

-----------------------------------------------------------------------------
(* LUCIDAC, Carrier and Cluster::calibrate_routes() *)

\* return false, up to the request
Fail == pc' = "return" /\ result' = FALSE
Continue(label) == pc' = label /\ result' = result

Return ==
  /\ pc = "return"
  /\ pc' = IF task = "run" THEN "run" ELSE "answered"
  /\ UNCHANGED <<mem, hw, task, result, localVars, historyVars>>

\* LUCIDAC::calibrate_routes(): the ACL is set to internal.
RoutesBegin(ok) ==
  /\ pc = "routes"
  /\ before' = mem /\ old' = [old EXCEPT !.acl = mem.acl]
  /\ mem' = [mem EXCEPT !.acl = "INTERNAL"]
  /\ hw' = [hw EXCEPT !.acl = IF ok THEN "INTERNAL" ELSE Unknown]
  /\ IF ok THEN Continue("bus") ELSE Fail
  /\ UNCHANGED <<task, lanes, lane, success, caller, compensated, cluster_failed>>

\* calibrate_routes_in_cluster(): the ADC bus is set to the gain outputs.
SelectGain(ok) ==
  /\ pc = "bus"
  /\ old' = [old EXCEPT !.bus = mem.bus]
  /\ mem' = [mem EXCEPT !.bus = "CL0_GAIN"]
  /\ hw' = [hw EXCEPT !.bus = IF ok THEN "CL0_GAIN" ELSE Unknown]
  /\ IF ok THEN Continue("clear") ELSE Fail
  /\ UNCHANGED <<task, lanes, lane, success, caller, historyVars>>

Zero == [l \in Lanes |-> "zero"]

\* iblock->is_connected() and ublock->is_output_connected()
Routed(m) == {l \in m.u.conn : m.i.out[l] # -1}

\* Cluster::calibrate_routes(): save, zero all factors, no upscaling.
ClearFactors(ok) ==
  /\ pc = "clear"
  /\ old' = [old EXCEPT !.u = mem.u, !.factors = mem.c.factors,
                        !.upscaling = mem.i.upscaling]
  /\ mem' = [mem EXCEPT !.c.factors = Zero, !.i.upscaling = {}]
  /\ hw' = [hw EXCEPT !.c = mem'.c, !.i = IF ok THEN mem'.i ELSE Unknown]
  /\ lanes' = Routed(mem) /\ success' = TRUE
  /\ IF ok THEN Continue("lane") ELSE Fail
  /\ UNCHANGED <<task, lane, caller, historyVars>>

\* The order of the loops: by output, then by input.
First(l) == \A k \in lanes : mem.i.out[l] < mem.i.out[k] \/ (mem.i.out[l] = mem.i.out[k] /\ l <= k)

\* All lanes get the reference, this one the factor one; then its offset is calibrated.
Activated(c, l) == [factors |-> [c.factors EXCEPT ![l] = "one"], gains |-> [c.gains EXCEPT ![l] = "one"]]

LaneBegin(l, ok) ==
  /\ pc = "lane" /\ l \in lanes /\ First(l)
  /\ lane' = l /\ lanes' = lanes \ {l}
  /\ mem' = [mem EXCEPT !.u.modes = All("POS_REF"),
                        !.u.ref = IF l \in mem.i.upscaling THEN "ONE_TENTH" ELSE "ONE",
                        !.c = IF ok THEN Activated(@, l) ELSE @]
  /\ hw' = [hw EXCEPT !.u = IF ok THEN mem'.u ELSE Unknown, !.c = IF ok THEN mem'.c ELSE @]
  /\ caller' = "lane"
  /\ IF ok THEN Continue("offsets") ELSE Fail
  /\ UNCHANGED <<task, old, success, historyVars>>

\* SH-block into gain mode, with the group of the output
GainGroup(output) == IF output < HalfOutputs THEN "GAIN_ZERO_TO_SEVEN" ELSE "GAIN_EIGHT_TO_FIFTEEN"

LaneGain ==
  /\ pc = "gain"
  /\ mem' = [mem EXCEPT !.sh = GainGroup(mem.i.out[lane])]
  /\ hw' = [hw EXCEPT !.sh = mem'.sh]
  /\ pc' = "measure"
  /\ UNCHANGED <<task, result, localVars, historyVars>>

\* The factor of a lane that has been measured
StillActive == "one"
Deactivated == "zero"

\* The measured gain is corrected, or out of range.
LaneMeasured(in_range) ==
  /\ pc = "measure"
  /\ mem' = [mem EXCEPT !.c.gains[lane] = IF in_range THEN "corrected" ELSE "one",
                        !.c.factors[lane] = Deactivated]
  /\ hw' = [hw EXCEPT !.c = mem'.c]
  /\ success' = (success /\ in_range)
  /\ pc' = "lane"
  /\ UNCHANGED <<task, result, old, lanes, lane, caller, historyVars>>

\* Behind the loops: the factors are put back, and the offsets calibrated again.
NoOffsets == "modes"
AfterFactors == "offsets"

RestoreFactors ==
  /\ pc = "lane" /\ lanes = {}
  /\ mem' = [mem EXCEPT !.c.factors = old.factors]
  /\ hw' = [hw EXCEPT !.c = mem'.c]
  /\ pc' = AfterFactors /\ caller' = "end"
  /\ UNCHANGED <<task, result, old, lanes, lane, success, historyVars>>

ModesOnly(u) == [u EXCEPT !.modes = old.u.modes]
Restored(u) == [u EXCEPT !.modes = old.u.modes, !.ref = old.u.ref]

RestoreModes(ok) ==
  /\ pc = "modes"
  /\ mem' = [mem EXCEPT !.u = Restored(@)]
  /\ hw' = [hw EXCEPT !.u = IF ok THEN mem'.u ELSE Unknown]
  /\ IF ok THEN Continue("upscaling") ELSE Fail
  /\ UNCHANGED <<task, localVars, historyVars>>

\* return success of the cluster: the carrier and LUCIDAC return at once if it is false.
RestoreUpscaling(ok) ==
  /\ pc = "upscaling"
  /\ mem' = [mem EXCEPT !.i.upscaling = old.upscaling, !.sh = IF ok THEN "INJECT" ELSE @]
  /\ hw' = [hw EXCEPT !.i = IF ok THEN mem'.i ELSE Unknown, !.sh = IF ok THEN "INJECT" ELSE @]
  /\ IF ok /\ success THEN Continue("restore_bus") ELSE Fail
  /\ UNCHANGED <<task, localVars, historyVars>>

RestoreBus(ok) ==
  /\ pc = "restore_bus"
  /\ mem' = [mem EXCEPT !.bus = old.bus]
  /\ hw' = [hw EXCEPT !.bus = IF ok THEN old.bus ELSE Unknown]
  /\ IF ok THEN Continue("restore_acl") ELSE Fail
  /\ UNCHANGED <<task, localVars, historyVars>>

RestoreACL(ok) ==
  /\ pc = "restore_acl"
  /\ mem' = [mem EXCEPT !.acl = old.acl]
  /\ hw' = [hw EXCEPT !.acl = IF ok THEN old.acl ELSE Unknown]
  /\ pc' = "return" /\ result' = ok
  /\ UNCHANGED <<task, localVars, historyVars>>

-----------------------------------------------------------------------------
(* Cluster::calibrate_offsets() *)

OffsetsBegin(ok) ==
  /\ pc = "offsets"
  /\ old' = [old EXCEPT !.offset_modes = mem.u.modes]
  /\ mem' = [mem EXCEPT !.u.modes = All("GROUND")]
  /\ hw' = [hw EXCEPT !.u = IF ok THEN mem'.u ELSE Unknown]
  /\ IF ok THEN Continue("compensate") ELSE Fail
  /\ UNCHANGED <<task, lanes, lane, success, caller, historyVars>>

\* Where calibrate_offsets() returns to
ReturnTo == [set_config |-> "offset_done", lane |-> "gain", end |-> "modes"]

\* compensate_hardware_offsets(), then the modes are put back.
Compensate(ok) ==
  /\ pc = "compensate"
  /\ compensated' = [c |-> hw.c, i |-> hw.i]
  /\ mem' = [mem EXCEPT !.sh = "INJECT", !.u.modes = old.offset_modes]
  /\ hw' = [hw EXCEPT !.sh = "INJECT", !.u = IF ok THEN mem'.u ELSE Unknown]
  /\ IF ok THEN Continue(ReturnTo[caller]) ELSE Fail
  /\ UNCHANGED <<task, localVars, before, cluster_failed>>

-----------------------------------------------------------------------------
Requests ==
  \/ \E F \in Failures :
       \/ \E circuit, calibration, sync \in BOOLEAN : ResetRequest(circuit, calibration, sync, F)
       \/ \E reset_before \in BOOLEAN : SetConfig(reset_before, F)
       \/ TrackKludge(F) \/ InjectKludge(F)
       \/ \E cfg \in Configs : ConfigChildren(cfg, F)
  \/ \E cfg \in Configs, setting \in {"mux", "acl"} :
       \/ ConfigSetting(cfg, setting)
       \/ \E transferred \in BOOLEAN : ConfigSettingFails(cfg, setting, transferred)
  \/ SkipKludge \/ \E ok \in BOOLEAN : MulKludge(ok) \/ ConfigSelfEnd(ok)
  \/ \E cfg \in Configs, applied \in Applied : ConfigFails(cfg, applied)
  \/ WithOffset \/ WithoutOffset \/ WithRoutes \/ WithoutRoutes
  \/ StartRun \/ Done

Calibration ==
  \/ \E ok \in BOOLEAN :
       \/ RoutesBegin(ok) \/ SelectGain(ok) \/ ClearFactors(ok) \/ RestoreModes(ok)
       \/ RestoreUpscaling(ok) \/ RestoreBus(ok) \/ RestoreACL(ok)
       \/ OffsetsBegin(ok) \/ Compensate(ok) \/ LaneMeasured(ok)
       \/ \E l \in Lanes : LaneBegin(l, ok)
  \/ LaneGain \/ RestoreFactors \/ Return

Next == Requests \/ Calibration

Spec == Init /\ [][Next]_vars

-----------------------------------------------------------------------------
(* Properties *)

HwStates == [u : UStates \cup {Unknown}, c : CStates \cup {Unknown}, i : IStates \cup {Unknown},
             sh : SHStates \cup {Unknown}, bus : {"ADC", "CL0_GAIN", Unknown},
             mux : Channels \cup {Unknown}, acl : ACLs \cup {Unknown}]

\* Type invariant of the configuration, of the hardware and of the calibration.
TypeOK ==
  /\ mem \in Circuit /\ before \in Circuit /\ hw \in HwStates
  /\ pc \in {"idle", "kludge", "inject", "mul", "config", "children", "configured", "offset_done",
            "answered", "run", "routes", "bus", "clear", "lane", "gain", "measure", "modes",
            "upscaling", "restore_bus", "restore_acl", "return", "offsets", "compensate"}
  /\ task \in {"none", "reset", "set_config", "run"} /\ result \in BOOLEAN
  /\ old \in [acl : ACLs, bus : {"ADC", "CL0_GAIN"}, u : UStates, factors : Factors,
              upscaling : SUBSET Lanes, offset_modes : Modes \X Modes]
  /\ lanes \subseteq Lanes /\ lane \in Lanes \cup {-1} /\ success \in BOOLEAN
  /\ caller \in {"none", "set_config", "lane", "end"} /\ cluster_failed \in BOOLEAN

Calibrated == pc = "return" /\ result

\* LUCIDAC::calibrate_routes(): when it succeeds, the configuration is the one before, but
\* for the gains (and SH, which injects), and the hardware has it, whatever it had before.
CalibrationRestores ==
  Calibrated =>
    /\ mem = [before EXCEPT !.c.gains = mem.c.gains, !.sh = "INJECT"]
    /\ hw = [mem EXCEPT !.mux = hw.mux]

\* Cluster::calibrate_routes(): when sample_avg() is called, the hardware lets exactly the
\* lane that is calibrated through, uncorrected, with the full reference at its input
\* and its output on the ADC bus.
LaneIsMeasuredAlone ==
  pc = "measure" =>
    /\ hw.u = [conn |-> before.u.conn, modes |-> All("POS_REF"), ref |-> "ONE"] /\ lane \in hw.u.conn
    /\ hw.c.factors = [l \in Lanes |-> IF l = lane THEN "one" ELSE "zero"] /\ hw.c.gains[lane] = "one"
    /\ hw.i = [out |-> before.i.out, upscaling |-> {}]
    /\ hw.sh = GainGroup(before.i.out[lane])
    /\ hw.bus = "CL0_GAIN" /\ hw.acl = "INTERNAL"

\* cluster.cpp:196: after a calibration the offsets are those of the restored and corrected
\* coefficients, but without the upscaling, which is restored behind calibrate_offsets().
OffsetsFitFactors ==
  Calibrated => compensated = [c |-> hw.c, i |-> [hw.i EXCEPT !.upscaling = {}]]

\* set_config: what the client is told to be successful is in the hardware, unless
\* the failure of a cluster was lost.
SuccessIsWritten ==
  pc = "answered" /\ result /\ task = "set_config" /\ ~cluster_failed => hw = mem

-----------------------------------------------------------------------------
(* What comments and documents say *)

\* entity/base.h:153: write_to_hardware() "returns true in case of success".
SuccessMeansWritten == pc = "answered" /\ result /\ task = "set_config" => hw = mem

\* run_manager.cpp:34: after a failed calibration the "machine will continue with reduced
\* accuracy": if no transfer has failed, it samples what was selected, from the same inputs.
ReducedAccuracyOnly ==
  pc = "run" /\ ~result /\ Unknown \notin {hw.u, hw.i, hw.bus, hw.acl} =>
    hw.bus = before.bus /\ hw.acl = before.acl
=============================================================================
