------------------------------ MODULE MBlocks ------------------------------
(***************************************************************************)
(* The M-blocks of a cluster, integrators in slot M0 and multipliers in    *)
(* slot M1, over the signal path: their configuration, and the calibration *)
(* that Carrier::calibrate_m_blocks() runs on them.  It borrows the signal *)
(* path: it adds references to the lanes of the slot, and is refused where *)
(* a client uses them, then works on a circuit of its own and clears it.   *)
(*                                                                         *)
(* One integrator and one multiplier stand for those of a block.  Offsets  *)
(* are counted in the steps of the search (0.01), initial values in tenths.*)
(***************************************************************************)
EXTENDS SignalPath

CONSTANTS
  IntLanes, MulX, MulY,   \* lanes of the slots in use: M0, and the inputs of the multiplier in M1
  OffsetRange,            \* the offsets the DAC can set: +- OffsetRange (0.1)
  Stored,                 \* bound: what may be stored in the EEPROM or sent as offsets
  Initials, TimeFactors   \* bound: values of "ic" and "k" in a message

ASSUME MBlocksAssumption ==
  /\ IntLanes \cup {MulX, MulY} \subseteq Lanes \cap IOutputs /\ MulX # MulY
  /\ OffsetRange \in Nat \ {0} /\ 0 \in Initials /\ 10000 \in TimeFactors
  /\ Initials \subseteq Int /\ TimeFactors \subseteq Int /\ Stored \subseteq [x : Int, y : Int, z : Int]

VARIABLES
  integrator,   \* MIntBlock: ic and time factor k in memory
  cal,          \* MMulBlock: calibration, the offsets in memory
  dac,          \* the offsets in the hardware
  success,      \* locals of calibrate_mblock() and calibrate()
  all, block    \* locals of calibrate_m_blocks()

mVars == <<integrator, cal, dac, success, all, block>>
allVars == <<cVars, mVars>>

NoOffsets == [x |-> 0, y |-> 0, z |-> 0]
DefaultIntegrator == [ic |-> 0, k |-> 10000]

\* The constructors; the DACs are set by init() of the HAL.
MInit ==
  /\ CInit
  /\ integrator = DefaultIntegrator /\ cal = NoOffsets /\ dac = NoOffsets
  /\ success = TRUE /\ all = TRUE /\ block = "M1"

-----------------------------------------------------------------------------
(* Configuration *)

\* set_ic_value(), then set_time_factor()
SetIntegrator(i, ic, k) ==
  [ic |-> IF ic \in -10..10 THEN ic ELSE i.ic,
   k |-> IF ic \in -10..10 /\ k \in {100, 10000} THEN k ELSE i.k]

ConfigIntegrator(ic, k) ==
  /\ Ready /\ Called
  /\ integrator' = SetIntegrator(integrator, ic, k)
  /\ ok' = (ic \in -10..10 /\ k \in {100, 10000})
  /\ UNCHANGED <<circuit, cal, dac, success, all, block>>

\* write_calibration_input_offsets(), write_calibration_output_offset()
InDacRange(o) == o \in -OffsetRange..OffsetRange

InputsFit(c) == InDacRange(c.x) /\ InDacRange(c.y)

InputsWritten(d, x, y) == [d EXCEPT !.x = x, !.y = y]

\* write_calibration_to_hardware()
WrittenTo(d, c) ==
  [x |-> IF InputsFit(c) THEN c.x ELSE d.x, y |-> IF InputsFit(c) THEN c.y ELSE d.y,
   z |-> IF InputsFit(c) /\ InDacRange(c.z) THEN c.z ELSE d.z]

\* "calibration" of the message, or "read_calibration_from_eeprom", which also
\* fails when the EEPROM cannot be read or the checksum does not match
ConfigOffsets(c) ==
  /\ Ready /\ Called
  /\ cal' = c /\ dac' = WrittenTo(dac, c)
  /\ ok' = (InputsFit(c) /\ InDacRange(c.z))
  /\ UNCHANGED <<circuit, integrator, success, all, block>>

ConfigOffsetsFails ==
  /\ Ready /\ Called /\ ok' = FALSE
  /\ UNCHANGED <<circuit, mVars>>

\* Mutant: the integrators are left alone.
ClearedWithoutM == Cleared /\ UNCHANGED integrator

\* reset(): a circuit reset also clears the integrators, a calibration reset the
\* offsets in memory only.
ClusterCleared == Cleared /\ integrator' = DefaultIntegrator

ResetCircuit ==
  /\ Ready /\ Called /\ ok' = TRUE
  /\ ClusterCleared
  /\ UNCHANGED <<cal, dac, success, all, block>>

ResetCalibration ==
  /\ Ready /\ Called /\ ok' = TRUE
  /\ cal' = NoOffsets
  /\ UNCHANGED <<circuit, integrator, dac, success, all, block>>

-----------------------------------------------------------------------------
(* Carrier::calibrate_m_blocks(), calibrate_mblock() *)

Goto(p, lanes) == stage' = p /\ pending' = lanes /\ UNCHANGED calls
Stay == UNCHANGED <<stage, pending, calls>>
Lowest(lane) == lane \in pending /\ \A l \in pending : lane <= l

Calibrate ==
  /\ Ready
  /\ stage' = "prepare" /\ pending' = IntLanes /\ calls' = calls + 1
  /\ block' = "M0" /\ success' = TRUE /\ all' = TRUE
  /\ UNCHANGED <<circuit, ok, integrator, cal, dac>>

\* The next block, or the end
AfterBlock(result) ==
  /\ all' = (all /\ result) /\ success' = TRUE /\ block' = "M1"
  /\ IF block = "M0" THEN Goto("prepare", {MulX, MulY}) ELSE Goto("idle", {})

\* A calibration signal for the next input: +1 with coefficient 1
Prepare(lane) ==
  /\ stage = "prepare" /\ Lowest(lane)
  /\ AddConstant("POS_REF", lane, 100, lane)
  /\ IF ok' THEN Goto("prepare", pending \ {lane}) /\ UNCHANGED <<all, success, block>>
            ELSE AfterBlock(FALSE)
  /\ UNCHANGED <<integrator, cal, dac>>

\* An ADC channel that is in use, a transfer that fails or a gain out of range
PrepareFails ==
  /\ stage = "prepare" /\ pending = {}
  /\ AfterBlock(FALSE) /\ ok' = FALSE
  /\ UNCHANGED <<circuit, integrator, cal, dac>>

\* A transfer that fails inside calibrate_routes() leaves its signals behind:
\* before the first lane, while a lane is measured, or when all is restored.
RoutesBreak(v, f) ==
  /\ stage = "prepare" /\ pending = {}
  /\ AfterBlock(FALSE) /\ ok' = FALSE
  /\ u' = v /\ factors' = f /\ upscaling' = {}
  /\ UNCHANGED <<out, integrator, cal, dac>>

BothSides(mode, ref) == [u EXCEPT !.a = mode, !.b = mode, !.ref = ref]
Only(lane) == [l \in Lanes |-> IF l = lane THEN 100 ELSE 0]
Routed == {l \in Lanes : u.map[l] # -1 /\ out[l] # -1}

SomeRouteBreaks ==
  \/ RoutesBreak(u, Only(-1))
  \/ \E l \in Routed, m \in {"POS_REF", "GROUND"} : RoutesBreak(BothSides(m, "ONE"), Only(l))
  \/ \E v \in {u, BothSides("GROUND", "ONE")} : RoutesBreak(v, factors)

\* The routes are calibrated; MIntBlock has nothing to calibrate.
Prepared ==
  /\ stage = "prepare" /\ pending = {}
  /\ Goto(IF block = "M0" THEN "cleanup" ELSE "eeprom", {})
  /\ UNCHANGED <<circuit, ok, mVars>>

Cleanup(written) ==
  /\ stage = "cleanup"
  /\ ClusterCleared
  /\ AfterBlock(success /\ written)
  /\ ok' = (all /\ success /\ written)
  /\ UNCHANGED <<cal, dac>>

-----------------------------------------------------------------------------
(* MMulBlock::calibrate() *)

\* The workaround: what is stored is applied, and a failure ends it.
ReadEeprom(c) ==
  /\ stage = "eeprom"
  /\ IF InputsFit(c) /\ InDacRange(c.z)
       THEN Goto("reset", {}) /\ success' = TRUE ELSE Goto("cleanup", {}) /\ success' = FALSE
  /\ cal' = c /\ dac' = WrittenTo(dac, c)
  /\ UNCHANGED <<circuit, ok, integrator, all, block>>

\* The EEPROM, a transfer of the circuit or of its offsets fails.
Fatal ==
  /\ \/ stage \in {"eeprom", "x", "y"}
     \/ stage = "ground" /\ pending = {}
  /\ Goto("cleanup", {}) /\ success' = FALSE
  /\ UNCHANGED <<circuit, ok, integrator, cal, dac, all, block>>

\* Mutant: only the connections of the U-block are reset.
ResetOnlyU ==
  /\ stage = "reset"
  /\ u' = DefaultU /\ Goto("ground", {MulX, MulY}) /\ cal' = NoOffsets
  /\ UNCHANGED <<factors, upscaling, out, ok, integrator, dac, success, all, block>>

ResetForGround ==
  /\ stage = "reset"
  /\ ClusterCleared /\ Goto("ground", {MulX, MulY}) /\ cal' = NoOffsets
  /\ UNCHANGED <<ok, dac, success, all, block>>

\* Zeros on all inputs
Ground(lane) ==
  /\ stage = "ground" /\ Lowest(lane)
  /\ AddConstant("GROUND", lane, 0, lane)
  /\ IF ok' THEN Goto("ground", pending \ {lane}) /\ UNCHANGED success
            ELSE Goto("cleanup", {}) /\ success' = FALSE
  /\ UNCHANGED <<integrator, cal, dac, all, block>>

MeasureZ(z) ==
  /\ stage = "ground" /\ pending = {}
  /\ Goto("x", {}) /\ cal' = [cal EXCEPT !.z = z]
  /\ dac' = IF InDacRange(z) THEN [dac EXCEPT !.z = z] ELSE dac
  /\ success' = (success /\ InDacRange(z))
  /\ UNCHANGED <<circuit, ok, integrator, all, block>>

\* "Set some inputs to one": the coefficients are, the lanes stay on ground.
InputX ==
  /\ stage = "x"
  /\ Goto("search_x", {}) /\ factors' = [factors EXCEPT ![MulX] = 100]
  /\ dac' = InputsWritten(dac, -OffsetRange, 0) /\ cal' = [cal EXCEPT !.x = -OffsetRange]
  /\ UNCHANGED <<u, upscaling, out, ok, integrator, success, all, block>>

InputY ==
  /\ stage = "y"
  /\ Goto("search_y", {}) /\ factors' = [factors EXCEPT ![MulX] = 0, ![MulY] = 100]
  /\ cal' = [cal EXCEPT !.y = -OffsetRange]
  /\ IF InDacRange(cal.x)
       THEN dac' = InputsWritten(dac, cal.x, -OffsetRange) /\ UNCHANGED success
       ELSE success' = FALSE /\ UNCHANGED dac
  /\ UNCHANGED <<u, upscaling, out, ok, integrator, all, block>>

Search == [x |-> "search_x", y |-> "search_y"]
AfterSearch == [x |-> "y", y |-> "cleanup"]
\* The offsets that a step of the search writes
Tried(axis) == IF axis = "x" THEN [x |-> cal.x, y |-> 0] ELSE [x |-> cal.x, y |-> cal.y]

\* Mutant: the offset is not increased.
SearchSameStep(axis) ==
  /\ stage = Search[axis]
  /\ InputsFit(Tried(axis))
  /\ dac' = InputsWritten(dac, Tried(axis).x, Tried(axis).y)
  /\ Stay /\ UNCHANGED <<circuit, ok, integrator, cal, success, all, block>>

\* The sample is negative: write the offset, then increase it.
SearchStep(axis) ==
  /\ stage = Search[axis]
  /\ InputsFit(Tried(axis))
  /\ dac' = InputsWritten(dac, Tried(axis).x, Tried(axis).y)
  /\ cal' = [cal EXCEPT ![axis] = @ + 1]
  /\ Stay /\ UNCHANGED <<circuit, ok, integrator, success, all, block>>

SearchFails(axis) ==
  /\ stage = Search[axis]
  /\ ~InputsFit(Tried(axis))
  /\ Goto(AfterSearch[axis], {}) /\ success' = FALSE
  /\ UNCHANGED <<circuit, ok, integrator, cal, dac, all, block>>

\* The sample is not negative.
SearchEnds(axis) ==
  /\ stage = Search[axis]
  /\ Goto(AfterSearch[axis], {})
  /\ UNCHANGED <<circuit, ok, mVars>>

-----------------------------------------------------------------------------
ProgramStep ==
  \/ \E l \in Lanes : Prepare(l) \/ Ground(l)
  \/ PrepareFails \/ Prepared \/ ResetForGround \/ Fatal
  \/ SomeRouteBreaks
  \/ \E c \in Stored : ReadEeprom(c)
  \/ \E z \in -OffsetRange-1 .. OffsetRange+1 : MeasureZ(z)
  \/ InputX \/ InputY
  \/ \E axis \in {"x", "y"} : SearchStep(axis) \/ SearchFails(axis)
  \/ \E w \in BOOLEAN : Cleanup(w)

\* The analog computer answers: the crossing is there.
Crossing == \E axis \in {"x", "y"} : SearchEnds(axis)

Requests ==
  \/ Client /\ UNCHANGED mVars
  \/ \E ic \in Initials, k \in TimeFactors : ConfigIntegrator(ic, k)
  \/ \E c \in Stored : ConfigOffsets(c)
  \/ ConfigOffsetsFails \/ ResetCircuit \/ ResetCalibration
  \/ Calibrate

Done == stage = "idle" /\ calls = MaxCalls /\ UNCHANGED allVars

CNext == Requests \/ ProgramStep \/ Crossing \/ Done

\* The calibration is one call and goes on by itself; that a zero crossing is
\* ever found is not assumed.
CSpec == MInit /\ [][CNext]_allVars /\ WF_allVars(ProgramStep)

-----------------------------------------------------------------------------
Calibrating == stage \notin {"idle", "list", "object"}

\* Types; the offsets in the hardware are those that the DAC can set, whatever is
\* sent, stored or searched for.
MTypeOK ==
  /\ PathTypeOK
  /\ stage \in {"idle", "list", "object", "prepare", "eeprom", "reset", "ground", "x", "search_x", "y", "search_y", "cleanup"}
  /\ integrator \in [ic : -10..10, k : {100, 10000}]
  /\ cal \in [x : Int, y : Int, z : Int]
  /\ dac \in [x : -OffsetRange..OffsetRange, y : -OffsetRange..OffsetRange, z : -OffsetRange..OffsetRange]
  /\ success \in BOOLEAN /\ all \in BOOLEAN /\ block \in {"M0", "M1"}

\* The circuit that the calibration sets up for itself is complete: whatever a
\* client has configured, and however the calibration of the block before it
\* has ended, no zero is refused, and zero and nothing else is on the inputs of
\* the multiplier when its output is measured.
InputsAreZero ==
  stage = "ground" =>
    \A l \in Lanes :
      IF l \in {MulX, MulY}
        THEN IF l \in pending THEN CanConnectAlternative(u, "GROUND", l) /\ out[l] \in {-1, l}
                              ELSE Term(l) = <<<<"GROUND", 0>>, 0, l>>
        ELSE out[l] = -1

\* A calibration that reports success has its offsets in the hardware, up to the
\* step of y that the search has already added in memory.
CalibrationIsApplied ==
  [][stage = "cleanup" /\ block = "M1" /\ stage' = "idle" /\ ok' =>
       dac.x = cal.x /\ dac.z = cal.z /\ cal.y - dac.y \in {0, 1}]_allVars

\* It leaves no connection behind, whichever step failed, once it has got as far
\* as the M-block ("CARE: This function does not preserve the currently
\* configured routes").
CalibrationCleansUp ==
  [][stage = "cleanup" /\ stage' # "cleanup" =>
       u' = DefaultU /\ out' = NoConnections /\ integrator' = DefaultIntegrator]_allVars

\* Whatever a calibration of multipliers meets, the offsets in the hardware are in the range
\* of the DAC, success means that they are those found, and the circuit is cleared.
CalibrationIsClean == []MTypeOK /\ CalibrationIsApplied /\ CalibrationCleansUp

\* It ends: the search for a zero crossing that never comes stops at the end of
\* the DAC's range.
CalibrationEnds == Calibrating ~> ~Calibrating
=============================================================================
