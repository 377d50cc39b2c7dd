--------------------------- MODULE Circuit_proofs ---------------------------
(***************************************************************************)
(* Proofs about the blocks of a cluster.  The signal path and the M-blocks: *)
(* what clients configure is delivered and kept, and the calibration of    *)
(* multipliers, whichever of its steps fails.  The I-block: types, no split *)
(* input, and that write_outputs closes the configured crosspoints and no  *)
(* others.  For any number of lanes, any matrix size and any offsets.      *)
(***************************************************************************)
EXTENDS IBlock, MBlocks, TLAPS

-----------------------------------------------------------------------------
(* Signal path and M-blocks: types *)

\* The states of a U-block
UType == [map : [Lanes -> UInputs \cup {-1}], a : Modes, b : Modes, ref : {"ONE", "ONE_TENTH"}]

\* What connect(), connect_alternative() and the messages make of a U-block is one again.
LEMMA UTypes ==
  ASSUME NEW v \in UType, NEW lane \in Lanes
  PROVE  /\ \A input \in UInputs : UConnected(v, input, lane) \in UType
         /\ \A mode \in Modes : Alternative(v, mode, lane) \in UType
         /\ \A constant \in Int : WithConstant(v, constant) \in UType
         /\ DefaultU \in UType
  <1> USE SignalPathAssumption
  <1>1. ASSUME NEW input \in UInputs PROVE UConnected(v, input, lane) \in UType
    BY DEF UConnected, UType, Modes
  <1>2. ASSUME NEW mode \in Modes PROVE Alternative(v, mode, lane) \in UType
    BY DEF Alternative, UType
  <1>3. ASSUME NEW constant \in Int PROVE WithConstant(v, constant) \in UType
    BY DEF WithConstant, UType, Modes
  <1>4. DefaultU \in UType
    BY DEF DefaultU, NoConnections, UType, Modes
  <1> QED
    BY <1>1, <1>2, <1>3, <1>4

\* The types of the circuit
CircuitOK ==
  /\ u \in UType /\ factors \in [Lanes -> -101..101]
  /\ upscaling \subseteq Lanes /\ out \in [Lanes -> IOutputs \cup {-1}]

\* route() and add_constant() keep the types, whichever of their steps is refused.
LEMMA RouteTypes ==
  ASSUME CircuitOK, NEW connects \in BOOLEAN, NEW v \in UType, NEW lane \in Lanes,
         NEW coefficient \in Int, NEW output \in IOutputs, Route(connects, v, lane, coefficient, output)
  PROVE  CircuitOK' /\ ok' \in BOOLEAN
  BY DEF CircuitOK, Route, InRange

\* connect() and connect_alternative() return true or false.
LEMMA CanConnectBoolean ==
  ASSUME NEW input, NEW lane
  PROVE  /\ CanConnect(u, input, lane) \in BOOLEAN
         /\ \A mode : CanConnectAlternative(u, mode, lane) \in BOOLEAN
  BY DEF CanConnect, CanConnectAlternative

\* Connecting a reference or ground keeps the types.
LEMMA AddConstantTypes ==
  ASSUME CircuitOK, NEW mode \in Modes, NEW lane \in Lanes, NEW coefficient \in Int, NEW output \in IOutputs,
         AddConstant(mode, lane, coefficient, output)
  PROVE  CircuitOK' /\ ok' \in BOOLEAN
  <1>1. Alternative(u, mode, lane) \in UType
    BY UTypes DEF CircuitOK
  <1>2. CanConnectAlternative(u, mode, lane) \in BOOLEAN
    BY CanConnectBoolean
  <1> QED
    BY <1>1, <1>2, RouteTypes DEF AddConstant

\* A circuit reset is of the right types.
LEMMA ClearedTypes ==
  ASSUME Cleared
  PROVE  CircuitOK'
  <1>1. DefaultU \in UType
    BY DEF DefaultU, NoConnections, UType, Modes
  <1> QED
    BY <1>1 DEF Cleared, CircuitOK, NoConnections

\* The types of the signal path by the parts of a step.
LEMMA PathTypes ==
  PathTypeOK <=> CircuitOK /\ pending \subseteq Lanes /\ ok \in BOOLEAN /\ calls \in 0..MaxCalls
  BY DEF PathTypeOK, CircuitOK, UType

\* Calls and messages of the client keep the types of the signal path.
LEMMA ClientTypes ==
  ASSUME PathTypeOK, Client
  PROVE  PathTypeOK' /\ stage' \in {"idle", "list", "object", stage}
  <1> USE SignalPathAssumption
  <1>0. CircuitOK /\ pending \subseteq Lanes /\ ok \in BOOLEAN /\ calls \in 0..MaxCalls
    BY PathTypes
  <1>1. ASSUME NEW l \in Lanes, NEW f \in Coefficients, NEW i \in UInputs, NEW o \in IOutputs, route(i, l, f, o)
        PROVE  PathTypeOK' /\ stage' = stage
    <2>1. UConnected(u, i, l) \in UType
      BY <1>0, UTypes DEF CircuitOK
    <2>2. CircuitOK' /\ ok' \in BOOLEAN
      BY <1>0, <1>1, <2>1, RouteTypes, CanConnectBoolean DEF route
    <2> QED
      BY <1>0, <1>1, <2>2, PathTypes DEF route, Called, Ready, PathTypeOK, CircuitOK, UType
  <1>2. ASSUME NEW l \in Lanes, NEW f \in Coefficients, NEW m \in {"POS_REF", "NEG_REF"}, NEW o \in IOutputs,
               add_constant(m, l, f, o)
        PROVE  PathTypeOK' /\ stage' = stage
    <2>1. CircuitOK' /\ ok' \in BOOLEAN
      BY <1>0, <1>2, AddConstantTypes DEF add_constant, Modes
    <2> QED
      BY <1>0, <1>2, <2>1 DEF add_constant, Called, Ready, PathTypeOK, CircuitOK, UType
  <1>3. ASSUME NEW l \in Lanes, NEW f \in Coefficients, NEW i \in UInputs, route_out_external(i, l, f)
        PROVE  PathTypeOK' /\ stage' = stage
    <2>1. UConnected(u, i, l) \in UType
      BY <1>0, UTypes DEF CircuitOK
    <2>2. CircuitOK' /\ ok' \in BOOLEAN
      BY <1>0, <1>3, <2>1 DEF route_out_external, CircuitOK, InRange, CanConnect
    <2> QED
      BY <1>0, <1>3, <2>2 DEF route_out_external, Called, Ready, PathTypeOK, CircuitOK, UType
  <1>4. ASSUME NEW l \in Lanes, NEW f \in Coefficients, ConfigElement(l, f)
        PROVE  PathTypeOK' /\ stage' = stage
    BY <1>0, <1>4 DEF ConfigElement, Called, Ready, PathTypeOK, InRange
  <1>5. ASSUME NEW l \in Lanes, NEW o \in IOutputs, route_in_external(l, o)
        PROVE  PathTypeOK' /\ stage' = stage
    BY <1>0, <1>5 DEF route_in_external, Called, Ready, PathTypeOK
  <1>6. ASSUME NEW kind \in {"list", "object"}, NEW lanes \in SUBSET Lanes, ConfigOutputs(kind, lanes)
        PROVE  PathTypeOK' /\ stage' \in {"list", "object"}
    <2>1. u' \in UType
      BY <1>0, <1>6 DEF ConfigOutputs, CircuitOK, UType
    <2> QED
      BY <1>0, <1>6, <2>1 DEF ConfigOutputs, Ready, PathTypeOK, UType
  <1>7. ASSUME NEW l \in Lanes, ConfigNull(l)
        PROVE  PathTypeOK' /\ stage' = stage
    BY <1>0, <1>7 DEF ConfigNull, PathTypeOK, circuit
  <1>8. ASSUME NEW l \in Lanes, NEW i \in UInputs, ConfigLane(i, l)
        PROVE  PathTypeOK' /\ stage' \in {"idle", stage}
    <2>1. UConnected(u, i, l) \in UType
      BY <1>0, UTypes DEF CircuitOK
    <2> QED
      BY <1>0, <1>8, <2>1 DEF ConfigLane, PathTypeOK, UType
  <1>9. ASSUME ConfigDone
        PROVE  PathTypeOK' /\ stage' = "idle"
    BY <1>0, <1>9 DEF ConfigDone, PathTypeOK, circuit
  <1>10. ASSUME NEW v \in Constants, ConfigConstant(v)
         PROVE  PathTypeOK' /\ stage' = stage
    <2>2. WithConstant(u, v) \in UType
      BY <1>0 DEF CircuitOK, WithConstant, UType, Modes
    <2>3. ok' \in BOOLEAN
      BY <1>10 DEF ConfigConstant
    <2> QED
      BY <1>0, <1>10, <2>2, <2>3 DEF ConfigConstant, Called, Ready, PathTypeOK, UType
  <1> QED
    BY <1>1, <1>2, <1>3, <1>4, <1>5, <1>6, <1>7, <1>8, <1>9, <1>10 DEF Client

Offsets == [x : Int, y : Int, z : Int]
DacRange == -OffsetRange..OffsetRange
DacOffsets == [x : DacRange, y : DacRange, z : DacRange]

\* The part of the types that belongs to the M-blocks, but for the stage
BlocksOK ==
  /\ integrator \in [ic : -10..10, k : {100, 10000}]
  /\ cal \in Offsets /\ dac \in DacOffsets
  /\ success \in BOOLEAN /\ all \in BOOLEAN /\ block \in {"M0", "M1"}

Stages == {"idle", "list", "object", "prepare", "eeprom", "reset", "ground", "x", "search_x", "y", "search_y", "cleanup"}

\* The types in three parts
LEMMA MTypes == MTypeOK <=> PathTypeOK /\ BlocksOK /\ stage \in Stages
  BY DEF MTypeOK, BlocksOK, Stages, Offsets, DacOffsets, DacRange

\* The same of the next state
LEMMA MTypesNext == MTypeOK' <=> PathTypeOK' /\ BlocksOK' /\ stage' \in Stages
  BY DEF MTypeOK, BlocksOK, Stages, Offsets, DacOffsets, DacRange

\* What is written to the DAC is in its range, whatever is in memory.
LEMMA WrittenInRange ==
  ASSUME NEW c \in Offsets, BlocksOK
  PROVE  WrittenTo(dac, c) \in DacOffsets
  BY MBlocksAssumption DEF WrittenTo, Offsets, BlocksOK, InputsFit, InDacRange, DacOffsets, DacRange

\* The end of the calibration of a block
LEMMA AfterBlockTypes ==
  ASSUME MTypeOK, NEW result \in BOOLEAN, AfterBlock(result)
  PROVE  /\ stage' \in {"prepare", "idle"} /\ pending' \subseteq Lanes /\ calls' = calls
         /\ all' \in BOOLEAN /\ success' \in BOOLEAN /\ block' \in {"M0", "M1"}
  BY MBlocksAssumption DEF AfterBlock, Goto, MTypeOK

\* Requests of clients keep the types.
LEMMA RequestTypes ==
  ASSUME MTypeOK, Requests
  PROVE  MTypeOK'
  <1>0. PathTypeOK /\ BlocksOK /\ stage \in Stages /\ CircuitOK
    BY MTypes, PathTypes
  <1>1. CASE Client /\ UNCHANGED mVars
    <2>1. BlocksOK'
      BY <1>0, <1>1 DEF BlocksOK, mVars
    <2> QED
      BY <1>0, <1>1, <2>1, ClientTypes, MTypesNext DEF Stages
  <1>2. ASSUME NEW ic \in Initials, NEW k \in TimeFactors, ConfigIntegrator(ic, k)
        PROVE  MTypeOK'
    <2>1. integrator' \in [ic : -10..10, k : {100, 10000}]
      BY <1>0, <1>2, MBlocksAssumption DEF ConfigIntegrator, SetIntegrator, BlocksOK
    <2> QED
      BY <1>0, <1>2, <2>1, MTypesNext, SignalPathAssumption DEF ConfigIntegrator, BlocksOK, PathTypeOK, Called, Ready, circuit
  <1>3. ASSUME NEW c \in Stored, ConfigOffsets(c)
        PROVE  MTypeOK'
    <2>1. c \in Offsets
      BY MBlocksAssumption DEF Offsets
    <2>2. dac' \in DacOffsets
      BY <1>0, <1>3, <2>1, WrittenInRange DEF ConfigOffsets
    <2>3. BlocksOK'
      BY <1>0, <1>3, <2>1, <2>2 DEF ConfigOffsets, BlocksOK
    <2>4. PathTypeOK' /\ stage' = stage
      BY <1>0, <1>3, SignalPathAssumption DEF ConfigOffsets, PathTypeOK, Called, Ready, circuit
    <2> QED
      BY <1>0, <2>3, <2>4, MTypesNext
  <1>4. CASE ConfigOffsetsFails
    <2>1. BlocksOK'
      BY <1>0, <1>4 DEF ConfigOffsetsFails, BlocksOK, mVars
    <2>4. ok' = FALSE
      BY <1>4, Zenon DEF ConfigOffsetsFails
    <2>5. ok' \in BOOLEAN
      BY <2>4, Zenon
    <2>2. UNCHANGED circuit /\ Ready /\ Called /\ ok' \in BOOLEAN
      BY <1>4, <2>5 DEF ConfigOffsetsFails
    <2>3. PathTypeOK' /\ stage' = stage
      BY <1>0, <2>2, SignalPathAssumption DEF PathTypeOK, Called, Ready, circuit
    <2> QED
      BY <1>0, <2>1, <2>3, MTypesNext
  <1>5. CASE ResetCircuit
    <2>1. CircuitOK'
      BY <1>5, ClearedTypes DEF ResetCircuit, ClusterCleared
    <2>2. BlocksOK'
      BY <1>0, <1>5 DEF ResetCircuit, ClusterCleared, BlocksOK, DefaultIntegrator
    <2>3. PathTypeOK'
      BY <1>0, <1>5, <2>1, SignalPathAssumption DEF ResetCircuit, PathTypeOK, CircuitOK, UType, Called, Ready
    <2> QED
      BY <1>0, <1>5, <2>2, <2>3, MTypesNext DEF ResetCircuit, Called
  <1>6. CASE ResetCalibration
    BY <1>0, <1>6, MTypesNext, SignalPathAssumption DEF ResetCalibration, BlocksOK, PathTypeOK, Called, Ready, circuit, NoOffsets, Offsets
  <1>7. CASE Calibrate
    BY <1>0, <1>7, MTypesNext, SignalPathAssumption, MBlocksAssumption DEF Calibrate, BlocksOK, PathTypeOK, Ready, circuit, Stages
  <1> QED
    BY <1>1, <1>2, <1>3, <1>4, <1>5, <1>6, <1>7 DEF Requests

\* One offset of three is changed, in memory
LEMMA OffsetEdits ==
  ASSUME NEW c \in Offsets, NEW o \in Int
  PROVE  /\ [c EXCEPT !.x = o] \in Offsets /\ [c EXCEPT !.x = o].x = o
         /\ [c EXCEPT !.x = o].y = c.y /\ [c EXCEPT !.x = o].z = c.z
         /\ [c EXCEPT !.y = o] \in Offsets /\ [c EXCEPT !.y = o].y = o
         /\ [c EXCEPT !.y = o].x = c.x /\ [c EXCEPT !.y = o].z = c.z
         /\ [c EXCEPT !.z = o] \in Offsets /\ [c EXCEPT !.z = o].z = o
         /\ [c EXCEPT !.z = o].x = c.x /\ [c EXCEPT !.z = o].y = c.y
  BY DEF Offsets

\* The same of coefficients
LEMMA FactorEdits ==
  ASSUME NEW f \in [Lanes -> -101..101]
  PROVE  /\ [f EXCEPT ![MulX] = 100] \in [Lanes -> -101..101]
         /\ [f EXCEPT ![MulX] = 0, ![MulY] = 100] \in [Lanes -> -101..101]
  <1>1. \A g \in [Lanes -> -101..101], l \in Lanes, c \in {0, 100} : [g EXCEPT ![l] = c] \in [Lanes -> -101..101]
    OBVIOUS
  <1>3. MulX \in Lanes /\ MulY \in Lanes
    BY MBlocksAssumption
  <1>4. [f EXCEPT ![MulX] = 0, ![MulY] = 100] \in [Lanes -> -101..101]
    BY <1>3
  <1> QED
    BY <1>1, <1>3, <1>4

\* The same in the hardware
LEMMA DacEdits ==
  ASSUME NEW c \in DacOffsets, NEW o \in DacRange
  PROVE  /\ [c EXCEPT !.z = o] \in DacOffsets /\ [c EXCEPT !.z = o].z = o
         /\ [c EXCEPT !.z = o].x = c.x /\ [c EXCEPT !.z = o].y = c.y
  BY DEF DacOffsets

\* The offsets of both inputs
LEMMA DacInputs ==
  ASSUME NEW c \in DacOffsets, NEW o \in DacRange, NEW p \in DacRange
  PROVE  /\ InputsWritten(c, o, p) \in DacOffsets
         /\ InputsWritten(c, o, p).x = o /\ InputsWritten(c, o, p).y = p /\ InputsWritten(c, o, p).z = c.z
  BY DEF DacOffsets, InputsWritten

\* The lanes that a calibration has still to connect are those of the M-blocks.
PendingInv ==
  /\ stage = "prepare" => pending \subseteq IntLanes \cup {MulX, MulY}
  /\ stage = "ground" => pending \subseteq {MulX, MulY}

\* The steps of a calibration keep the types: every early return too.
LEMMA ProgramTypes ==
  ASSUME MTypeOK, PendingInv, ProgramStep
  PROVE  MTypeOK'
  <1>0. /\ PathTypeOK /\ BlocksOK /\ stage \in Stages /\ CircuitOK
        /\ pending \subseteq Lanes /\ ok \in BOOLEAN /\ calls \in 0..MaxCalls
    BY MTypes, PathTypes
  <1>a. ASSUME CircuitOK', ok' \in BOOLEAN, pending' \subseteq Lanes, calls' = calls, BlocksOK', stage' \in Stages
        PROVE  MTypeOK'
    <2>1. PathTypeOK'
      BY <1>0, <1>a DEF PathTypeOK, CircuitOK, UType
    <2> QED
      BY <1>a, <2>1, MTypesNext
  <1>b. ASSUME UNCHANGED circuit
        PROVE  CircuitOK'
    BY <1>0, <1>b DEF CircuitOK, circuit
  <1>1. ASSUME NEW l \in Lanes, Prepare(l)
        PROVE  MTypeOK'
    <2>0. l \in IOutputs
      BY <1>1, MBlocksAssumption DEF Prepare, PendingInv, Lowest
    <2>1. CircuitOK' /\ ok' \in BOOLEAN
      BY <1>0, <1>1, <2>0, AddConstantTypes DEF Prepare, Modes
    <2>2. CASE ok'
      <3>0. Goto("prepare", pending \ {l}) /\ UNCHANGED <<all, success, block, integrator, cal, dac>>
        BY <1>1, <2>2, Zenon DEF Prepare
      <3>1. BlocksOK'
        BY <1>0, <3>0 DEF BlocksOK
      <3>2. pending' \subseteq Lanes /\ calls' = calls /\ stage' \in Stages
        BY <1>0, <3>0 DEF Goto, Stages
      <3> QED
        BY <2>1, <3>1, <3>2, <1>a
    <2>3. CASE ~ok'
      <3>1. AfterBlock(FALSE)
        BY <1>1, <2>3, Zenon DEF Prepare
      <3>2. /\ stage' \in {"prepare", "idle"} /\ pending' \subseteq Lanes /\ calls' = calls
            /\ all' \in BOOLEAN /\ success' \in BOOLEAN /\ block' \in {"M0", "M1"}
        BY <3>1, AfterBlockTypes, Zenon
      <3>3. BlocksOK'
        BY <1>0, <1>1, <3>2 DEF Prepare, BlocksOK
      <3> QED
        BY <2>1, <3>2, <3>3, <1>a DEF Stages
    <2> QED
      BY <2>2, <2>3
  <1>2. ASSUME NEW l \in Lanes, Ground(l)
        PROVE  MTypeOK'
    <2>0. l \in IOutputs
      BY <1>2, MBlocksAssumption DEF Ground, PendingInv, Lowest
    <2>1. CircuitOK' /\ ok' \in BOOLEAN
      <3>1. AddConstant("GROUND", l, 0, l)
        BY <1>2, Zenon DEF Ground
      <3> QED
        BY <1>0, <2>0, <3>1, AddConstantTypes DEF Modes
    <2>4. /\ UNCHANGED <<integrator, cal, dac, all, block>>
          /\ \/ Goto("ground", pending \ {l}) /\ UNCHANGED success
             \/ Goto("cleanup", {}) /\ success' = FALSE
      BY <1>2, Zenon DEF Ground
    <2>6. success \in BOOLEAN
      BY <1>0 DEF BlocksOK
    <2>7. success' = success \/ success' = FALSE
      BY <2>4, Zenon
    <2>5. success' \in BOOLEAN
      BY <2>6, <2>7, Zenon
    <2>2. BlocksOK'
      BY <1>0, <2>4, <2>5 DEF BlocksOK
    <2>3. pending' \subseteq Lanes /\ calls' = calls /\ stage' \in Stages
      BY <1>0, <2>4 DEF Goto, Stages
    <2> QED
      BY <2>1, <2>2, <2>3, <1>a
  <1>c. ASSUME AfterBlock(FALSE), UNCHANGED <<integrator, cal, dac>>
        PROVE  BlocksOK' /\ stage' \in Stages /\ pending' \subseteq Lanes /\ calls' = calls
    <2>1. /\ stage' \in {"prepare", "idle"} /\ pending' \subseteq Lanes /\ calls' = calls
          /\ all' \in BOOLEAN /\ success' \in BOOLEAN /\ block' \in {"M0", "M1"}
      BY <1>c, AfterBlockTypes, Zenon
    <2> QED
      BY <1>0, <1>c, <2>1 DEF BlocksOK, Stages
  <1>3. CASE PrepareFails
    <2>1. AfterBlock(FALSE) /\ ok' \in BOOLEAN /\ UNCHANGED <<circuit, integrator, cal, dac>>
      BY <1>3, Zenon DEF PrepareFails
    <2> QED
      BY <2>1, <1>a, <1>b, <1>c
  <1>4. CASE Prepared
    <2>1. BlocksOK'
      BY <1>0, <1>4 DEF Prepared, BlocksOK, mVars
    <2> QED
      BY <1>0, <1>4, <2>1, <1>a, <1>b DEF Prepared, Goto, Stages
  <1>5. CASE ResetForGround
    <2>1. CircuitOK'
      BY <1>5, ClearedTypes DEF ResetForGround, ClusterCleared
    <2>2. BlocksOK'
      BY <1>0, <1>5 DEF ResetForGround, ClusterCleared, BlocksOK, DefaultIntegrator, NoOffsets, Offsets
    <2> QED
      BY <1>0, <1>5, <2>1, <2>2, <1>a, MBlocksAssumption DEF ResetForGround, Goto, Stages
  <1>6. CASE Fatal
    <2>2. success' \in BOOLEAN
      BY <1>6, Zenon DEF Fatal
    <2>1. BlocksOK'
      BY <1>0, <1>6, <2>2 DEF Fatal, BlocksOK
    <2> QED
      BY <1>0, <1>6, <2>1, <1>a, <1>b DEF Fatal, Goto, Stages
  <1>7. CASE SomeRouteBreaks
    <2>1. ASSUME NEW v \in UType, NEW f \in [Lanes -> -101..101], RoutesBreak(v, f)
          PROVE  MTypeOK'
      <3>1. CircuitOK'
        BY <1>0, <2>1 DEF RoutesBreak, CircuitOK
      <3> QED
        BY <2>1, <3>1, <1>a, <1>c DEF RoutesBreak
    <2>2. \A l : Only(l) \in [Lanes -> -101..101]
      BY DEF Only
    <2>3. \A m \in Modes : BothSides(m, "ONE") \in UType
      BY <1>0 DEF BothSides, UType, CircuitOK
    <2> QED
      BY <1>0, <1>7, <2>1, <2>2, <2>3 DEF SomeRouteBreaks, CircuitOK, Modes
  <1>8. ASSUME NEW c \in Stored, ReadEeprom(c)
        PROVE  MTypeOK'
    <2>1. c \in Offsets
      BY MBlocksAssumption DEF Offsets
    <2>2. dac' \in DacOffsets
      BY <1>0, <1>8, <2>1, WrittenInRange DEF ReadEeprom
    <2>4. success' \in BOOLEAN
      BY <1>8, Zenon DEF ReadEeprom
    <2>3. BlocksOK'
      BY <1>0, <1>8, <2>1, <2>2, <2>4 DEF ReadEeprom, BlocksOK
    <2> QED
      BY <1>0, <1>8, <2>3, <1>a, <1>b DEF ReadEeprom, Goto, Stages
  <1>e. cal \in Offsets /\ dac \in DacOffsets /\ success \in BOOLEAN
    BY <1>0 DEF BlocksOK
  <1>9. ASSUME NEW z \in -OffsetRange-1 .. OffsetRange+1, MeasureZ(z)
        PROVE  MTypeOK'
    <2>1. cal' \in Offsets
      <3>1. cal' = [cal EXCEPT !.z = z]
        BY <1>9, Zenon DEF MeasureZ
      <3>2. z \in Int
        BY MBlocksAssumption
      <3> QED
        BY <1>e, <3>1, <3>2, OffsetEdits, Zenon
    <2>2. dac' \in DacOffsets
      <3>1. dac' = IF z \in DacRange THEN [dac EXCEPT !.z = z] ELSE dac
        BY <1>9, Zenon DEF MeasureZ, InDacRange, DacRange
      <3>2. z \in DacRange => [dac EXCEPT !.z = z] \in DacOffsets
        BY <1>e, DacEdits, Zenon
      <3> QED
        BY <1>e, <3>1, <3>2, Zenon
    <2>3. success' \in BOOLEAN
      BY <1>9, Zenon DEF MeasureZ
    <2>4. BlocksOK'
      BY <1>0, <1>9, <2>1, <2>2, <2>3 DEF MeasureZ, BlocksOK
    <2> QED
      BY <1>0, <1>9, <2>4, <1>a, <1>b DEF MeasureZ, Goto, Stages
  <1>d. -OffsetRange \in DacRange /\ 0 \in DacRange /\ -OffsetRange \in Int
    BY MBlocksAssumption DEF DacRange
  <1>10. CASE InputX
    <2>1. cal' \in Offsets
      <3>1. cal' = [cal EXCEPT !.x = -OffsetRange]
        BY <1>10, Zenon DEF InputX
      <3> QED
        BY <1>d, <1>e, <3>1, OffsetEdits, Zenon
    <2>2. dac' \in DacOffsets
      <3>1. dac' = InputsWritten(dac, -OffsetRange, 0)
        BY <1>10, Zenon DEF InputX
      <3> QED
        BY <1>d, <1>e, <3>1, DacInputs, Zenon
    <2>3. BlocksOK'
      BY <1>0, <1>10, <2>1, <2>2 DEF InputX, BlocksOK
    <2>4. factors' \in [Lanes -> -101..101]
      <3>1. factors' = [factors EXCEPT ![MulX] = 100]
        BY <1>10, Zenon DEF InputX
      <3> QED
        BY <1>0, <3>1, FactorEdits, Zenon DEF CircuitOK
    <2>5. CircuitOK'
      BY <1>0, <1>10, <2>4 DEF InputX, CircuitOK
    <2> QED
      BY <1>0, <1>10, <2>3, <2>5, <1>a DEF InputX, Goto, Stages
  <1>11. CASE InputY
    <2>1. cal' \in Offsets
      <3>1. cal' = [cal EXCEPT !.y = -OffsetRange]
        BY <1>11, Zenon DEF InputY
      <3> QED
        BY <1>d, <1>e, <3>1, OffsetEdits, Zenon
    <2>2. dac' \in DacOffsets /\ success' \in BOOLEAN
      <3>1. CASE InDacRange(cal.x)
        <4>1. dac' = InputsWritten(dac, cal.x, -OffsetRange) /\ success' = success
          BY <1>11, <3>1, Zenon DEF InputY
        <4>2. cal.x \in DacRange
          BY <3>1, Zenon DEF InDacRange, DacRange
        <4> QED
          BY <1>d, <1>e, <4>1, <4>2, DacInputs, Zenon
      <3>2. CASE ~InDacRange(cal.x)
        <4>1. dac' = dac /\ success' = FALSE
          BY <1>11, <3>2, Zenon DEF InputY
        <4> QED
          BY <1>e, <4>1, Zenon
      <3> QED
        BY <3>1, <3>2
    <2>3. BlocksOK'
      BY <1>0, <1>11, <2>1, <2>2 DEF InputY, BlocksOK
    <2>4. factors' \in [Lanes -> -101..101]
      <3>1. factors' = [factors EXCEPT ![MulX] = 0, ![MulY] = 100]
        BY <1>11, Zenon DEF InputY
      <3> QED
        BY <1>0, <3>1, FactorEdits, Zenon DEF CircuitOK
    <2>5. CircuitOK'
      BY <1>0, <1>11, <2>4 DEF InputY, CircuitOK
    <2> QED
      BY <1>0, <1>11, <2>3, <2>5, <1>a DEF InputY, Goto, Stages
  <1>12. ASSUME NEW axis \in {"x", "y"}, SearchStep(axis)
         PROVE  MTypeOK'
    <2>1. cal' \in Offsets
      <3>1. CASE axis = "x"
        BY <1>0, <1>12, <3>1, OffsetEdits DEF SearchStep, BlocksOK, Offsets
      <3>2. CASE axis = "y"
        BY <1>0, <1>12, <3>2, OffsetEdits DEF SearchStep, BlocksOK, Offsets
      <3> QED
        BY <3>1, <3>2
    <2>2. dac' \in DacOffsets
      <3>1. Tried(axis).x \in DacRange /\ Tried(axis).y \in DacRange
        BY <1>12 DEF SearchStep, InputsFit, InDacRange, DacRange
      <3> QED
        <4>1. dac' = InputsWritten(dac, Tried(axis).x, Tried(axis).y)
          BY <1>12, Zenon DEF SearchStep
        <4> QED
          BY <1>e, <3>1, <4>1, DacInputs, Zenon
    <2>3. BlocksOK'
      BY <1>0, <1>12, <2>1, <2>2 DEF SearchStep, BlocksOK
    <2> QED
      BY <1>0, <1>12, <2>3, <1>a, <1>b DEF SearchStep, Stay
  <1>14. ASSUME NEW axis \in {"x", "y"}, SearchFails(axis)
         PROVE  MTypeOK'
    <2>1. success' \in BOOLEAN
      BY <1>14, Zenon DEF SearchFails
    <2>2. BlocksOK'
      BY <1>0, <1>14, <2>1 DEF SearchFails, BlocksOK
    <2> QED
      BY <1>0, <1>14, <2>2, <1>a, <1>b DEF SearchFails, Goto, AfterSearch, Stages
  <1>13. ASSUME NEW w \in BOOLEAN, Cleanup(w)
         PROVE  MTypeOK'
    <2>1. CircuitOK'
      BY <1>13, ClearedTypes DEF Cleanup, ClusterCleared
    <2>2. (success /\ w) \in BOOLEAN
      OBVIOUS
    <2>3. /\ stage' \in {"prepare", "idle"} /\ pending' \subseteq Lanes /\ calls' = calls
          /\ all' \in BOOLEAN /\ success' \in BOOLEAN /\ block' \in {"M0", "M1"}
      BY <1>13, <2>2, AfterBlockTypes DEF Cleanup
    <2>4. BlocksOK'
      BY <1>0, <1>13, <2>3 DEF Cleanup, ClusterCleared, BlocksOK, DefaultIntegrator
    <2>5. ok' \in BOOLEAN
      BY <1>13 DEF Cleanup
    <2> QED
      BY <2>1, <2>3, <2>4, <2>5, <1>a DEF Stages
  <1> QED
    BY <1>1, <1>2, <1>3, <1>4, <1>5, <1>6, <1>7, <1>8, <1>9, <1>10, <1>11, <1>12, <1>13, <1>14 DEF ProgramStep

ClientStages == {"idle", "list", "object"}

\* A request is only taken when no calibration is running, and only "calibrate" starts one.
LEMMA RequestStages ==
  ASSUME Requests
  PROVE  /\ stage \in ClientStages
         /\ stage' \in ClientStages \/ (stage' = "prepare" /\ pending' = IntLanes)
  <1>1. ASSUME Client
        PROVE  stage \in ClientStages /\ stage' \in ClientStages
    <2>1. ASSUME NEW l \in Lanes, NEW f \in Coefficients, NEW i \in UInputs, NEW o \in IOutputs, route(i, l, f, o)
          PROVE  stage \in ClientStages /\ stage' \in ClientStages
      BY <2>1 DEF route, Ready, Called, ClientStages
    <2>2. ASSUME NEW l \in Lanes, NEW f \in Coefficients, NEW m \in {"POS_REF", "NEG_REF"}, NEW o \in IOutputs,
                 add_constant(m, l, f, o)
          PROVE  stage \in ClientStages /\ stage' \in ClientStages
      BY <2>2 DEF add_constant, Ready, Called, ClientStages
    <2>3. ASSUME NEW l \in Lanes, NEW f \in Coefficients, NEW i \in UInputs, route_out_external(i, l, f)
          PROVE  stage \in ClientStages /\ stage' \in ClientStages
      BY <2>3 DEF route_out_external, Ready, Called, ClientStages
    <2>4. ASSUME NEW l \in Lanes, NEW f \in Coefficients, ConfigElement(l, f)
          PROVE  stage \in ClientStages /\ stage' \in ClientStages
      BY <2>4 DEF ConfigElement, Ready, Called, ClientStages
    <2>5. ASSUME NEW l \in Lanes, NEW o \in IOutputs, route_in_external(l, o)
          PROVE  stage \in ClientStages /\ stage' \in ClientStages
      BY <2>5 DEF route_in_external, Ready, Called, ClientStages
    <2>6. ASSUME NEW kind \in {"list", "object"}, NEW lanes \in SUBSET Lanes, ConfigOutputs(kind, lanes)
          PROVE  stage \in ClientStages /\ stage' \in ClientStages
      BY <2>6 DEF ConfigOutputs, Ready, ClientStages
    <2>7. ASSUME NEW l \in Lanes, ConfigNull(l)
          PROVE  stage \in ClientStages /\ stage' \in ClientStages
      BY <2>7 DEF ConfigNull, Next_, ClientStages
    <2>8. ASSUME NEW l \in Lanes, NEW i \in UInputs, ConfigLane(i, l)
          PROVE  stage \in ClientStages /\ stage' \in ClientStages
      BY <2>8 DEF ConfigLane, Next_, ClientStages
    <2>9. ASSUME ConfigDone
          PROVE  stage \in ClientStages /\ stage' \in ClientStages
      BY <2>9 DEF ConfigDone, ClientStages
    <2>10. ASSUME NEW v \in Constants, ConfigConstant(v)
           PROVE  stage \in ClientStages /\ stage' \in ClientStages
      BY <2>10 DEF ConfigConstant, Ready, Called, ClientStages
    <2> QED
      BY <1>1, <2>1, <2>2, <2>3, <2>4, <2>5, <2>6, <2>7, <2>8, <2>9, <2>10 DEF Client
  <1>2. ASSUME NEW ic \in Initials, NEW k \in TimeFactors, ConfigIntegrator(ic, k)
        PROVE  stage \in ClientStages /\ stage' \in ClientStages
    BY <1>2 DEF ConfigIntegrator, Ready, Called, ClientStages
  <1>3. ASSUME NEW c \in Stored, ConfigOffsets(c)
        PROVE  stage \in ClientStages /\ stage' \in ClientStages
    BY <1>3 DEF ConfigOffsets, Ready, Called, ClientStages
  <1>4. CASE ConfigOffsetsFails
    BY <1>4 DEF ConfigOffsetsFails, Ready, Called, ClientStages
  <1>5. CASE ResetCircuit
    BY <1>5 DEF ResetCircuit, Ready, Called, ClientStages
  <1>6. CASE ResetCalibration
    BY <1>6 DEF ResetCalibration, Ready, Called, ClientStages
  <1>7. CASE Calibrate
    BY <1>7 DEF Calibrate, Ready, ClientStages
  <1> QED
    BY <1>1, <1>2, <1>3, <1>4, <1>5, <1>6, <1>7 DEF Requests

\* The end of the calibration of a block, by its stages
LEMMA AfterBlockStages ==
  ASSUME NEW result, AfterBlock(result)
  PROVE  \/ stage' = "prepare" /\ pending' = {MulX, MulY}
         \/ stage' = "idle" /\ pending' = {}
  BY DEF AfterBlock, Goto

\* A step of the calibration: the stage it starts from, and where it goes to.
LEMMA ProgramStages ==
  ASSUME ProgramStep \/ Crossing
  PROVE  \/ stage = "prepare" /\ \/ stage' \in {"prepare", "idle"} /\ pending' \subseteq pending \cup {MulX, MulY}
                                 \/ pending' = {} /\ stage' = IF block = "M0" THEN "cleanup" ELSE "eeprom"
         \/ stage = "reset" /\ stage' = "ground" /\ pending' = {MulX, MulY} /\ ResetForGround
         \/ stage = "ground" /\ stage' = "ground" /\ pending' \subseteq pending /\ \E l \in Lanes : Ground(l)
         \/ /\ stage \in {"eeprom", "ground", "x", "search_x", "y", "search_y"}
            /\ stage' \in {"reset", "x", "search_x", "y", "search_y", "cleanup"}
         \/ /\ stage = "cleanup" /\ stage' \in {"prepare", "idle"} /\ pending' \subseteq {MulX, MulY}
            /\ \E w \in BOOLEAN : Cleanup(w)
  <1>1. ASSUME NEW l \in Lanes, Prepare(l)
        PROVE  stage = "prepare" /\ stage' \in {"prepare", "idle"} /\ pending' \subseteq pending \cup {MulX, MulY}
    <2>1. stage = "prepare" /\ (Goto("prepare", pending \ {l}) \/ AfterBlock(FALSE))
      BY <1>1, Zenon DEF Prepare
    <2> QED
      BY <2>1, AfterBlockStages DEF Goto
  <1>2. ASSUME NEW l \in Lanes, Ground(l)
        PROVE  \/ stage = "ground" /\ stage' = "ground" /\ pending' \subseteq pending
               \/ stage = "ground" /\ stage' = "cleanup"
    <2>1. stage = "ground" /\ (Goto("ground", pending \ {l}) \/ Goto("cleanup", {}))
      BY <1>2, Zenon DEF Ground
    <2> QED
      BY <2>1 DEF Goto
  <1>3. CASE PrepareFails
    BY <1>3, AfterBlockStages DEF PrepareFails
  <1>4. CASE Prepared
    BY <1>4 DEF Prepared, Goto
  <1>5. CASE ResetForGround
    BY <1>5 DEF ResetForGround, Goto
  <1>6. CASE Fatal
    BY <1>6 DEF Fatal, Goto
  <1>7. ASSUME NEW v, NEW f, RoutesBreak(v, f)
        PROVE  stage = "prepare" /\ stage' \in {"prepare", "idle"} /\ pending' \subseteq pending \cup {MulX, MulY}
    BY <1>7, AfterBlockStages DEF RoutesBreak
  <1>8. ASSUME NEW c \in Stored, ReadEeprom(c)
        PROVE  stage = "eeprom" /\ stage' \in {"reset", "cleanup"}
    BY <1>8 DEF ReadEeprom, Goto
  <1>9. ASSUME NEW z \in -OffsetRange-1 .. OffsetRange+1, MeasureZ(z)
        PROVE  stage = "ground" /\ stage' = "x"
    <2>1. stage = "ground" /\ Goto("x", {})
      BY <1>9, Zenon DEF MeasureZ
    <2> QED
      BY <2>1 DEF Goto
  <1>10. ASSUME InputX
         PROVE  stage = "x" /\ stage' = "search_x"
    <2>1. stage = "x" /\ Goto("search_x", {})
      BY <1>10, Zenon DEF InputX
    <2> QED
      BY <2>1 DEF Goto
  <1>11. ASSUME InputY
         PROVE  stage = "y" /\ stage' = "search_y"
    <2>1. stage = "y" /\ Goto("search_y", {})
      BY <1>11, Zenon DEF InputY
    <2> QED
      BY <2>1 DEF Goto
  <1>12. ASSUME NEW axis \in {"x", "y"}, SearchStep(axis)
         PROVE  stage \in {"search_x", "search_y"} /\ stage' = stage
    <2>1. stage = Search[axis] /\ Stay
      BY <1>12, Zenon DEF SearchStep
    <2> QED
      BY <2>1 DEF Stay, Search
  <1>13. ASSUME NEW axis \in {"x", "y"}, SearchFails(axis) \/ SearchEnds(axis)
         PROVE  stage \in {"search_x", "search_y"} /\ stage' \in {"y", "cleanup"}
    BY <1>13 DEF SearchFails, SearchEnds, Goto, Search, AfterSearch
  <1>14. ASSUME NEW w \in BOOLEAN, Cleanup(w)
         PROVE  stage = "cleanup" /\ stage' \in {"prepare", "idle"} /\ pending' \subseteq {MulX, MulY}
    BY <1>14, AfterBlockStages DEF Cleanup
  <1>15. CASE SomeRouteBreaks
    BY <1>7, <1>15 DEF SomeRouteBreaks
  <1>16. CASE Crossing
    BY <1>13, <1>16 DEF Crossing
  <1>17. CASE ProgramStep
    BY <1>1, <1>2, <1>3, <1>4, <1>5, <1>6, <1>8, <1>9, <1>10, <1>11, <1>12, <1>13, <1>14, <1>15, <1>17 DEF ProgramStep
  <1> QED
    BY <1>16, <1>17

\* Every step keeps the lanes that are still to be connected among those of the slot.
LEMMA PendingStep ==
  ASSUME PendingInv, [CNext]_allVars
  PROVE  PendingInv'
  <1>1. CASE Requests
    BY <1>1, RequestStages DEF PendingInv, ClientStages
  <1>2. CASE ProgramStep \/ Crossing
    BY <1>2, ProgramStages DEF PendingInv
  <1>3. CASE UNCHANGED allVars
    BY <1>3 DEF allVars, cVars, PendingInv
  <1> QED
    BY <1>1, <1>2, <1>3 DEF CNext, Done

\* Every step keeps the types.
LEMMA MTypeStep ==
  ASSUME MTypeOK, PendingInv, [CNext]_allVars
  PROVE  MTypeOK'
  <1>1. CASE Crossing
    <2>1. PICK axis \in {"x", "y"} : SearchEnds(axis)
      BY <1>1 DEF Crossing
    <2>2. UNCHANGED <<circuit, ok, mVars>> /\ stage' \in Stages /\ pending' = {} /\ calls' = calls
      BY <2>1 DEF SearchEnds, Goto, AfterSearch, Stages
    <2>3. PathTypeOK'
      BY <2>2 DEF MTypeOK, PathTypeOK, circuit
    <2>4. BlocksOK'
      BY <2>2, MTypes DEF BlocksOK, mVars
    <2> QED
      BY <2>2, <2>3, <2>4, MTypesNext
  <1>2. CASE UNCHANGED allVars
    BY <1>2 DEF allVars, cVars, circuit, mVars, MTypeOK, PathTypeOK
  <1> QED
    BY <1>1, <1>2, RequestTypes, ProgramTypes DEF CNext, Done

-----------------------------------------------------------------------------
(* What a calibration leaves in the hardware *)

Multiplying == {"eeprom", "reset", "ground", "x", "search_x", "y", "search_y"}

\* What a calibration of multipliers that has not failed yet has already put in the hardware
AppliedInv ==
  /\ stage \in Multiplying => block = "M1"
  /\ stage \in {"x", "search_x", "y", "search_y"} /\ success => dac.z = cal.z
  /\ stage = "search_y" /\ success => dac.x = cal.x /\ cal.y - dac.y \in {0, 1}
  /\ stage = "cleanup" /\ block = "M1" /\ success =>
       dac.x = cal.x /\ dac.z = cal.z /\ cal.y - dac.y \in {0, 1}

\* A step between calibrations, or that ends or starts the calibration of a block
LEMMA AppliedElsewhere ==
  ASSUME stage' \in {"idle", "list", "object", "prepare", "reset", "ground"},
         stage' \in {"reset", "ground"} => block' = "M1"
  PROVE  AppliedInv'
  BY DEF AppliedInv, Multiplying

\* A step that has failed
LEMMA AppliedFails ==
  ASSUME ~success', block' = "M1"
  PROVE  AppliedInv'
  BY DEF AppliedInv

\* The offsets of the multiplier are followed through its calibration.
LEMMA AppliedStep ==
  ASSUME MTypeOK, AppliedInv, [CNext]_allVars
  PROVE  AppliedInv'
  <1>0. cal \in Offsets /\ dac \in DacOffsets /\ success \in BOOLEAN
    BY MTypes DEF BlocksOK
  <1>d. -OffsetRange \in DacRange /\ 0 \in DacRange /\ -OffsetRange \in Int
    BY MBlocksAssumption DEF DacRange
  <1>1. CASE Requests
    BY <1>1, RequestStages, AppliedElsewhere DEF ClientStages
  <1>2. ASSUME NEW l \in Lanes, Prepare(l)
        PROVE  AppliedInv'
    <2>1. Goto("prepare", pending \ {l}) \/ AfterBlock(FALSE)
      BY <1>2, Zenon DEF Prepare
    <2> QED
      BY <2>1, AfterBlockStages, AppliedElsewhere DEF Goto
  <1>3. ASSUME NEW l \in Lanes, Ground(l)
        PROVE  AppliedInv'
    <2>1. /\ stage = "ground" /\ UNCHANGED block
          /\ Goto("ground", pending \ {l}) \/ (Goto("cleanup", {}) /\ success' = FALSE)
      BY <1>3, Zenon DEF Ground
    <2>2. block' = "M1"
      BY <2>1 DEF AppliedInv, Multiplying
    <2> QED
      BY <2>1, <2>2, AppliedElsewhere, AppliedFails DEF Goto
  <1>4. CASE PrepareFails
    BY <1>4, AfterBlockStages, AppliedElsewhere DEF PrepareFails
  <1>5. CASE Prepared
    <2>1. stage' = (IF block = "M0" THEN "cleanup" ELSE "eeprom") /\ UNCHANGED <<block, cal, dac, success>>
      BY <1>5 DEF Prepared, Goto, mVars
    <2> QED
      BY <2>1 DEF AppliedInv, Multiplying, MTypeOK
  <1>6. CASE ResetForGround
    <2>1. stage = "reset" /\ stage' = "ground" /\ block' = block
      BY <1>6 DEF ResetForGround, Goto
    <2> QED
      BY <2>1, AppliedElsewhere DEF AppliedInv, Multiplying
  <1>7. CASE Fatal
    <2>1. stage \in Multiplying /\ block' = block /\ success' = FALSE
      BY <1>7, Zenon DEF Fatal, Multiplying
    <2> QED
      BY <2>1, AppliedFails DEF AppliedInv
  <1>8. ASSUME NEW v, NEW f, RoutesBreak(v, f)
        PROVE  AppliedInv'
    BY <1>8, AfterBlockStages, AppliedElsewhere DEF RoutesBreak
  <1>9. ASSUME NEW c \in Stored, ReadEeprom(c)
        PROVE  AppliedInv'
    <2>1. /\ stage = "eeprom" /\ block' = block
          /\ Goto("reset", {}) \/ success' = FALSE
      BY <1>9, Zenon DEF ReadEeprom
    <2>2. block' = "M1"
      BY <2>1 DEF AppliedInv, Multiplying
    <2> QED
      BY <2>1, <2>2, AppliedElsewhere, AppliedFails DEF Goto
  <1>10. ASSUME NEW z \in -OffsetRange-1 .. OffsetRange+1, MeasureZ(z)
         PROVE  AppliedInv'
    <2>1. /\ stage = "ground" /\ Goto("x", {}) /\ block' = block
          /\ cal' = [cal EXCEPT !.z = z]
          /\ dac' = IF z \in DacRange THEN [dac EXCEPT !.z = z] ELSE dac
          /\ success' => z \in DacRange
      BY <1>10, Zenon DEF MeasureZ, InDacRange, DacRange
    <2>2. z \in Int
      BY MBlocksAssumption
    <2>3. cal'.z = z
      BY <1>0, <2>1, <2>2, OffsetEdits, Zenon
    <2>4. success' => dac'.z = z
      <3>1. z \in DacRange => [dac EXCEPT !.z = z].z = z
        BY <1>0, DacEdits, Zenon
      <3> QED
        BY <2>1, <3>1, Zenon
    <2>5. block' = "M1" /\ stage' = "x"
      BY <2>1 DEF AppliedInv, Multiplying, Goto
    <2> QED
      BY <2>3, <2>4, <2>5 DEF AppliedInv
  <1>11. CASE InputX
    <2>1. /\ stage = "x" /\ Goto("search_x", {}) /\ block' = block /\ success' = success
          /\ cal' = [cal EXCEPT !.x = -OffsetRange]
          /\ dac' = InputsWritten(dac, -OffsetRange, 0)
      BY <1>11, Zenon DEF InputX
    <2>2. cal'.z = cal.z
      BY <1>0, <1>d, <2>1, OffsetEdits, Zenon
    <2>3. dac'.z = dac.z
      BY <1>0, <1>d, <2>1, DacInputs, ZenonT(40)
    <2>4. stage = "x" /\ stage' = "search_x" /\ block' = block /\ success' = success
      BY <2>1 DEF Goto
    <2> QED
      BY <2>2, <2>3, <2>4 DEF AppliedInv, Multiplying
  <1>12. CASE InputY
    <2>1. /\ stage = "y" /\ Goto("search_y", {}) /\ block' = block
          /\ cal' = [cal EXCEPT !.y = -OffsetRange]
      BY <1>12, Zenon DEF InputY
    <2>2. block' = "M1"
      BY <2>1 DEF AppliedInv, Multiplying
    <2>3. CASE cal.x \in DacRange
      <3>1. dac' = InputsWritten(dac, cal.x, -OffsetRange) /\ success' = success
        BY <1>12, <2>3, Zenon DEF InputY, InDacRange, DacRange
      <3>2. cal'.x = cal.x /\ cal'.y = -OffsetRange /\ cal'.z = cal.z
        BY <1>0, <1>d, <2>1, OffsetEdits, Zenon
      <3>3. dac'.x = cal.x /\ dac'.y = -OffsetRange /\ dac'.z = dac.z
        <4>1. /\ InputsWritten(dac, cal.x, -OffsetRange).x = cal.x
              /\ InputsWritten(dac, cal.x, -OffsetRange).y = -OffsetRange
              /\ InputsWritten(dac, cal.x, -OffsetRange).z = dac.z
          <5>1. \A p \in DacRange : /\ InputsWritten(dac, cal.x, p).x = cal.x
                                    /\ InputsWritten(dac, cal.x, p).y = p
                                    /\ InputsWritten(dac, cal.x, p).z = dac.z
            BY <1>0, <2>3, DacInputs
          <5> QED
            BY <1>d, <5>1
        <4> QED
          BY <3>1, <4>1
      <3>4. stage = "y" /\ stage' = "search_y" /\ success' = success
        BY <2>1, <3>1 DEF Goto
      <3> QED
        BY <2>2, <3>2, <3>3, <3>4, MBlocksAssumption DEF AppliedInv, Multiplying
    <2>4. CASE cal.x \notin DacRange
      <3>1. success' = FALSE
        BY <1>12, <2>4, Zenon DEF InputY, InDacRange, DacRange
      <3> QED
        BY <2>2, <3>1, AppliedFails
    <2> QED
      BY <2>3, <2>4
  <1>13. ASSUME NEW axis \in {"x", "y"}, SearchStep(axis)
         PROVE  AppliedInv'
    <2>1. /\ stage = Search[axis] /\ Stay /\ block' = block /\ success' = success
          /\ cal' = [cal EXCEPT ![axis] = cal[axis] + 1]
          /\ dac' = InputsWritten(dac, Tried(axis).x, Tried(axis).y)
          /\ InDacRange(Tried(axis).x) /\ InDacRange(Tried(axis).y)
      BY <1>13, Zenon DEF SearchStep, InputsFit
    <2>2. dac'.x = Tried(axis).x /\ dac'.y = Tried(axis).y /\ dac'.z = dac.z
      <3>1. Tried(axis).x \in DacRange /\ Tried(axis).y \in DacRange
        BY <2>1, Zenon DEF InDacRange, DacRange
      <3> QED
        BY <1>0, <2>1, <3>1, DacInputs, SMTT(40)
    <2>3. CASE axis = "x"
      <3>1. cal' = [cal EXCEPT !.x = cal.x + 1]
        BY <2>1, <2>3, Zenon
      <3>2. cal.x + 1 \in Int
        BY <1>0 DEF Offsets
      <3>3. cal'.z = cal.z
        BY <1>0, <3>1, <3>2, OffsetEdits, Zenon
      <3>4. stage = "search_x" /\ stage' = stage /\ block' = block /\ success' = success
        BY <2>1, <2>3 DEF Stay, Search
      <3> QED
        BY <2>2, <3>3, <3>4 DEF AppliedInv, Multiplying
    <2>4. CASE axis = "y"
      <3>1. cal' = [cal EXCEPT !.y = cal.y + 1]
        BY <2>1, <2>4, Zenon
      <3>2. cal.y + 1 \in Int /\ cal.y \in Int
        BY <1>0 DEF Offsets
      <3>3. cal'.z = cal.z /\ cal'.x = cal.x /\ cal'.y = cal.y + 1
        BY <1>0, <3>1, <3>2, OffsetEdits, Zenon
      <3>4. stage = "search_y" /\ stage' = stage /\ block' = block /\ success' = success
        BY <2>1, <2>4 DEF Stay, Search
      <3>5. Tried(axis).x = cal.x /\ Tried(axis).y = cal.y
        BY <2>4 DEF Tried
      <3>6. dac'.x = cal'.x /\ cal'.y - dac'.y = 1
        BY <2>2, <3>2, <3>3, <3>5
      <3> QED
        BY <2>2, <3>3, <3>4, <3>6 DEF AppliedInv, Multiplying
    <2> QED
      BY <2>3, <2>4
  <1>14. ASSUME NEW axis \in {"x", "y"}, SearchFails(axis)
         PROVE  AppliedInv'
    <2>1. stage = Search[axis] /\ block' = block /\ success' = FALSE
      BY <1>14, Zenon DEF SearchFails
    <2>2. block' = "M1"
      BY <2>1 DEF AppliedInv, Multiplying, Search
    <2> QED
      BY <2>1, <2>2, AppliedFails
  <1>15. ASSUME NEW axis \in {"x", "y"}, SearchEnds(axis)
         PROVE  AppliedInv'
    <2>1. stage = Search[axis] /\ stage' = AfterSearch[axis] /\ UNCHANGED <<block, success, cal, dac>>
      BY <1>15 DEF SearchEnds, Goto, mVars
    <2>2. CASE axis = "x"
      BY <2>1, <2>2 DEF AppliedInv, Search, AfterSearch, Multiplying
    <2>3. CASE axis = "y"
      BY <2>1, <2>3 DEF AppliedInv, Search, AfterSearch, Multiplying
    <2> QED
      BY <2>2, <2>3
  <1>16. ASSUME NEW w \in BOOLEAN, Cleanup(w)
         PROVE  AppliedInv'
    BY <1>16, AfterBlockStages, AppliedElsewhere DEF Cleanup
  <1>17. CASE UNCHANGED allVars
    BY <1>17 DEF allVars, cVars, mVars, AppliedInv
  <1>18. CASE ProgramStep
    <2>1. CASE SomeRouteBreaks
      BY <2>1, <1>8 DEF SomeRouteBreaks
    <2> QED
      BY <1>18, <2>1, <1>2, <1>3, <1>4, <1>5, <1>6, <1>7, <1>9, <1>10, <1>11, <1>12, <1>13, <1>14, <1>16 DEF ProgramStep
  <1>19. CASE Crossing
    BY <1>15, <1>19 DEF Crossing
  <1> QED
    BY <1>1, <1>17, <1>18, <1>19 DEF CNext, Done

-----------------------------------------------------------------------------
(* The circuit that a calibration sets up for itself *)

\* What connecting a reference or ground changes in the U-block
LEMMA AlternativeIs ==
  ASSUME NEW v \in UType, NEW m \in Modes, NEW lane \in Lanes
  PROVE  /\ Alternative(v, m, lane).map[lane] = IF lane < 16 THEN 15 ELSE 14
         /\ \A k \in Lanes \ {lane} : Alternative(v, m, lane).map[k] = v.map[k]
         /\ Alternative(v, m, lane).b = m /\ Alternative(v, m, lane).a = v.a
         /\ Alternative(v, m, lane).ref = v.ref
  BY DEF Alternative, UType

\* A zero that is connected stays, and the next one can be connected.
LEMMA GroundStep ==
  ASSUME MTypeOK, PendingInv, InputsAreZero, NEW l \in Lanes, Ground(l), stage' = "ground"
  PROVE  InputsAreZero'
  <1>0. u \in UType /\ factors \in [Lanes -> -101..101] /\ out \in [Lanes -> IOutputs \cup {-1}]
    BY MTypes, PathTypes DEF CircuitOK
  <1>1. /\ stage = "ground" /\ Lowest(l) /\ AddConstant("GROUND", l, 0, l)
        /\ (ok' /\ Goto("ground", pending \ {l})) \/ Goto("cleanup", {})
    BY Zenon DEF Ground
  <1>2. ok' /\ Goto("ground", pending \ {l})
    BY <1>1 DEF Goto
  <1>3. l \in pending /\ l \in {MulX, MulY} /\ pending' = pending \ {l}
    BY <1>1, <1>2 DEF Lowest, PendingInv, Goto
  <1>4. CanConnectAlternative(u, "GROUND", l) /\ out[l] \in {-1, l}
    BY <1>1, <1>3 DEF InputsAreZero
  <1>5. u' = Alternative(u, "GROUND", l) /\ factors' = [factors EXCEPT ![l] = 0]
        /\ upscaling' = upscaling \ {l} /\ out' = [out EXCEPT ![l] = l]
    BY <1>1, <1>4 DEF AddConstant, Route, Scaled, Upscaled, InRange
  <1>6. /\ u'.map[l] = (IF l < 16 THEN 15 ELSE 14) /\ u'.b = "GROUND" /\ u'.a = u.a /\ u'.ref = u.ref
        /\ \A k \in Lanes \ {l} : u'.map[k] = u.map[k]
    BY <1>0, <1>5, AlternativeIs DEF Modes
  <1>7. /\ factors'[l] = 0 /\ out'[l] = l
        /\ \A k \in Lanes \ {l} : factors'[k] = factors[k] /\ out'[k] = out[k] /\ (k \in upscaling' <=> k \in upscaling)
    BY <1>0, <1>5
  <1>8. Term(l)' = <<<<"GROUND", 0>>, 0, l>>
    <2>1. Signal(u', l) = <<"GROUND", 0>>
      BY <1>6 DEF Signal, Side, BSide
    <2>2. Coefficient(l)' = 0
      BY <1>7 DEF Coefficient
    <2> QED
      BY <2>1, <2>2, <1>7 DEF Term
  <1>9. ASSUME NEW k \in Lanes, k # l, k \in {MulX, MulY}, k \in pending
        PROVE  CanConnectAlternative(u', "GROUND", k) /\ out'[k] \in {-1, k}
    <2>1. CanConnectAlternative(u, "GROUND", k) /\ out[k] \in {-1, k}
      BY <1>1, <1>9 DEF InputsAreZero
    <2> QED
      BY <1>6, <1>7, <1>9, <2>1 DEF CanConnectAlternative
  <1>10. ASSUME NEW k \in Lanes, k # l, k \in {MulX, MulY}, k \notin pending
         PROVE  Term(k)' = <<<<"GROUND", 0>>, 0, k>>
    <2>1. Term(k) = <<<<"GROUND", 0>>, 0, k>>
      BY <1>1, <1>10 DEF InputsAreZero
    <2>2. Signal(u, k) = <<"GROUND", 0>> /\ Coefficient(k) = 0 /\ out[k] = k
      BY <2>1 DEF Term
    <2>3. Signal(u', k) = <<"GROUND", 0>>
      <3>1. u.map[k] # -1 /\ Side(u, k) = "GROUND"
        BY <2>2 DEF Signal
      <3> QED
        BY <1>6, <1>10, <3>1 DEF Signal, Side
    <2>4. Coefficient(k)' = Coefficient(k)
      BY <1>7, <1>10 DEF Coefficient
    <2> QED
      BY <2>2, <2>3, <2>4, <1>7, <1>10 DEF Term
  <1>11. ASSUME NEW k \in Lanes, k \notin {MulX, MulY}
         PROVE  out'[k] = -1
    BY <1>1, <1>3, <1>7, <1>11 DEF InputsAreZero
  <1> QED
    BY <1>3, <1>4, <1>7, <1>8, <1>9, <1>10, <1>11 DEF InputsAreZero

\* Whatever a client has configured, the circuit of the calibration starts from a clean one.
LEMMA ZeroStep ==
  ASSUME MTypeOK, PendingInv, InputsAreZero, [CNext]_allVars
  PROVE  InputsAreZero'
  <1>1. CASE stage' # "ground"
    BY <1>1 DEF InputsAreZero
  <1>2. CASE stage' = "ground" /\ ResetForGround
    <2>1. u' = DefaultU /\ out' = NoConnections /\ pending' = {MulX, MulY}
      BY <1>2 DEF ResetForGround, ClusterCleared, Cleared, Goto
    <2>2. \A l \in Lanes : DefaultU.map[l] = -1 /\ NoConnections[l] = -1
      BY DEF DefaultU, NoConnections
    <2>3. \A l \in Lanes : CanConnectAlternative(DefaultU, "GROUND", l)
      <3>1. ~IsInputConnected(DefaultU, 14) /\ ~IsInputConnected(DefaultU, 15)
        BY <2>2 DEF IsInputConnected
      <3> QED
        BY <2>2, <3>1 DEF CanConnectAlternative
    <2> QED
      BY <2>1, <2>2, <2>3, MBlocksAssumption DEF InputsAreZero
  <1>3. ASSUME stage' = "ground", NEW l \in Lanes, Ground(l)
        PROVE  InputsAreZero'
    BY <1>3, GroundStep
  <1>4. CASE UNCHANGED allVars
    <2>1. UNCHANGED <<u, factors, upscaling, out, stage, pending>>
      BY <1>4 DEF allVars, cVars, circuit
    <2> QED
      BY <2>1 DEF InputsAreZero, Term, Coefficient
  <1>5. CASE Requests
    BY <1>5, <1>1, RequestStages DEF ClientStages
  <1>6. CASE ProgramStep \/ Crossing
    BY <1>6, <1>1, <1>2, <1>3, ProgramStages
  <1> QED
    BY <1>4, <1>5, <1>6 DEF CNext, Done

\* The inductive invariant of the signal path and the M-blocks
CalibrationInv == MTypeOK /\ PendingInv /\ AppliedInv /\ InputsAreZero

\* The constructors and init() establish it.
LEMMA CalibrationInitial ==
  ASSUME MInit
  PROVE  CalibrationInv
  <1>1. DefaultU \in UType
    BY DEF DefaultU, NoConnections, UType, Modes
  <1>2. stage = "idle" /\ pending = {} /\ ok = TRUE /\ calls = 0 /\ CircuitOK
    BY <1>1 DEF MInit, CInit, CircuitOK, NoConnections
  <1>3. PathTypeOK
    <2>1. ok \in BOOLEAN
      BY <1>2, Zenon
    <2> QED
      BY <1>2, <2>1, PathTypes, SignalPathAssumption
  <1>4. BlocksOK
    BY MBlocksAssumption DEF MInit, BlocksOK, DefaultIntegrator, NoOffsets, Offsets, DacOffsets, DacRange
  <1>5. MTypeOK
    BY <1>2, <1>3, <1>4, MTypes DEF Stages
  <1> QED
    BY <1>2, <1>5 DEF CalibrationInv, PendingInv, AppliedInv, Multiplying, InputsAreZero

\* It holds of every behaviour.
LEMMA CalibrationInductive == CSpec => []CalibrationInv
  <1>1. CalibrationInv /\ [CNext]_allVars => CalibrationInv'
    BY MTypeStep, PendingStep, AppliedStep, ZeroStep DEF CalibrationInv
  <1> QED
    BY <1>1, CalibrationInitial, PTL DEF CSpec

\* Whatever a client has configured, and however the calibration before it has ended,
\* MMulBlock::calibrate() measures with zeros on both inputs of the multiplier.
THEOREM ZeroesAreMeasured == CSpec => []InputsAreZero
  <1>1. CalibrationInv => InputsAreZero
    BY DEF CalibrationInv
  <1> QED
    BY <1>1, CalibrationInductive, PTL

\* Whatever a calibration meets, the DAC is only given offsets in its range, a success means that
\* the offsets found are in the hardware, and calibrate_mblock() clears the circuit it has used.
THEOREM CalibrationResultIsClean == CSpec => CalibrationIsClean
  <1>1. CalibrationInv => MTypeOK
    BY DEF CalibrationInv
  <1>2. ASSUME CalibrationInv, [CNext]_allVars, stage = "cleanup", stage' # "cleanup"
        PROVE  \E w \in BOOLEAN : Cleanup(w)
    <2>1. CASE Requests
      BY <1>2, <2>1, RequestStages DEF ClientStages
    <2>2. CASE ProgramStep \/ Crossing
      BY <1>2, <2>2, ProgramStages
    <2>3. ~UNCHANGED allVars
      BY <1>2 DEF allVars, cVars
    <2> QED
      BY <1>2, <2>1, <2>2, <2>3 DEF CNext, Done
  <1>3. ASSUME CalibrationInv, [CNext]_allVars
        PROVE  [stage = "cleanup" /\ block = "M1" /\ stage' = "idle" /\ ok' =>
                  dac.x = cal.x /\ dac.z = cal.z /\ cal.y - dac.y \in {0, 1}]_allVars
    <2>1. SUFFICES ASSUME stage = "cleanup", block = "M1", stage' = "idle", ok'
                   PROVE  dac.x = cal.x /\ dac.z = cal.z /\ cal.y - dac.y \in {0, 1}
      OBVIOUS
    <2>2. PICK w \in BOOLEAN : Cleanup(w)
      BY <1>2, <1>3, <2>1
    <2>3. success
      BY <2>1, <2>2, Zenon DEF Cleanup
    <2> QED
      BY <1>3, <2>1, <2>3 DEF CalibrationInv, AppliedInv
  <1>4. ASSUME CalibrationInv, [CNext]_allVars
        PROVE  [stage = "cleanup" /\ stage' # "cleanup" =>
                  u' = DefaultU /\ out' = NoConnections /\ integrator' = DefaultIntegrator]_allVars
    <2>1. SUFFICES ASSUME stage = "cleanup", stage' # "cleanup"
                   PROVE  u' = DefaultU /\ out' = NoConnections /\ integrator' = DefaultIntegrator
      OBVIOUS
    <2>2. PICK w \in BOOLEAN : Cleanup(w)
      BY <1>2, <1>4, <2>1
    <2> QED
      BY <2>2, Zenon DEF Cleanup, ClusterCleared, Cleared
  <1> QED
    BY <1>1, <1>3, <1>4, CalibrationInductive, PTL DEF CalibrationIsClean, CalibrationIsApplied, CalibrationCleansUp, CSpec

-----------------------------------------------------------------------------
(* The signal path as clients rely on it *)

\* What connecting an input changes in the U-block
LEMMA UConnectedIs ==
  ASSUME NEW v \in UType, NEW i \in UInputs, NEW lane \in Lanes
  PROVE  /\ UConnected(v, i, lane).map[lane] = i
         /\ \A k \in Lanes \ {lane} : UConnected(v, i, lane).map[k] = v.map[k]
         /\ UConnected(v, i, lane).a = IF BSide(i, lane) THEN v.a ELSE "ANALOG_INPUT"
         /\ UConnected(v, i, lane).b = IF BSide(i, lane) THEN "ANALOG_INPUT" ELSE v.b
         /\ UConnected(v, i, lane).ref = v.ref
  BY DEF UConnected, UType

\* A call that succeeds has taken all its steps.
LEMMA RouteIs ==
  ASSUME CircuitOK, NEW connects \in BOOLEAN, NEW v \in UType, NEW lane \in Lanes,
         NEW f \in Coefficients, NEW o \in IOutputs, Route(connects, v, lane, f, o), ok'
  PROVE  connects /\ u' = v /\ Coefficient(lane)' = f /\ out'[lane] = o
  <1>0. f \in Int /\ (Upscaled(f) => f % 10 = 0)
    BY SignalPathAssumption, ScaleAssumption DEF Upscaled
  <1>1. connects /\ InRange(Scaled(f)) /\ out[lane] \in {-1, o}
    BY DEF Route
  <1>2. /\ u' = v /\ factors' = [factors EXCEPT ![lane] = Scaled(f)] /\ out' = [out EXCEPT ![lane] = o]
        /\ upscaling' = IF Upscaled(f) THEN upscaling \cup {lane} ELSE upscaling \ {lane}
    BY <1>1 DEF Route
  <1>3. factors'[lane] = Scaled(f) /\ out'[lane] = o
    BY <1>2 DEF CircuitOK
  <1>4. Coefficient(lane)' = f
    <2>1. CASE Upscaled(f)
      <3>1. lane \in upscaling' /\ Scaled(f) = f \div 10
        BY <1>2, <2>1 DEF Scaled
      <3>2. (f \div 10) * 10 = f
        BY <1>0, <2>1
      <3> QED
        BY <1>3, <3>1, <3>2 DEF Coefficient
    <2>2. CASE ~Upscaled(f)
      <3>1. lane \notin upscaling' /\ Scaled(f) = f
        BY <1>2, <2>2 DEF Scaled
      <3> QED
        BY <1>0, <1>3, <3>1 DEF Coefficient
    <2> QED
      BY <2>1, <2>2
  <1> QED
    BY <1>1, <1>2, <1>3, <1>4

\* route() and add_constant() deliver what was asked for.
LEMMA Delivers ==
  ASSUME CircuitOK, NEW l \in Lanes, NEW f \in Coefficients, NEW o \in IOutputs
  PROVE  /\ \A i \in UInputs : route(i, l, f, o) /\ ok' => Term(l)' = <<<<"INPUT", i>>, f, o>>
         /\ \A m \in {"POS_REF", "NEG_REF"} :
              add_constant(m, l, f, o) /\ ok' => Term(l)' = <<<<m, "ONE">>, f, o>>
  <1>1. ASSUME NEW i \in UInputs, route(i, l, f, o), ok'
        PROVE  Term(l)' = <<<<"INPUT", i>>, f, o>>
    <2>1. UConnected(u, i, l) \in UType /\ u \in UType
      BY UTypes DEF CircuitOK
    <2>2. u' = UConnected(u, i, l) /\ Coefficient(l)' = f /\ out'[l] = o
      BY <1>1, <2>1, RouteIs, CanConnectBoolean DEF route
    <2>3. u'.map[l] = i /\ (IF BSide(i, l) THEN u'.b = "ANALOG_INPUT" ELSE u'.a = "ANALOG_INPUT") /\ i # -1
      BY <2>1, <2>2, UConnectedIs, SignalPathAssumption
    <2>4. Signal(u', l) = <<"INPUT", i>>
      BY <2>3 DEF Signal, Side
    <2> QED
      BY <2>2, <2>4 DEF Term
  <1>2. ASSUME NEW m \in {"POS_REF", "NEG_REF"}, add_constant(m, l, f, o), ok'
        PROVE  Term(l)' = <<<<m, "ONE">>, f, o>>
    <2>0. m \in Modes
      BY DEF Modes
    <2>1. Alternative(u, m, l) \in UType /\ u \in UType
      BY <2>0, UTypes DEF CircuitOK
    <2>2. u' = Alternative(u, m, l) /\ Coefficient(l)' = f /\ out'[l] = o /\ CanConnectAlternative(u, m, l)
      BY <1>2, <2>1, RouteIs, CanConnectBoolean DEF add_constant, AddConstant
    <2>3. u'.map[l] = (IF l < 16 THEN 15 ELSE 14) /\ u'.b = m /\ u'.ref = u.ref
      BY <2>0, <2>1, <2>2, AlternativeIs
    <2>4. u.ref = "ONE"
      BY <2>2 DEF CanConnectAlternative
    <2>5. Signal(u', l) = <<m, "ONE">>
      BY <2>3, <2>4 DEF Signal, Side, BSide
    <2> QED
      BY <2>2, <2>5 DEF Term
  <1> QED
    BY <1>1, <1>2

\* A signal depends on the lane, the mode of its side and the reference.
LEMMA SignalKept ==
  ASSUME NEW v, NEW w, NEW l, w.map[l] = v.map[l], w.a = v.a, w.ref = v.ref,
         BSide(v.map[l], l) => w.b = v.b
  PROVE  Signal(w, l) = Signal(v, l)
  BY DEF Signal, Side

\* The exceptions that LanesAreIndependent names
Excepted(l) ==
  \/ u.a # "ANALOG_INPUT" \/ u'.a # "ANALOG_INPUT"
  \/ \E v \in Constants : ConfigConstant(v)
  \/ \E k \in Lanes \ {l} : u'.map[k] # u.map[k] /\ BSide(u'.map[k], k) /\ u'.b = "ANALOG_INPUT"

\* A lane that is not reconnected keeps its signal.
Independent(l) == u'.map[l] = u.map[l] /\ Signal(u', l) # Signal(u, l) => Excepted(l)

\* connect() disturbs no other lane.
LEMMA ConnectIsIndependent ==
  ASSUME u \in UType, NEW l \in Lanes, NEW k \in Lanes, NEW i \in UInputs, CanConnect(u, i, k),
         u' = UConnected(u, i, k)
  PROVE  Independent(l)
  <1>1. SUFFICES ASSUME u'.map[l] = u.map[l], ~Excepted(l)
                 PROVE  Signal(u', l) = Signal(u, l)
    BY DEF Independent
  <1>2. u.map[k] = -1 /\ i # -1
    BY SignalPathAssumption DEF CanConnect
  <1>3. /\ u'.map[k] = i
        /\ u'.a = (IF BSide(i, k) THEN u.a ELSE "ANALOG_INPUT")
        /\ u'.b = (IF BSide(i, k) THEN "ANALOG_INPUT" ELSE u.b)
        /\ u'.ref = u.ref
    BY UConnectedIs
  <1>4. k # l
    BY <1>1, <1>2, <1>3
  <1>5. ~BSide(i, k)
    BY <1>1, <1>2, <1>3, <1>4 DEF Excepted
  <1>6. u'.a = u.a /\ u'.b = u.b
    BY <1>1, <1>3, <1>5 DEF Excepted
  <1> QED
    BY <1>1, <1>3, <1>6, SignalKept

\* Nor does connect_alternative().
LEMMA AlternativeIsIndependent ==
  ASSUME u \in UType, NEW l \in Lanes, NEW k \in Lanes, NEW m \in Modes, CanConnectAlternative(u, m, k),
         u' = Alternative(u, m, k)
  PROVE  Independent(l)
  <1>1. SUFFICES ASSUME u'.map[l] = u.map[l]
                 PROVE  Signal(u', l) = Signal(u, l)
    BY DEF Independent
  <1>2. u'.b = m /\ u'.a = u.a /\ u'.ref = u.ref
    BY AlternativeIs
  <1>3. BSide(u.map[l], l) => u.b = m
    BY DEF CanConnectAlternative, IsInputConnected, BSide
  <1> QED
    BY <1>1, <1>2, <1>3, SignalKept

\* A reset: a lane that stays as it is was not connected.
LEMMA ClearedIsIndependent ==
  ASSUME NEW l \in Lanes, u' = DefaultU
  PROVE  Independent(l)
  <1>1. DefaultU.map[l] = -1
    BY DEF DefaultU, NoConnections
  <1> QED
    BY <1>1 DEF Independent, Signal

\* Nor what leaves the U-block alone.
LEMMA UnchangedIsIndependent ==
  ASSUME NEW l \in Lanes, u' = u
  PROVE  Independent(l)
  BY DEF Independent

\* route() and add_constant() connect a lane or leave the U-block as it is.
LEMMA AddConstantIsIndependent ==
  ASSUME u \in UType, NEW l \in Lanes, NEW k \in Lanes, NEW m \in Modes, NEW f, NEW o, AddConstant(m, k, f, o)
  PROVE  Independent(l)
  <1>1. u' = IF CanConnectAlternative(u, m, k) THEN Alternative(u, m, k) ELSE u
    BY Zenon DEF AddConstant, Route
  <1> QED
    BY <1>1, AlternativeIsIndependent, UnchangedIsIndependent

\* Nor does a call or message of a client, but for the one that sets the constant.
LEMMA ClientIsIndependent ==
  ASSUME u \in UType, NEW l \in Lanes, Client
  PROVE  Independent(l)
  <1>1. ASSUME NEW k \in Lanes, NEW f \in Coefficients, NEW i \in UInputs, NEW o \in IOutputs, route(i, k, f, o)
        PROVE  Independent(l)
    <2>1. u' = IF CanConnect(u, i, k) THEN UConnected(u, i, k) ELSE u
      BY <1>1, Zenon DEF route, Route
    <2> QED
      BY <2>1, ConnectIsIndependent, UnchangedIsIndependent
  <1>2. ASSUME NEW k \in Lanes, NEW f \in Coefficients, NEW m \in {"POS_REF", "NEG_REF"}, NEW o \in IOutputs,
               add_constant(m, k, f, o)
        PROVE  Independent(l)
    <2>1. m \in Modes /\ AddConstant(m, k, f, o)
      BY <1>2 DEF Modes, add_constant
    <2> QED
      BY <2>1, AddConstantIsIndependent
  <1>3. ASSUME NEW k \in Lanes, NEW f \in Coefficients, NEW i \in UInputs, route_out_external(i, k, f)
        PROVE  Independent(l)
    <2>1. u' = IF CanConnect(u, i, k) THEN UConnected(u, i, k) ELSE u
      BY <1>3, Zenon DEF route_out_external
    <2> QED
      BY <2>1, ConnectIsIndependent, UnchangedIsIndependent
  <1>4. ASSUME NEW k \in Lanes, NEW f \in Coefficients, ConfigElement(k, f)
        PROVE  Independent(l)
    BY <1>4, UnchangedIsIndependent DEF ConfigElement
  <1>5. ASSUME NEW k \in Lanes, NEW o \in IOutputs, route_in_external(k, o)
        PROVE  Independent(l)
    BY <1>5, UnchangedIsIndependent DEF route_in_external
  <1>6. ASSUME NEW kind \in {"list", "object"}, NEW lanes \in SUBSET Lanes, ConfigOutputs(kind, lanes)
        PROVE  Independent(l)
    <2>1. u'.a = u.a /\ u'.b = u.b /\ u'.ref = u.ref
      BY <1>6 DEF ConfigOutputs, UType
    <2> QED
      BY <2>1, SignalKept DEF Independent
  <1>7. ASSUME NEW k \in Lanes, ConfigNull(k)
        PROVE  Independent(l)
    BY <1>7, UnchangedIsIndependent DEF ConfigNull, circuit
  <1>8. ASSUME NEW k \in Lanes, NEW i \in UInputs, ConfigLane(i, k)
        PROVE  Independent(l)
    BY <1>8, ConnectIsIndependent, UnchangedIsIndependent DEF ConfigLane
  <1>9. ASSUME ConfigDone
        PROVE  Independent(l)
    BY <1>9, UnchangedIsIndependent DEF ConfigDone, circuit
  <1>10. ASSUME NEW v \in Constants, ConfigConstant(v)
         PROVE  Independent(l)
    BY <1>10 DEF Independent, Excepted
  <1> QED
    BY <1>1, <1>2, <1>3, <1>4, <1>5, <1>6, <1>7, <1>8, <1>9, <1>10 DEF Client

\* Nor does any step.
LEMMA StepIsIndependent ==
  ASSUME u \in UType, NEW l \in Lanes, CNext
  PROVE  Independent(l)
  <1>1. CASE UNCHANGED u
    BY <1>1, UnchangedIsIndependent
  <1>2. CASE u' = DefaultU
    BY <1>2, ClearedIsIndependent
  <1>3. CASE Client
    BY <1>3, ClientIsIndependent
  <1>4. ASSUME NEW k \in Lanes, Prepare(k) \/ Ground(k)
        PROVE  Independent(l)
    <2>1. AddConstant("POS_REF", k, 100, k) \/ AddConstant("GROUND", k, 0, k)
      BY <1>4, Zenon DEF Prepare, Ground
    <2> QED
      BY <2>1, AddConstantIsIndependent DEF Modes
  <1>5. CASE SomeRouteBreaks
    <2>1. ASSUME NEW f, NEW m \in {"POS_REF", "GROUND"}, RoutesBreak(BothSides(m, "ONE"), f)
          PROVE  Independent(l)
      <3>1. u' = [u EXCEPT !.a = m, !.b = m, !.ref = "ONE"]
        BY <2>1, Zenon DEF RoutesBreak, BothSides
      <3>2. \A v \in UType : [v EXCEPT !.a = m, !.b = m, !.ref = "ONE"].a = m
        BY DEF UType
      <3>3. u'.a # "ANALOG_INPUT"
        BY <3>1, <3>2
      <3> QED
        BY <3>3 DEF Independent, Excepted
    <2>2. ASSUME NEW f, RoutesBreak(u, f)
          PROVE  Independent(l)
      BY <2>2, <1>1 DEF RoutesBreak
    <2> QED
      BY <1>5, <2>1, <2>2 DEF SomeRouteBreaks
  <1>6. CASE Requests
    <2>1. ASSUME NEW ic \in Initials, NEW k \in TimeFactors, ConfigIntegrator(ic, k)
          PROVE  UNCHANGED u
      BY <2>1 DEF ConfigIntegrator, circuit
    <2>2. ASSUME NEW c \in Stored, ConfigOffsets(c)
          PROVE  UNCHANGED u
      BY <2>2 DEF ConfigOffsets, circuit
    <2>3. ASSUME ConfigOffsetsFails \/ ResetCalibration \/ Calibrate
          PROVE  UNCHANGED u
      BY <2>3 DEF ConfigOffsetsFails, ResetCalibration, Calibrate, circuit
    <2>4. ASSUME ResetCircuit
          PROVE  u' = DefaultU
      BY <2>4 DEF ResetCircuit, ClusterCleared, Cleared
    <2> QED
      BY <1>1, <1>2, <1>3, <1>6, <2>1, <2>2, <2>3, <2>4 DEF Requests
  <1>7. CASE ProgramStep
    <2>1. ASSUME PrepareFails \/ Prepared \/ Fatal
          PROVE  UNCHANGED u
      BY <2>1 DEF PrepareFails, Prepared, Fatal, circuit
    <2>2. ASSUME NEW w \in BOOLEAN, ResetForGround \/ Cleanup(w)
          PROVE  u' = DefaultU
      BY <2>2, Zenon DEF ResetForGround, Cleanup, ClusterCleared, Cleared
    <2>3. ASSUME NEW c \in Stored, ReadEeprom(c)
          PROVE  UNCHANGED u
      BY <2>3 DEF ReadEeprom, circuit
    <2>4. ASSUME NEW z \in -OffsetRange-1 .. OffsetRange+1, MeasureZ(z)
          PROVE  UNCHANGED u
      BY <2>4, Zenon DEF MeasureZ, circuit
    <2>5. ASSUME InputX \/ InputY
          PROVE  UNCHANGED u
      BY <2>5, Zenon DEF InputX, InputY
    <2>6. ASSUME NEW axis \in {"x", "y"}, SearchStep(axis) \/ SearchFails(axis)
          PROVE  UNCHANGED u
      BY <2>6, Zenon DEF SearchStep, SearchFails, circuit
    <2>7. ResetForGround => u' = DefaultU
      BY Zenon DEF ResetForGround, ClusterCleared, Cleared
    <2> QED
      BY <1>1, <1>2, <1>4, <1>5, <1>7, <2>1, <2>2, <2>3, <2>4, <2>5, <2>6, <2>7 DEF ProgramStep
  <1>8. CASE Crossing
    BY <1>1, <1>8 DEF Crossing, SearchEnds, circuit
  <1> QED
    BY <1>1, <1>6, <1>7, <1>8 DEF CNext, Done, allVars, cVars, circuit

\* A report that is sent back carries the same signals.
LEMMA RoundTrip ==
  ASSUME NEW v \in UType, v.a = "ANALOG_INPUT", v.b # "GROUND", NEW l \in Lanes
  PROVE  Signal(FromJson(ToJson(v)), l) = Signal(v, l)
  <1>1. ToJson(v).outputs = v.map
    BY DEF ToJson
  <1>2. v.b \in {"POS_REF", "NEG_REF", "ANALOG_INPUT"} /\ v.ref \in {"ONE", "ONE_TENTH"} /\ v.map \in [Lanes -> UInputs \cup {-1}]
    BY DEF UType, Modes
  <1>3. ToJson(v).constant = LET m == IF v.ref = "ONE_TENTH" THEN 1 ELSE 10
                             IN  CASE v.b = "POS_REF" -> m [] v.b = "NEG_REF" -> -m [] OTHER -> 0
    BY DEF ToJson
  <1> DEFINE w == FromJson(ToJson(v))
  <1>4. w.map = v.map /\ w.a = "ANALOG_INPUT"
    BY <1>1, <1>3 DEF FromJson, WithConstant, DefaultU
  <1>5. w.b = v.b /\ (v.b # "ANALOG_INPUT" => w.ref = v.ref)
    <2>1. \A c \in {1, 10} :
            /\ WithConstant([DefaultU EXCEPT !.map = v.map], c).b = "POS_REF"
            /\ WithConstant([DefaultU EXCEPT !.map = v.map], -c).b = "NEG_REF"
            /\ WithConstant([DefaultU EXCEPT !.map = v.map], c).ref = IF c = 1 THEN "ONE_TENTH" ELSE "ONE"
            /\ WithConstant([DefaultU EXCEPT !.map = v.map], -c).ref = IF c = 1 THEN "ONE_TENTH" ELSE "ONE"
      BY DEF WithConstant, DefaultU, Magnitude
    <2>2. WithConstant([DefaultU EXCEPT !.map = v.map], 0).b = "ANALOG_INPUT"
      BY DEF WithConstant, DefaultU
    <2>3. CASE v.b = "POS_REF"
      BY <1>1, <1>2, <1>3, <2>1, <2>3 DEF FromJson
    <2>4. CASE v.b = "NEG_REF"
      BY <1>1, <1>2, <1>3, <2>1, <2>4 DEF FromJson
    <2>5. CASE v.b = "ANALOG_INPUT"
      BY <1>1, <1>3, <2>2, <2>5 DEF FromJson
    <2> QED
      BY <1>2, <2>3, <2>4, <2>5
  <1> QED
    BY <1>4, <1>5 DEF Signal, Side

\* route() and add_constant() deliver what was asked for, no lane is disturbed by another but as
\* stated, and a report of the U-block can be sent back: with calibrations and their failures.
THEOREM SignalPathIsKept == CSpec => PathIsKept
  <1>1. CalibrationInv => CircuitOK /\ u \in UType
    BY MTypes, PathTypes DEF CalibrationInv, CircuitOK
  <1>2. ASSUME CalibrationInv
        PROVE  [\A l \in Lanes, f \in Coefficients, o \in IOutputs :
                 /\ \A i \in UInputs : route(i, l, f, o) /\ ok' => Term(l)' = <<<<"INPUT", i>>, f, o>>
                 /\ \A m \in {"POS_REF", "NEG_REF"} :
                      add_constant(m, l, f, o) /\ ok' => Term(l)' = <<<<m, "ONE">>, f, o>>]_cVars
    BY <1>1, <1>2, Delivers
  <1>3. ASSUME CalibrationInv, [CNext]_allVars
        PROVE  [\A l \in Lanes :
                  u'.map[l] = u.map[l] /\ Signal(u, l)' # Signal(u, l) =>
                    \/ u.a # "ANALOG_INPUT" \/ u'.a # "ANALOG_INPUT"
                    \/ \E v \in Constants : ConfigConstant(v)
                    \/ \E k \in Lanes \ {l} : u'.map[k] # u.map[k] /\ BSide(u'.map[k], k) /\ u'.b = "ANALOG_INPUT"]_cVars
    <2>1. CASE CNext
      <3>1. \A l \in Lanes : Independent(l)
        BY <1>1, <1>3, <2>1, StepIsIndependent
      <3> QED
        BY <3>1 DEF Independent, Excepted
    <2>2. CASE UNCHANGED allVars
      BY <2>2 DEF allVars
    <2> QED
      BY <1>3, <2>1, <2>2
  <1>4. CalibrationInv => ConfigRoundTrips
    BY <1>1, RoundTrip DEF ConfigRoundTrips
  <1> QED
    BY <1>2, <1>3, <1>4, CalibrationInductive, PTL DEF PathIsKept, RouteDelivers, LanesAreIndependent, CSpec
-----------------------------------------------------------------------------
(* I-block *)

USE SizeAssumption, ScaledAssumption

-----------------------------------------------------------------------------
(* Types *)

\* Reducing the index of the block gives the index on the chip back.
LEMMA ChipIndex ==
  ASSUME NEW n \in Nat \ {0}, NEW x \in 0 .. n - 1
  PROVE  (x + 0 * n) % n = x /\ (x + 1 * n) % n = x
  OBVIOUS

\* The word a chip gets addresses one of its crosspoints.
LEMMA WordOfChip ==
  ASSUME TypeOK, AtOutput, NEW c \in Chips
  PROVE  ConnectWord(c) = [connect |-> TRUE, output |-> output_idx, input |-> input_idx]
  <1>1. output_idx \in 0 .. HalfOutputs - 1 /\ input_idx \in 0 .. HalfInputs - 1
    BY DEF TypeOK, AtOutput
  <1>2. c[1] \in {0, 1} /\ c[2] \in {0, 1}
    BY DEF Chips
  <1>3. (output_idx + c[1] * HalfOutputs) % HalfOutputs = output_idx
    BY <1>1, <1>2, ChipIndex
  <1>4. (input_idx + c[2] * HalfInputs) % HalfInputs = input_idx
    BY <1>1, <1>2, ChipIndex
  <1> QED
    BY <1>3, <1>4 DEF ConnectWord

\* A command consists of words of the chips.
LEMMA CommandTypes ==
  ASSUME TypeOK, AtOutput
  PROVE  /\ Command \in [Chips -> Words] /\ Synced(Command) \in [Chips -> SUBSET Crosspoints]
         /\ \A c \in Chips : Command[c] = IF Wanted(c, output_idx, input_idx)
                               THEN [connect |-> TRUE, output |-> output_idx, input |-> input_idx]
                               ELSE remembered_command[c]
  <1>1. \A c \in Chips : Command[c] = IF Wanted(c, output_idx, input_idx)
                           THEN [connect |-> TRUE, output |-> output_idx, input |-> input_idx]
                           ELSE remembered_command[c]
    BY WordOfChip DEF Command, RepeatedWord
  <1>2. [connect |-> TRUE, output |-> output_idx, input |-> input_idx] \in Words
    BY DEF TypeOK, AtOutput, Words
  <1>3. Command \in [Chips -> Words]
    BY <1>1, <1>2 DEF Command, TypeOK
  <1>4. \A c \in Chips : <<Command[c].output, Command[c].input>> \in Crosspoints
    BY <1>3 DEF Words, Crosspoints
  <1> QED
    BY <1>1, <1>3, <1>4 DEF Synced, TypeOK

\* The block starts with everything disconnected.
LEMMA TypeInit == Init => TypeOK
  BY DEF Init, TypeOK, Chips, Crosspoints, Words, ZeroWord, Outputs

\* Every step keeps the types.
LEMMA TypeStep == TypeOK /\ [Next]_vars => TypeOK'
  <1> SUFFICES ASSUME TypeOK, [Next]_vars PROVE TypeOK'
    OBVIOUS
  <1>1. CASE UNCHANGED vars
    BY <1>1 DEF vars, configVars, hardwareVars, loopVars, TypeOK
  <1>2. CASE Change
    BY <1>2 DEF Change, Connect, DisconnectInput, DisconnectOutput, SetUpscaling, SetUpscales, Reset,
       Connected, TypeOK, hardwareVars, loopVars
  <1>3. CASE Configure
    BY <1>3 DEF Configure, ConfigObject, ConfigList, ConfigEnd, ConfigOutput, ConfigInput,
       Connected, TypeOK, Outputs, configVars, hardwareVars, loopVars
  <1>4. ASSUME LoopInit PROVE /\ output_idx' \in 0 .. HalfOutputs /\ input_idx' \in 0 .. HalfInputs - 1
                              /\ remembered_command' \in [Chips -> Words]
    BY <1>4 DEF LoopInit, Words, ZeroWord
  <1>5. CASE WriteBegin
    BY <1>4, <1>5 DEF WriteBegin, ResetMatrix, TypeOK, configVars
  <1>6. CASE WriteUpscalingFails
    BY <1>6 DEF WriteUpscalingFails, TypeOK, configVars, hardwareVars, loopVars
  <1>7. CASE SkipOutput
    BY <1>7 DEF SkipOutput, TypeOK, configVars, hardwareVars
  <1>8. CASE SendCommand
    <2>1. /\ output_idx' \in 0 .. HalfOutputs /\ input_idx' \in 0 .. HalfInputs - 1
      BY <1>8 DEF SendCommand, NextInput, AtOutput, TypeOK
    <2>2. remembered_command' \in [Chips -> Words] /\ matrix' \in [Chips -> SUBSET Crosspoints]
      BY <1>8, CommandTypes DEF SendCommand, TypeOK
    <2> QED
      BY <1>8, <2>1, <2>2 DEF SendCommand, TypeOK, configVars
  <1>9. CASE TransferFails
    BY <1>4, <1>9 DEF TransferFails, TypeOK, configVars, hardwareVars
  <1>10. CASE WriteEnd
    BY <1>4, <1>10 DEF WriteEnd, TypeOK, configVars, hardwareVars
  <1> QED
    BY <1>1, <1>2, <1>3, <1>5, <1>6, <1>7, <1>8, <1>9, <1>10 DEF Next, Write

\* Type correctness of the I-block for every matrix size.
THEOREM TypeCorrect == Spec => []TypeOK
  BY TypeInit, TypeStep, PTL DEF Spec

-----------------------------------------------------------------------------
(* No input is split between two outputs. *)

\* Every change of the connections keeps inputs unsplit.
LEMMA SplitStep == TypeOK /\ NoInputIsSplit /\ [Next]_vars => NoInputIsSplit'
  <1> SUFFICES ASSUME TypeOK, NoInputIsSplit, [Next]_vars PROVE NoInputIsSplit'
    OBVIOUS
  <1>1. ASSUME NEW input \in Inputs, NEW output \in Outputs, NEW exclusive \in BOOLEAN,
               ~Elsewhere(input, output), outputs' = Connected(input, output, exclusive)
        PROVE  NoInputIsSplit'
    BY <1>1 DEF Elsewhere, Connected, NoInputIsSplit, TypeOK
  <1>2. ASSUME NEW input \in Inputs, NEW output \in Outputs,
               \/ outputs' = [outputs EXCEPT ![output] = @ \ {input}]
               \/ outputs' = [outputs EXCEPT ![output] = {}]
        PROVE  NoInputIsSplit'
    BY <1>2 DEF NoInputIsSplit, TypeOK
  <1>3. ASSUME outputs' = [o \in Outputs |-> {}] PROVE NoInputIsSplit'
    BY <1>3 DEF NoInputIsSplit
  <1>4. ASSUME UNCHANGED outputs PROVE NoInputIsSplit'
    BY <1>4 DEF NoInputIsSplit
  <1>5. 0 \in Inputs
    BY DEF Inputs
  <1>6. CASE Change
    BY <1>1, <1>2, <1>3, <1>4, <1>5, <1>6
       DEF Change, Connect, DisconnectInput, DisconnectOutput, SetUpscaling, SetUpscales, Reset
  <1>7. CASE Configure
    <2>1. ASSUME NEW input \in Inputs, ConfigInput(input) PROVE NoInputIsSplit'
      <3>1. key \in Outputs
        BY <2>1 DEF ConfigInput, TypeOK
      <3> QED
        BY <1>1, <2>1, <3>1 DEF ConfigInput
    <2>2. ASSUME NEW output \in Outputs, ConfigOutput(output) PROVE NoInputIsSplit'
      BY <1>2, <1>5, <2>2 DEF ConfigOutput
    <2> QED
      BY <1>3, <1>4, <1>7, <2>1, <2>2 DEF Configure, ConfigObject, ConfigList, ConfigEnd, configVars
  <1>8. CASE Write
    BY <1>4, <1>8 DEF Write, WriteBegin, WriteUpscalingFails, SkipOutput, SendCommand, TransferFails,
       WriteEnd, configVars
  <1>9. CASE UNCHANGED vars
    BY <1>4, <1>9 DEF vars, configVars
  <1> QED
    BY <1>6, <1>7, <1>8, <1>9 DEF Next

\* connect() and the configuration never split an input, for every matrix size.
THEOREM InputsAreNotSplit == Spec => []NoInputIsSplit
  <1>1. Init => NoInputIsSplit
    BY DEF Init, NoInputIsSplit
  <1> QED
    BY <1>1, TypeInit, TypeStep, SplitStep, PTL DEF Spec

-----------------------------------------------------------------------------
(* write_outputs() *)

\* The crosspoints the loops have been at.
Visited(o, i) == o < output_idx \/ (o = output_idx /\ i < input_idx)

ChipOutputs == 0 .. HalfOutputs - 1
ChipInputs == 0 .. HalfInputs - 1

\* So far the wanted ones among them are closed.
ClosedInv ==
  \A c \in Chips, o \in ChipOutputs, i \in ChipInputs :
    Closed(c, o, i) <=> Visited(o, i) /\ Wanted(c, o, i)

\* Repeating a word changes nothing: it closes what is closed, or it opens the first
\* crosspoint of a chip on which everything is open.
RepeatInv ==
  \A c \in Chips :
    \/ remembered_command[c] = ZeroWord /\ matrix[c] = {}
    \/ /\ remembered_command[c].connect
       /\ <<remembered_command[c].output, remembered_command[c].input>> \in matrix[c]

WriteInv ==
  /\ pc \in {"write", "written"} => scaling_register = scaling_factors
  /\ pc = "write" => ClosedInv /\ RepeatInv
  /\ WrittenIsConfigured

\* A command closes the wanted crosspoints the loops are at, and nothing else changes.
LEMMA CommandEffect ==
  ASSUME TypeOK, ClosedInv, RepeatInv, AtOutput
  PROVE  \A c \in Chips :
           Synced(Command)[c] = IF Wanted(c, output_idx, input_idx)
                                  THEN matrix[c] \cup {<<output_idx, input_idx>>} ELSE matrix[c]
  <1> SUFFICES ASSUME NEW c \in Chips
               PROVE Synced(Command)[c] = IF Wanted(c, output_idx, input_idx)
                                  THEN matrix[c] \cup {<<output_idx, input_idx>>} ELSE matrix[c]
    OBVIOUS
  <1>1. CASE Wanted(c, output_idx, input_idx)
    BY <1>1, CommandTypes DEF Synced
  <1>2. CASE ~Wanted(c, output_idx, input_idx)
    <2>1. Command[c] = remembered_command[c]
      BY <1>2, CommandTypes
    <2>2. CASE remembered_command[c] = ZeroWord /\ matrix[c] = {}
      BY <1>2, <2>1, <2>2 DEF Synced, ZeroWord
    <2>3. CASE /\ remembered_command[c].connect
               /\ <<remembered_command[c].output, remembered_command[c].input>> \in matrix[c]
      BY <1>2, <2>1, <2>3 DEF Synced
    <2> QED
      BY <2>2, <2>3 DEF RepeatInv
  <1> QED
    BY <1>1, <1>2

\* The loops advance by one crosspoint of each chip.
LEMMA NextVisited ==
  ASSUME TypeOK, AtOutput, NextInput
  PROVE  \A o \in ChipOutputs, i \in ChipInputs :
           Visited(o, i)' <=> Visited(o, i) \/ (o = output_idx /\ i = input_idx)
  BY DEF TypeOK, AtOutput, NextInput, Visited, ChipOutputs, ChipInputs

\* One iteration of the inner loop.
LEMMA SendStep ==
  ASSUME TypeOK, WriteInv, SendCommand
  PROVE  WriteInv'
  <1>1. AtOutput /\ NextInput /\ pc = "write" /\ pc' = "write" /\ ClosedInv /\ RepeatInv
        /\ UNCHANGED <<outputs, scaling_factors, scaling_register>>
    BY DEF SendCommand, AtOutput, WriteInv, configVars
  <1>2. \A c \in Chips :
          matrix'[c] = IF Wanted(c, output_idx, input_idx)
                         THEN matrix[c] \cup {<<output_idx, input_idx>>} ELSE matrix[c]
    <2>1. CASE actual_data
      BY <1>1, <2>1, CommandEffect DEF SendCommand
    <2>2. CASE ~actual_data
      BY <2>2 DEF SendCommand, actual_data
    <2> QED
      BY <2>1, <2>2
  <1>3. ASSUME NEW c \in Chips, NEW o, NEW i PROVE Wanted(c, o, i)' <=> Wanted(c, o, i)
    BY <1>1 DEF Wanted
  <1>4. ClosedInv'
    <2> SUFFICES ASSUME NEW c \in Chips, NEW o \in ChipOutputs, NEW i \in ChipInputs
                 PROVE (<<o, i>> \in matrix'[c]) <=> (Visited(o, i)' /\ Wanted(c, o, i)')
      BY DEF ClosedInv, Closed, ChipOutputs, ChipInputs
    <2>1. <<o, i>> \in matrix[c] <=> Visited(o, i) /\ Wanted(c, o, i)
      BY <1>1 DEF ClosedInv, Closed
    <2>2. Visited(o, i)' <=> Visited(o, i) \/ (o = output_idx /\ i = input_idx)
      BY <1>1, NextVisited
    <2>3. Wanted(c, o, i)' <=> Wanted(c, o, i)
      BY <1>3
    <2>4. CASE o = output_idx /\ i = input_idx
      <3>1. <<o, i>> \in matrix'[c] <=> Wanted(c, o, i)
        <4>1. CASE Wanted(c, o, i)
          <5>1. matrix'[c] = matrix[c] \cup {<<o, i>>}
            BY <1>2, <2>4, <4>1
          <5> QED
            BY <4>1, <5>1
        <4>2. CASE ~Wanted(c, o, i)
          <5>1. matrix'[c] = matrix[c]
            BY <1>2, <2>4, <4>2
          <5> QED
            BY <2>1, <4>2, <5>1
        <4> QED
          BY <4>1, <4>2
      <3> QED
        BY <2>2, <2>3, <2>4, <3>1
    <2>5. CASE ~(o = output_idx /\ i = input_idx)
      <3>1. <<o, i>> # <<output_idx, input_idx>>
        BY <2>5
      <3>2. <<o, i>> \in matrix'[c] <=> <<o, i>> \in matrix[c]
        BY <1>2, <3>1
      <3> QED
        BY <2>1, <2>2, <2>3, <2>5, <3>2
    <2> QED
      BY <2>4, <2>5
  <1>5. RepeatInv'
    <2> SUFFICES ASSUME NEW c \in Chips
                 PROVE \/ remembered_command'[c] = ZeroWord /\ matrix'[c] = {}
                       \/ /\ remembered_command'[c].connect
                          /\ <<remembered_command'[c].output, remembered_command'[c].input>> \in matrix'[c]
      BY DEF RepeatInv
    <2>1. CASE Wanted(c, output_idx, input_idx)
      <3>1. actual_data
        BY <2>1 DEF actual_data
      <3>2. remembered_command'[c] = [connect |-> TRUE, output |-> output_idx, input |-> input_idx]
        BY <1>1, <2>1, <3>1, CommandTypes DEF SendCommand
      <3>3. /\ remembered_command'[c].connect = TRUE
            /\ remembered_command'[c].output = output_idx /\ remembered_command'[c].input = input_idx
        BY <3>2
      <3>4. matrix'[c] = matrix[c] \cup {<<output_idx, input_idx>>}
        BY <1>2, <2>1
      <3>5. <<output_idx, input_idx>> \in matrix'[c]
        BY <3>4
      <3> QED
        BY <3>3, <3>5
    <2>2. CASE ~Wanted(c, output_idx, input_idx)
      <3>1. remembered_command'[c] = remembered_command[c]
        BY <1>1, <2>2, CommandTypes DEF SendCommand
      <3> QED
        BY <1>1, <1>2, <2>2, <3>1 DEF RepeatInv
    <2> QED
      BY <2>1, <2>2
  <1> QED
    BY <1>1, <1>4, <1>5 DEF WriteInv, WrittenIsConfigured

\* Every step keeps the invariant of write_outputs().
LEMMA WriteStep == TypeOK /\ WriteInv /\ [Next]_vars => WriteInv'
  <1> SUFFICES ASSUME TypeOK, WriteInv, [Next]_vars PROVE WriteInv'
    OBVIOUS
  <1>1. CASE Change \/ Configure \/ WriteUpscalingFails \/ TransferFails
    <2>1. pc' \notin {"write", "written"}
      BY <1>1 DEF Change, Connect, DisconnectInput, DisconnectOutput, SetUpscaling, SetUpscales, Reset, Configure,
         ConfigObject, ConfigList, ConfigEnd, ConfigOutput, ConfigInput, WriteUpscalingFails, TransferFails
    <2> QED
      BY <2>1 DEF WriteInv, WrittenIsConfigured
  <1>2. CASE WriteBegin
    <2>1. /\ pc' = "write" /\ scaling_register' = scaling_factors'
          /\ output_idx' = 0 /\ input_idx' = 0
          /\ \A c \in Chips : matrix'[c] = {} /\ remembered_command'[c] = ZeroWord
      BY <1>2 DEF WriteBegin, LoopInit, ResetMatrix, configVars
    <2>2. ClosedInv'
      BY <2>1 DEF ClosedInv, Closed, Visited, ChipOutputs, ChipInputs
    <2>3. RepeatInv'
      BY <2>1 DEF RepeatInv
    <2> QED
      BY <2>1, <2>2, <2>3 DEF WriteInv, WrittenIsConfigured
  <1>3. CASE SkipOutput
    <2>1. /\ pc = "write" /\ pc' = "write" /\ ClosedInv /\ RepeatInv
          /\ output_idx' = output_idx + 1 /\ input_idx = 0 /\ input_idx' = 0
          /\ UNCHANGED <<configVars, hardwareVars, remembered_command>>
      BY <1>3 DEF SkipOutput, WriteInv
    <2>2. \A c \in Chips, i \in ChipInputs : ~Wanted(c, output_idx, i)
      <3>1. \A c \in Chips : outputs[output_idx + c[1] * HalfOutputs] = {}
        <4> SUFFICES ASSUME NEW c \in Chips PROVE outputs[output_idx + c[1] * HalfOutputs] = {}
          OBVIOUS
        <4>1. c[1] \in {0, 1}
          BY DEF Chips
        <4>2. output_idx + 0 * HalfOutputs = output_idx /\ output_idx + 1 * HalfOutputs = output_idx + HalfOutputs
          BY DEF TypeOK
        <4> QED
          BY <1>3, <4>1, <4>2 DEF SkipOutput
      <3> QED
        BY <3>1 DEF Wanted
    <2>3. ClosedInv'
      <3> SUFFICES ASSUME NEW c \in Chips, NEW o \in ChipOutputs, NEW i \in ChipInputs
                   PROVE (<<o, i>> \in matrix'[c]) <=> (Visited(o, i)' /\ Wanted(c, o, i)')
        BY DEF ClosedInv, Closed, ChipOutputs, ChipInputs
      <3>1. <<o, i>> \in matrix[c] <=> Visited(o, i) /\ Wanted(c, o, i)
        BY <2>1 DEF ClosedInv, Closed
      <3>2. Visited(o, i)' <=> Visited(o, i) \/ o = output_idx
        BY <2>1 DEF Visited, TypeOK, ChipOutputs, ChipInputs
      <3>3. Wanted(c, o, i)' <=> Wanted(c, o, i)
        BY <2>1 DEF Wanted, configVars
      <3> QED
        BY <2>1, <2>2, <3>1, <3>2, <3>3 DEF hardwareVars
    <2>4. RepeatInv'
      BY <2>1 DEF RepeatInv, hardwareVars
    <2> QED
      BY <1>3, <2>1, <2>3, <2>4 DEF WriteInv, WrittenIsConfigured, configVars, hardwareVars
  <1>4. CASE SendCommand
    BY <1>4, SendStep
  <1>5. CASE WriteEnd
    <2>1. \A c \in Chips, o \in ChipOutputs, i \in ChipInputs : Closed(c, o, i) <=> Wanted(c, o, i)
      BY <1>5 DEF WriteEnd, WriteInv, ClosedInv, Visited, ChipOutputs, TypeOK
    <2>2. WrittenIsConfigured'
      BY <1>5, <2>1 DEF WriteEnd, WriteInv, WrittenIsConfigured, Closed, Wanted, ChipOutputs, ChipInputs,
         configVars, hardwareVars
    <2> QED
      BY <1>5, <2>2 DEF WriteEnd, WriteInv, configVars, hardwareVars
  <1>6. CASE UNCHANGED vars
    <2>1. UNCHANGED <<outputs, scaling_factors, matrix, scaling_register, pc, output_idx, input_idx,
                      remembered_command>>
      BY <1>6 DEF vars, configVars, hardwareVars, loopVars
    <2> QED
      BY <2>1 DEF WriteInv, WrittenIsConfigured, ClosedInv, RepeatInv, Closed, Wanted, Visited
  <1> QED
    BY <1>1, <1>2, <1>3, <1>4, <1>5, <1>6 DEF Next, Write

\* After a successful write_to_hardware() the hardware is as configured, for every size of the matrix.
THEOREM MatrixIsWritten == Spec => []WrittenIsConfigured
  <1>1. Init => WriteInv
    BY DEF Init, WriteInv, WrittenIsConfigured
  <1>2. WriteInv => WrittenIsConfigured
    BY DEF WriteInv
  <1> QED
    BY <1>1, <1>2, TypeInit, TypeStep, WriteStep, PTL DEF Spec

\* While it writes, write_outputs() closes no crosspoint that is not configured.
THEOREM NoForeignCrosspoint == Spec => []NothingElseIsClosed
  <1>1. Init => WriteInv
    BY DEF Init, WriteInv, WrittenIsConfigured
  <1>2. WriteInv => NothingElseIsClosed
    BY DEF WriteInv, NothingElseIsClosed, ClosedInv, ChipOutputs, ChipInputs
  <1> QED
    BY <1>1, <1>2, TypeInit, TypeStep, WriteStep, PTL DEF Spec

\* The I-block as a whole, for every size of the matrix: ranges, the written configuration,
\* no foreign crosspoint and no split input.
THEOREM MatrixSafe == Spec => []MatrixIsSafe
  BY TypeCorrect, MatrixIsWritten, NoForeignCrosspoint, InputsAreNotSplit, PTL DEF MatrixIsSafe
=============================================================================
