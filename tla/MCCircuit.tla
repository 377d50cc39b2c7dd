----------------------------- MODULE MCCircuit -----------------------------
(***************************************************************************)
(* IBlock and MBlocks for TLC: how the matrix of the I-block is written,   *)
(* and what is configured, routed and calibrated in a circuit with one     *)
(* lane of slot M0, two of slot M1 and one that leads outside.             *)
(***************************************************************************)
EXTENDS IBlock, MBlocks

VARIABLE part   \* the part that is explored

circuitVars == <<vars, allVars, part>>

MCLanes == {0, 8, 9, 24}
MCInputs == {14, 15}
MCOutputs == {0, 8, 9}
MCCoefficients == {50, 500, 2000}
MCConstants == {-10, 0, 1, 20}
MCIntLanes == {0}
MCStored == {[x |-> 1, y |-> -1, z |-> 0], [x |-> 0, y |-> 9, z |-> 0], [x |-> 0, y |-> 1, z |-> 9]}
MCInitials == {0, 10, 11}
MCTimeFactors == {100, 10000, 1}

MCInit ==
  /\ part \in {"matrix", "circuit"}
  /\ Init /\ MInit
  /\ part = "circuit" => matrix = [c \in Chips |-> {}]

Matrix == part = "matrix" /\ Next /\ UNCHANGED <<allVars, part>>
Circuit == part = "circuit" /\ CNext /\ UNCHANGED <<vars, part>>
Program == part = "circuit" /\ ProgramStep /\ UNCHANGED <<vars, part>>

MCSpec == MCInit /\ [][Matrix \/ Circuit]_circuitVars /\ WF_circuitVars(Program)
=============================================================================
