------------------------------- MODULE IBlock -------------------------------
(***************************************************************************)
(* The I-block: which lanes (inputs) are summed on which output             *)
(* (platform-lucidac/src/block/iblock).                                     *)
(*                                                                         *)
(* The matrix consists of four crosspoint chips, one per half of the       *)
(* outputs and half of the inputs, that take their commands at the same    *)
(* time from one shift register: whoever switches a crosspoint of one chip *)
(* commands the other three too.  A configuration message is applied piece *)
(* by piece until one piece fails; what it contains is chosen on the way.   *)
(***************************************************************************)
EXTENDS Integers

CONSTANTS
  HalfInputs, HalfOutputs,   \* inputs and outputs of one chip (16 and 8)
  ScaledInputs               \* bound: the inputs whose scale is ever changed

Inputs == 0 .. 2 * HalfInputs - 1
Outputs == 0 .. 2 * HalfOutputs - 1

ASSUME SizeAssumption == HalfInputs \in Nat \ {0} /\ HalfOutputs \in Nat \ {0}
ASSUME ScaledAssumption == ScaledInputs \subseteq Inputs

VARIABLES
  outputs,             \* output -> set of connected inputs
  scaling_factors,     \* inputs scaled by 10
  matrix,              \* chip -> its closed crosspoints <<output, input>>
  scaling_register,    \* scaling_factors in the hardware
  pc,                  \* "idle" | "written" (write_to_hardware() succeeded and nothing
                       \* changed since) | "object", "list" (configuring) | "write"
  key,                 \* the output a configuration is at, -1 before the first
  output_idx, input_idx, remembered_command    \* locals of write_outputs()

configVars == <<outputs, scaling_factors>>
hardwareVars == <<matrix, scaling_register>>
loopVars == <<output_idx, input_idx, remembered_command>>
vars == <<configVars, hardwareVars, pc, key, loopVars>>

Chips == {0, 1} \X {0, 1}     \* <<half of the outputs, half of the inputs>>
Crosspoints == (0 .. HalfOutputs - 1) \X (0 .. HalfInputs - 1)
Words == [connect : BOOLEAN, output : 0 .. HalfOutputs - 1, input : 0 .. HalfInputs - 1]

\* A cleared shift register: it opens the first crosspoint.
ZeroWord == [connect |-> FALSE, output |-> 0, input |-> 0]

Init ==
  /\ outputs = [o \in Outputs |-> {}] /\ scaling_factors = {}
  /\ matrix \in {[c \in Chips |-> {}], [c \in Chips |-> Crosspoints]}
  /\ scaling_register = {}
  /\ pc = "idle" /\ key = -1
  /\ output_idx = 0 /\ input_idx = 0 /\ remembered_command = [c \in Chips |-> ZeroWord]

-----------------------------------------------------------------------------
(* The representation in memory *)

Idle == pc \in {"idle", "written"}

\* The check for input splitting in connect().
Elsewhere(input, output) == \E o \in Outputs \ {output} : input \in outputs[o]

Connected(input, output, exclusive) ==
  [outputs EXCEPT ![output] = IF exclusive THEN {input} ELSE @ \cup {input}]

\* connect(); an index out of range or an input in use elsewhere changes nothing.
Connect(input, output, exclusive) ==
  /\ Idle /\ ~Elsewhere(input, output)
  /\ outputs' = Connected(input, output, exclusive) /\ pc' = "idle"
  /\ UNCHANGED <<scaling_factors, hardwareVars, key, loopVars>>

DisconnectInput(input, output) ==
  /\ Idle /\ input \in outputs[output]
  /\ outputs' = [outputs EXCEPT ![output] = @ \ {input}] /\ pc' = "idle"
  /\ UNCHANGED <<scaling_factors, hardwareVars, key, loopVars>>

DisconnectOutput(output) ==
  /\ Idle
  /\ outputs' = [outputs EXCEPT ![output] = {}] /\ pc' = "idle"
  /\ UNCHANGED <<scaling_factors, hardwareVars, key, loopVars>>

SetUpscaling(input, upscale) ==
  /\ Idle
  /\ scaling_factors' = IF upscale THEN scaling_factors \cup {input} ELSE scaling_factors \ {input}
  /\ pc' = "idle"
  /\ UNCHANGED <<outputs, hardwareVars, key, loopVars>>

\* set_upscaling(scales), with which a calibration puts back the scales it found
SetUpscales(scales) ==
  /\ Idle
  /\ scaling_factors' = scales /\ pc' = "idle"
  /\ UNCHANGED <<outputs, hardwareVars, key, loopVars>>

\* reset(CIRCUIT_RESET)
Reset ==
  /\ Idle
  /\ outputs' = [o \in Outputs |-> {}] /\ scaling_factors' = {} /\ pc' = "idle"
  /\ UNCHANGED <<hardwareVars, key, loopVars>>

-----------------------------------------------------------------------------
(* config_self_from_json() *)

\* An object only overrides the outputs it mentions, a list clears them all.
ConfigObject ==
  /\ Idle
  /\ pc' = "object" /\ key' = -1
  /\ UNCHANGED <<configVars, hardwareVars, loopVars>>

ConfigList ==
  /\ Idle
  /\ outputs' = [o \in Outputs |-> {}]
  /\ pc' = "list" /\ key' = 0
  /\ UNCHANGED <<scaling_factors, hardwareVars, loopVars>>

\* The next output: any in an object, the following one in a list.
ConfigOutput(output) ==
  /\ \/ pc = "object"
     \/ pc = "list" /\ output = key + 1
  /\ outputs' = [outputs EXCEPT ![output] = {}] /\ key' = output
  /\ UNCHANGED <<scaling_factors, hardwareVars, pc, loopVars>>

\* _connect_from_json(), for one input
ConfigInput(input) ==
  /\ pc \in {"object", "list"} /\ key # -1 /\ ~Elsewhere(input, key)
  /\ outputs' = Connected(input, key, FALSE)
  /\ UNCHANGED <<scaling_factors, hardwareVars, pc, key, loopVars>>

\* A malformed or unacceptable piece ends the configuration, and so does its end.
ConfigEnd ==
  /\ pc \in {"object", "list"}
  /\ pc' = "idle" /\ key' = -1
  /\ UNCHANGED <<configVars, hardwareVars, loopVars>>

-----------------------------------------------------------------------------
(* write_to_hardware() *)

\* f_imatrix_reset.trigger() opens all crosspoints.
ResetMatrix == [c \in Chips |-> {}]

LoopInit ==
  /\ output_idx' = 0 /\ input_idx' = 0 /\ remembered_command' = [c \in Chips |-> ZeroWord]

\* write_upscaling(), then the head of write_outputs().
WriteBegin ==
  /\ Idle
  /\ scaling_register' = scaling_factors
  /\ matrix' = ResetMatrix
  /\ LoopInit
  /\ pc' = "write"
  /\ UNCHANGED <<configVars, key>>

WriteUpscalingFails ==
  /\ Idle
  /\ pc' = "idle"
  /\ UNCHANGED <<configVars, hardwareVars, key, loopVars>>

\* outputs[...] & INPUT_BITMASK(...), for a crosspoint of a chip
Wanted(chip, o, i) == (i + chip[2] * HalfInputs) \in outputs[o + chip[1] * HalfOutputs]

\* chip_cmd_word(): indices of the block are reduced to those of the chip.
ConnectWord(chip) == [connect |-> TRUE,
                      output |-> (output_idx + chip[1] * HalfOutputs) % HalfOutputs,
                      input |-> (input_idx + chip[2] * HalfInputs) % HalfInputs]

\* What a chip gets when there is nothing to connect on it.
ClearedWord(chip) == ZeroWord
RepeatedWord(chip) == remembered_command[chip]

Command == [c \in Chips |-> IF Wanted(c, output_idx, input_idx)
                              THEN ConnectWord(c) ELSE RepeatedWord(c)]

actual_data == \E c \in Chips : Wanted(c, output_idx, input_idx)

\* f_imatrix_sync.trigger(): each chip obeys its word.
Synced(command) ==
  [c \in Chips |->
     IF command[c].connect THEN matrix[c] \cup {<<command[c].output, command[c].input>>}
     ELSE matrix[c] \ {<<command[c].output, command[c].input>>}]

\* continue, if neither output has anything connected
SkipOutput ==
  /\ pc = "write" /\ output_idx < HalfOutputs /\ input_idx = 0
  /\ outputs[output_idx] = {} /\ outputs[output_idx + HalfOutputs] = {}
  /\ output_idx' = output_idx + 1
  /\ UNCHANGED <<configVars, hardwareVars, pc, key, input_idx, remembered_command>>

AtOutput ==
  /\ pc = "write" /\ output_idx < HalfOutputs
  /\ input_idx # 0 \/ outputs[output_idx] # {} \/ outputs[output_idx + HalfOutputs] # {}

NextInput ==
  IF input_idx = HalfInputs - 1 THEN output_idx' = output_idx + 1 /\ input_idx' = 0
  ELSE output_idx' = output_idx /\ input_idx' = input_idx + 1

SendCommand ==
  /\ AtOutput /\ NextInput
  /\ IF actual_data
       THEN remembered_command' = Command /\ matrix' = Synced(Command)
       ELSE UNCHANGED <<remembered_command, matrix>>
  /\ UNCHANGED <<configVars, scaling_register, pc, key>>

TransferFails ==
  /\ AtOutput /\ actual_data
  /\ pc' = "idle" /\ LoopInit
  /\ UNCHANGED <<configVars, hardwareVars, key>>

WriteEnd ==
  /\ pc = "write" /\ output_idx = HalfOutputs
  /\ pc' = "written" /\ LoopInit
  /\ UNCHANGED <<configVars, hardwareVars, key>>

-----------------------------------------------------------------------------
Change ==
  \/ \E input \in Inputs, output \in Outputs :
       \/ \E exclusive \in BOOLEAN : Connect(input, output, exclusive)
       \/ DisconnectInput(input, output)
  \/ \E output \in Outputs : DisconnectOutput(output)
  \/ \E input \in ScaledInputs, upscale \in BOOLEAN : SetUpscaling(input, upscale)
  \/ \E scales \in SUBSET ScaledInputs : SetUpscales(scales)
  \/ Reset

Configure ==
  \/ ConfigObject \/ ConfigList \/ ConfigEnd
  \/ \E output \in Outputs : ConfigOutput(output)
  \/ \E input \in Inputs : ConfigInput(input)

Write == WriteBegin \/ WriteUpscalingFails \/ SkipOutput \/ SendCommand \/ TransferFails \/ WriteEnd

Next == Change \/ Configure \/ Write

Spec == Init /\ [][Next]_vars

-----------------------------------------------------------------------------
(* Properties *)

\* Type invariant of the matrix, of its configuration and of write_outputs().
TypeOK ==
  /\ outputs \in [Outputs -> SUBSET Inputs]
  /\ scaling_factors \subseteq Inputs /\ scaling_register \subseteq Inputs
  /\ matrix \in [Chips -> SUBSET Crosspoints]
  /\ pc \in {"idle", "written", "object", "list", "write"} /\ key \in Outputs \cup {-1}
  /\ output_idx \in 0 .. HalfOutputs /\ input_idx \in 0 .. HalfInputs - 1
  /\ remembered_command \in [Chips -> Words]

Closed(chip, o, i) == <<o, i>> \in matrix[chip]

\* write_outputs(): when it has succeeded, exactly the configured crosspoints of all four
\* chips are closed, whatever was closed before and although every command reaches
\* all of them; the scales are the configured ones.
WrittenIsConfigured ==
  pc = "written" =>
    /\ scaling_register = scaling_factors
    /\ \A c \in Chips, o \in 0 .. HalfOutputs - 1, i \in 0 .. HalfInputs - 1 :
         Closed(c, o, i) <=> Wanted(c, o, i)

\* write_outputs(): not even for a moment is a crosspoint closed that is not configured.
NothingElseIsClosed ==
  pc = "write" =>
    \A c \in Chips, o \in 0 .. HalfOutputs - 1, i \in 0 .. HalfInputs - 1 :
      Closed(c, o, i) => Wanted(c, o, i)

\* connect() and config_self_from_json(): no input is ever split between two outputs, also
\* when a configuration ends halfway.
NoInputIsSplit ==
  \A o, p \in Outputs : o # p => outputs[o] \cap outputs[p] = {}

\* The I-block as a whole: words and indices of write_outputs() stay in range, the matrix is
\* written as configured without a foreign crosspoint on the way, and no input is split.
MatrixIsSafe == TypeOK /\ WrittenIsConfigured /\ NothingElseIsClosed /\ NoInputIsSplit
=============================================================================
