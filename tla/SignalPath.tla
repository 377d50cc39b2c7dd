----------------------------- MODULE SignalPath -----------------------------
(***************************************************************************)
(* The path of a signal through a cluster: a lane is an output of the      *)
(* U-block, a coefficient of the C-block and an input of the I-block, which *)
(* sums lanes.  The U-block selects for each lane one of 16 inputs or, in  *)
(* place of the inputs of its A or B side, a reference or ground.          *)
(*                                                                         *)
(* The calls of Cluster, the messages that configure U and C-block, and    *)
(* their reset.  A call that fails keeps what it has already changed.      *)
(* Coefficients are hundredths, constants are tenths.                      *)
(***************************************************************************)
EXTENDS Integers, FiniteSets

CONSTANTS
  Lanes, UInputs,     \* bound: the lanes and U-block inputs in use
  IOutputs,           \* outputs of the I-block
  Coefficients,      \* bound: coefficients a client asks for
  Constants,         \* bound: values of "constant" in a message
  MaxCalls           \* bound: calls and messages of the client

ASSUME SignalPathAssumption ==
  /\ Lanes \subseteq 0..31 /\ UInputs \subseteq 0..15 /\ {14, 15} \subseteq UInputs
  /\ IOutputs \subseteq 0..15
  /\ Coefficients \subseteq Int /\ Constants \subseteq Int /\ MaxCalls \in Nat
\* Coefficients are numbers of type float in the code.  Those that are divided by the scale
\* of 10 are chosen such that the result is a whole number of hundredths again.
ASSUME ScaleAssumption == \A f \in Coefficients : f > 100 \/ f < -100 => f % 10 = 0

Modes == {"ANALOG_INPUT", "POS_REF", "NEG_REF", "GROUND"}

VARIABLES
  u,           \* the U-block: output_input_map, a_side_mode, b_side_mode, ref_magnitude
  factors,     \* C-block: factors_
  upscaling,   \* I-block: the lanes with a scale of 10
  out,         \* I-block: the output a lane is connected to, or -1
  stage,          \* "idle", or what is configured: a "list" or an "object" of outputs
  pending,     \* the lanes that it has still to connect
  ok,          \* what the last call returned
  calls        \* bound: calls and messages so far

circuit == <<u, factors, upscaling, out>>
cVars == <<circuit, stage, pending, ok, calls>>

NoConnections == [l \in Lanes |-> -1]
DefaultU == [map |-> NoConnections, a |-> "ANALOG_INPUT", b |-> "ANALOG_INPUT", ref |-> "ONE"]

CInit ==
  /\ u = DefaultU /\ factors = [l \in Lanes |-> 100] /\ upscaling = {} /\ out = NoConnections
  /\ stage = "idle" /\ pending = {} /\ ok = TRUE /\ calls = 0

Ready == stage = "idle" /\ calls < MaxCalls
Called == calls' = calls + 1 /\ UNCHANGED <<stage, pending>>

-----------------------------------------------------------------------------
(* U-block *)

\* Lanes below 16 have the B side at input 15, the others at input 14.
BSide(input, lane) == input = IF lane < 16 THEN 15 ELSE 14

IsInputConnected(v, input) == \E l \in Lanes : v.map[l] = input

\* connect() without force
CanConnect(v, input, lane) ==
  /\ v.map[lane] = -1
  /\ ~BSide(input, lane) /\ v.a # "ANALOG_INPUT" => ~IsInputConnected(v, input)
  /\ BSide(input, lane) /\ v.b # "ANALOG_INPUT" => ~IsInputConnected(v, input)

UConnected(v, input, lane) ==
  [v EXCEPT !.map[lane] = input,
            !.a = IF BSide(input, lane) THEN @ ELSE "ANALOG_INPUT",
            !.b = IF BSide(input, lane) THEN "ANALOG_INPUT" ELSE @]

\* connect_alternative() without force, which is only used for the B side
CanConnectAlternative(v, mode, lane) ==
  /\ v.map[lane] = -1
  /\ mode \in {"POS_REF", "NEG_REF"} => v.ref = "ONE"
  /\ v.b # mode => ~IsInputConnected(v, 14) /\ ~IsInputConnected(v, 15)

Alternative(v, mode, lane) ==
  [v EXCEPT !.map[lane] = IF lane < 16 THEN 15 ELSE 14, !.b = mode]

-----------------------------------------------------------------------------
(* Cluster *)

Upscaled(coefficient) == coefficient > 100 \/ coefficient < -100

\* Mutant: the scale of the I-block is not undone in the coefficient.
Unscaled(coefficient) == IF Upscaled(coefficient) THEN 100 ELSE coefficient

Scaled(coefficient) == IF Upscaled(coefficient) THEN coefficient \div 10 ELSE coefficient

\* set_factor()
InRange(factor) == factor \in -101..101

\* What route() and add_constant() have in common: the scale comes first, then
\* the U-block, the coefficient and the I-block until one refuses.
Route(connects, v, lane, coefficient, output) ==
  LET f == Scaled(coefficient)
      sums == connects /\ InRange(f)
      routed == sums /\ out[lane] \in {-1, output}
  IN  /\ upscaling' = IF Upscaled(coefficient) THEN upscaling \cup {lane} ELSE upscaling \ {lane}
      /\ u' = IF connects THEN v ELSE u
      /\ factors' = IF sums THEN [factors EXCEPT ![lane] = f] ELSE factors
      /\ out' = IF routed THEN [out EXCEPT ![lane] = output] ELSE out
      /\ ok' = routed

route(input, lane, coefficient, output) ==
  /\ Ready /\ Called
  /\ Route(CanConnect(u, input, lane), UConnected(u, input, lane), lane, coefficient, output)

AddConstant(mode, lane, coefficient, output) ==
  Route(CanConnectAlternative(u, mode, lane), Alternative(u, mode, lane), lane, coefficient, output)

add_constant(mode, lane, coefficient, output) ==
  /\ Ready /\ Called
  /\ AddConstant(mode, lane, coefficient, output)

\* External inputs come in behind the C-block, on the last eight lanes.
route_in_external(lane, output) ==
  /\ Ready /\ Called /\ lane >= 24
  /\ out' = IF out[lane] \in {-1, output} THEN [out EXCEPT ![lane] = output] ELSE out
  /\ ok' = (out[lane] \in {-1, output})
  /\ UNCHANGED <<u, factors, upscaling>>

route_out_external(input, lane, coefficient) ==
  /\ Ready /\ Called /\ lane >= 24
  /\ u' = IF CanConnect(u, input, lane) THEN UConnected(u, input, lane) ELSE u
  /\ ok' = (CanConnect(u, input, lane) /\ InRange(coefficient))
  /\ factors' = IF ok' THEN [factors EXCEPT ![lane] = coefficient] ELSE factors
  /\ UNCHANGED <<upscaling, out>>

\* reset(CIRCUIT_RESET)
Cleared ==
  /\ u' = DefaultU /\ factors' = [l \in Lanes |-> 100]
  /\ upscaling' = {} /\ out' = NoConnections

-----------------------------------------------------------------------------
(* Messages: a list gives all outputs of the U-block in order, an object   *)
(* some of them, which are disconnected before the first is connected.     *)

ConfigOutputs(kind, lanes) ==
  /\ Ready
  /\ kind = "list" => lanes = Lanes
  /\ u' = [u EXCEPT !.map = [l \in Lanes |-> IF l \in lanes THEN -1 ELSE u.map[l]]]
  /\ stage' = kind /\ pending' = lanes /\ calls' = calls + 1
  /\ UNCHANGED <<factors, upscaling, out, ok>>

Next_(lane) == stage \in {"list", "object"} /\ lane \in pending /\ (stage = "list" => \A l \in pending : lane <= l)

ConfigNull(lane) ==
  /\ Next_(lane)
  /\ pending' = pending \ {lane}
  /\ UNCHANGED <<circuit, stage, ok, calls>>

ConfigLane(input, lane) ==
  /\ Next_(lane)
  /\ \/ /\ CanConnect(u, input, lane)
        /\ u' = UConnected(u, input, lane)
        /\ pending' = pending \ {lane}
        /\ UNCHANGED <<stage, ok>>
     \/ /\ ~CanConnect(u, input, lane)
        /\ stage' = "idle" /\ pending' = {} /\ ok' = FALSE
        /\ UNCHANGED u
  /\ UNCHANGED <<factors, upscaling, out, calls>>

ConfigDone ==
  /\ stage \in {"list", "object"} /\ pending = {}
  /\ stage' = "idle" /\ ok' = TRUE
  /\ UNCHANGED <<circuit, pending, calls>>

\* _config_constants_from_json(): there is no return after a constant is
\* turned off, so that 0 is refused after all.
Magnitude(constant) == IF constant < 0 THEN -constant ELSE constant

WithConstant(v, constant) ==
  IF constant = 0 THEN [v EXCEPT !.b = "ANALOG_INPUT", !.ref = "ONE"]
  ELSE [v EXCEPT !.b = IF constant > 0 THEN "POS_REF" ELSE "NEG_REF",
                 !.ref = IF Magnitude(constant) = 1 THEN "ONE_TENTH"
                         ELSE IF Magnitude(constant) = 10 THEN "ONE" ELSE @]

ConfigConstant(constant) ==
  /\ Ready /\ Called
  /\ u' = WithConstant(u, constant)
  /\ ok' = (Magnitude(constant) \in {1, 10})
  /\ UNCHANGED <<factors, upscaling, out>>

\* One of the "elements" of the C-block; a message ends at the first it refuses.
ConfigElement(lane, factor) ==
  /\ Ready /\ Called
  /\ factors' = IF InRange(factor) THEN [factors EXCEPT ![lane] = factor] ELSE factors
  /\ ok' = InRange(factor)
  /\ UNCHANGED <<u, upscaling, out>>

\* config_self_to_json() of the U-block
ToJson(v) ==
  [outputs |-> v.map,
   constant |-> LET m == IF v.ref = "ONE_TENTH" THEN 1 ELSE 10
                IN  CASE v.b = "POS_REF" -> m [] v.b = "NEG_REF" -> -m [] OTHER -> 0]

Client ==
  \/ \E l \in Lanes, f \in Coefficients :
       \/ \E i \in UInputs, o \in IOutputs : route(i, l, f, o)
       \/ \E m \in {"POS_REF", "NEG_REF"}, o \in IOutputs : add_constant(m, l, f, o)
       \/ \E i \in UInputs : route_out_external(i, l, f)
       \/ ConfigElement(l, f)
  \/ \E l \in Lanes, o \in IOutputs : route_in_external(l, o)
  \/ \E kind \in {"list", "object"}, lanes \in SUBSET Lanes : ConfigOutputs(kind, lanes)
  \/ \E l \in Lanes : ConfigNull(l) \/ \E i \in UInputs : ConfigLane(i, l)
  \/ ConfigDone
  \/ \E v \in Constants : ConfigConstant(v)
-----------------------------------------------------------------------------
\* What a lane carries into the C-block.
Side(v, l) == IF BSide(v.map[l], l) THEN v.b ELSE v.a
Signal(v, l) ==
  IF v.map[l] = -1 THEN <<"NONE", -1>>
  ELSE IF Side(v, l) = "ANALOG_INPUT" THEN <<"INPUT", v.map[l]>>
  ELSE IF Side(v, l) = "GROUND" THEN <<"GROUND", 0>>
  ELSE <<Side(v, l), v.ref>>

\* What it contributes to the sum on its output.
Coefficient(l) == factors[l] * (IF l \in upscaling THEN 10 ELSE 1)
Term(l) == <<Signal(u, l), Coefficient(l), out[l]>>

\* Types of the configuration: every coefficient is one the C-block can set.
PathTypeOK ==
  /\ u \in [map : [Lanes -> UInputs \cup {-1}], a : Modes, b : Modes, ref : {"ONE", "ONE_TENTH"}]
  /\ factors \in [Lanes -> -101..101]
  /\ upscaling \subseteq Lanes /\ out \in [Lanes -> IOutputs \cup {-1}]
  /\ pending \subseteq Lanes
  /\ ok \in BOOLEAN /\ calls \in 0..MaxCalls

\* A call of route() or add_constant() that succeeds delivers what was asked
\* for: the lane carries the input, or the constant in full, with exactly the
\* coefficient that was given, into the output that was given.
RouteDelivers ==
  [][\A l \in Lanes, f \in Coefficients, o \in IOutputs :
       /\ \A i \in UInputs : route(i, l, f, o) /\ ok' => Term(l)' = <<<<"INPUT", i>>, f, o>>
       /\ \A m \in {"POS_REF", "NEG_REF"} :
            add_constant(m, l, f, o) /\ ok' => Term(l)' = <<<<m, "ONE">>, f, o>>]_cVars

\* What a lane carries is only changed by what is done to that lane: no lane
\* loses its signal because another is connected, although all lanes of a side
\* share one mode.  The exceptions are the message that sets the constant, and a
\* lane that is connected to the input in place of which the constant stands; a
\* calibration that breaks off leaves the A side in a mode that no client sets.
LanesAreIndependent ==
  [][\A l \in Lanes :
       u'.map[l] = u.map[l] /\ Signal(u, l)' # Signal(u, l) =>
         \/ u.a # "ANALOG_INPUT" \/ u'.a # "ANALOG_INPUT"
         \/ \E v \in Constants : ConfigConstant(v)
         \/ \E k \in Lanes \ {l} : u'.map[k] # u.map[k] /\ BSide(u'.map[k], k) /\ u'.b = "ANALOG_INPUT"]_cVars

\* A U-block that is reset and configured from what it has reported carries the
\* same signals again (config_self_to_json, config_self_from_json): "outputs" and
\* "constant" hold all that a client has set.  The message that does it is
\* accepted unless it turns the constant off.
FromJson(json) == WithConstant([DefaultU EXCEPT !.map = json.outputs], json.constant)
ConfigRoundTrips ==
  u.a = "ANALOG_INPUT" /\ u.b # "GROUND" =>
    \A l \in Lanes : Signal(FromJson(ToJson(u)), l) = Signal(u, l)

\* The path as clients rely on it: route() and add_constant() deliver what was asked for,
\* nothing done to one lane changes another, and a report can be sent back.
PathIsKept == RouteDelivers /\ LanesAreIndependent /\ []ConfigRoundTrips
=============================================================================
