----------------------------- MODULE MCCarrier -----------------------------
(***************************************************************************)
(* Carrier for TLC: one circuit with two routes, to be had or not.         *)
(***************************************************************************)
EXTENDS Carrier

\* Routes through lanes 0 and 1, to both groups of outputs, one of them upscaled; the third
\* lane is not connected by the I-block.
TwoRoutes ==
  [u |-> [conn |-> Lanes, modes |-> <<"ANALOG_INPUT", "NEG_REF">>, ref |-> "ONE_TENTH"],
   factors |-> [l \in Lanes |-> IF l = 2 THEN "zero" ELSE "other"],
   i |-> [out |-> [l \in Lanes |-> IF l = 2 THEN -1 ELSE 1 - l], upscaling |-> {1}],
   sh |-> "INJECT", mux |-> "SELECTED", acl |-> "EXTERNAL"]

MCConfigs == {TwoRoutes}

\* A transfer in the cluster fails, or one of the carrier.
MCFailures == {{}, {"U"}, {"CTRL"}}

MCApplied == {{"u", "i"}}
=============================================================================
