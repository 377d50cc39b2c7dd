---------------------------- MODULE MCRunManager ----------------------------
(* Runs that tell the paths of run_next() apart.                            *)
EXTENDS RunManager

Streaming(repetitive, halt_on_overload, times_ok, daq_ok) ==
  [streaming |-> TRUE, repetitive |-> repetitive, halt_on_overload |-> halt_on_overload,
   write_run_state_changes |-> TRUE, times_ok |-> times_ok, daq_ok |-> daq_ok,
   sampling |-> TRUE]

Traditional(repetitive, report_it) ==
  [streaming |-> FALSE, repetitive |-> repetitive, halt_on_overload |-> FALSE,
   write_run_state_changes |-> report_it, times_ok |-> TRUE, daq_ok |-> TRUE,
   sampling |-> report_it]

SomeRunConfigs ==
  {Streaming(FALSE, TRUE, TRUE, TRUE), Streaming(TRUE, FALSE, TRUE, FALSE),
   Streaming(TRUE, TRUE, FALSE, TRUE), Traditional(FALSE, FALSE), Traditional(TRUE, TRUE)}
=============================================================================
