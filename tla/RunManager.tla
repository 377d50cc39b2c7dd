----------------------------- MODULE RunManager -----------------------------
(***************************************************************************)
(* The run queue and the mode control of the analog computer:              *)
(* RunManager, FlexIOControl, RealManualControl, the handlers of start_run, *)
(* stop_run and manual_mode, and the main loop that calls them.            *)
(*                                                                         *)
(* The main program is a single thread: it handles messages, then serves   *)
(* the run at the head of the queue to its end.  The FlexIO state machine  *)
(* runs beside it, driven by its timers, the overload line and the sync    *)
(* line.  What a streaming run does with the data is module FlexIODAQ.     *)
(***************************************************************************)
EXTENDS Integers, Sequences

CONSTANTS
  RunConfigs,   \* the run requests clients send, see RunConfig below
  MaxRuns       \* bound on the number of accepted runs

\* RunConfig and the validity of what comes with it: times_ok, the times are within
\* the bounds of FlexIOControl::init(); daq_ok, FlexIODAQ::init() accepts daq_config;
\* sampling, num_channels is not zero.
RunConfig == [streaming : BOOLEAN, repetitive : BOOLEAN, halt_on_overload : BOOLEAN,
              write_run_state_changes : BOOLEAN, times_ok : BOOLEAN, daq_ok : BOOLEAN,
              sampling : BOOLEAN]

ASSUME RunConfigsAssumption == RunConfigs \subseteq RunConfig
ASSUME MaxRunsAssumption == MaxRuns \in Nat

VARIABLES
  queue,        \* RunManager::queue, records [serial, config]
  submitted,    \* runs accepted so far; serial numbers count from 1
  pc,           \* where the main program is
  run,          \* the copy of queue.front() that run_next() works on
  daq_error,
  _is_enabled,  \* FLEXEN
  SHIFTSTATE,   \* "idle" | "ic" | "op" | "end" | "overload"
  on_overload,  \* the overload behaviour the state machine is configured for
  pins,         \* PIN_MODE_IC and PIN_MODE_OP: "flexio" | "input"
  report,       \* the latest state change sent to the clients
  manual,       \* history: the mode manual_mode set, "none" once a run has begun
  synced,       \* history: the sync line started the state machine since then
  operated      \* history: the run being served has left OP by itself

queueVars == <<queue, submitted>>
modeVars  == <<_is_enabled, SHIFTSTATE, on_overload, pins>>
histVars  == <<manual, synced, operated>>
vars == <<queueVars, pc, run, daq_error, modeVars, report, histVars>>

NoRun == [serial |-> 0, config |-> [streaming |-> FALSE, repetitive |-> FALSE,
          halt_on_overload |-> FALSE, write_run_state_changes |-> FALSE,
          times_ok |-> FALSE, daq_ok |-> FALSE, sampling |-> FALSE]]

\* The end of setup(): FlexIOControl is initialised, RealManualControl::to_ic().
Init ==
  /\ queue = <<>> /\ submitted = 0
  /\ pc = "loop" /\ run = NoRun /\ daq_error = FALSE
  /\ _is_enabled = FALSE /\ SHIFTSTATE = "ic" /\ on_overload = "HALT" /\ pins = "flexio"
  /\ report = [serial |-> 0, state |-> "NEW"]
  /\ manual = "ic" /\ synced = FALSE /\ operated = FALSE

-----------------------------------------------------------------------------
(* The FlexIO state machine (the state tables written by FlexIOControl::init). *)

\* s_ic -> s_op and s_op -> s_end when the timer of the state expires.
TimerExpires ==
  /\ _is_enabled /\ SHIFTSTATE \in {"ic", "op"}
  /\ SHIFTSTATE' = IF SHIFTSTATE = "ic" THEN "op" ELSE "end"
  /\ operated' = (operated \/ SHIFTSTATE = "op")
  /\ UNCHANGED <<queueVars, pc, run, daq_error, _is_enabled, on_overload, pins, report,
                 manual, synced>>

\* s_op -> s_overload.
Overload ==
  /\ _is_enabled /\ SHIFTSTATE = "op" /\ on_overload = "HALT"
  /\ SHIFTSTATE' = "overload" /\ operated' = TRUE
  /\ UNCHANGED <<queueVars, pc, run, daq_error, _is_enabled, on_overload, pins, report,
                 manual, synced>>

\* s_idle -> s_ic on the sync trigger: `case Sync::NONE` falls through to the
\* configuration of MASTER and SLAVE.
SyncTrigger ==
  /\ _is_enabled /\ SHIFTSTATE = "idle"
  /\ SHIFTSTATE' = "ic" /\ synced' = TRUE
  /\ UNCHANGED <<queueVars, pc, run, daq_error, _is_enabled, on_overload, pins, report,
                 manual, operated>>

Hardware == TimerExpires \/ Overload \/ SyncTrigger

-----------------------------------------------------------------------------
(* Message handlers.  They run to completion, between two runs. *)

\* Messages are only handled when loop() gets to them.
Anytime == TRUE
InLoop == pc = "loop"

\* end_repetitive_runs()
EndRepetitive(q) == IF q = <<>> THEN q ELSE [q EXCEPT ![1].config.repetitive = FALSE]

\* start_run(), for a request with an id; one without it changes nothing.
StartRun(config, end_repetitive, clear_queue) ==
  LET kept == IF clear_queue THEN <<>>
              ELSE IF end_repetitive THEN EndRepetitive(queue) ELSE queue
  IN
  /\ InLoop /\ submitted < MaxRuns
  /\ submitted' = submitted + 1
  /\ queue' = Append(kept, [serial |-> submitted + 1, config |-> config])
  /\ UNCHANGED <<pc, run, daq_error, modeVars, report, histVars>>

\* StopRunRequestHandler; it fails, changing nothing, when the queue is empty.
StopRun ==
  /\ InLoop /\ queue # <<>>
  /\ queue' = EndRepetitive(queue)
  /\ UNCHANGED <<submitted, pc, run, daq_error, modeVars, report, histVars>>

IsDoneUnlessOp == SHIFTSTATE # "op"
IsDone == SHIFTSTATE \in {"end", "overload"}

can_manual_control ==
  /\ queue = <<>>
  /\ ~(_is_enabled /\ ~IsDone /\ SHIFTSTATE # "idle")

\* RealManualControl::enable() takes the state machine's clock away.
KeepsClock == _is_enabled
ManualEnable == FALSE

\* RealManualControl::to_ic(), to_op(), to_halt()
ManualMode(to) ==
  /\ InLoop /\ can_manual_control
  /\ _is_enabled' = ManualEnable /\ SHIFTSTATE' = to
  /\ manual' = to /\ synced' = FALSE
  /\ UNCHANGED <<queueVars, pc, run, daq_error, on_overload, pins, report, operated>>

\* MIntBlock::reset() with OVERLOAD_RESET, by a reset message: manual control and IC without
\* asking can_manual_control(), whatever waits in the queue or was left running.
OverloadReset ==
  /\ InLoop
  /\ _is_enabled' = ManualEnable /\ SHIFTSTATE' = "ic"
  /\ manual' = "ic" /\ synced' = FALSE
  /\ UNCHANGED <<queueVars, pc, run, daq_error, on_overload, pins, report, operated>>

\* toMinion() turns both pins into inputs.
ToMinion ==
  /\ InLoop /\ can_manual_control
  /\ pins' = "input"
  /\ UNCHANGED <<queueVars, pc, run, daq_error, _is_enabled, SHIFTSTATE, on_overload,
                 report, histVars>>

Handlers ==
  \/ \E config \in RunConfigs, end_repetitive, clear_queue \in BOOLEAN :
       StartRun(config, end_repetitive, clear_queue)
  \/ StopRun
  \/ \E to \in {"ic", "op", "idle"} : ManualMode(to)
  \/ OverloadReset \/ ToMinion

-----------------------------------------------------------------------------
(* run_next() *)

\* process_out_of_band_handlers(): the head of the queue is copied, and served.
RunNext ==
  /\ InLoop /\ queue # <<>>
  /\ run' = Head(queue) /\ daq_error' = FALSE
  /\ pc' = IF Head(queue).config.streaming THEN "reset" ELSE "to_ic"
  /\ manual' = "none" /\ synced' = FALSE /\ operated' = FALSE
  /\ UNCHANGED <<queueVars, modeVars, report>>

Report(state) == report' = [serial |-> run.serial, state |-> state]

\* daq_.reset() and FlexIOControl::reset()
FlexIOReset ==
  /\ pc = "reset"
  /\ _is_enabled' = FALSE /\ SHIFTSTATE' = "idle" /\ pc' = "init"
  /\ UNCHANGED <<queueVars, run, daq_error, on_overload, pins, report, histVars>>

\* FLEXEN at the end of FlexIOControl::init()
NotEnabled == FALSE
Enabled == TRUE

\* FlexIOControl::init(); it returns early, with FlexIO disabled, on bad times.
FlexIOInit ==
  /\ pc = "init" /\ run.config.times_ok
  /\ _is_enabled' = Enabled /\ pins' = "flexio" /\ pc' = "daq_init"
  /\ on_overload' = IF run.config.halt_on_overload THEN "HALT" ELSE "IGNORE"
  /\ UNCHANGED <<queueVars, run, daq_error, SHIFTSTATE, report, histVars>>

FlexIOInitFails ==
  /\ pc = "init" /\ ~run.config.times_ok
  /\ Report("ERROR") /\ pc' = "pop"
  /\ UNCHANGED <<queueVars, run, daq_error, modeVars, histVars>>

\* FlexIODAQ::init(); FlexIO stays enabled when it fails.
DaqInit ==
  /\ pc = "daq_init" /\ run.config.daq_ok
  /\ pc' = "start"
  /\ UNCHANGED <<queueVars, run, daq_error, modeVars, report, histVars>>

DaqInitFails ==
  /\ pc = "daq_init" /\ ~run.config.daq_ok
  /\ Report("ERROR") /\ pc' = "pop"
  /\ UNCHANGED <<queueVars, run, daq_error, modeVars, histVars>>

\* daq_.enable(), FlexIOControl::force_start()
ForceStart ==
  /\ pc = "start"
  /\ SHIFTSTATE' = "ic" /\ operated' = FALSE /\ pc' = "poll"
  /\ UNCHANGED <<queueVars, run, daq_error, _is_enabled, on_overload, pins, report,
                 manual, synced>>

\* The poll loop is left when the state machine is done or when stream() fails.
PollDone ==
  /\ pc = "poll" /\ IsDone
  /\ pc' = "to_end"
  /\ UNCHANGED <<queueVars, run, daq_error, modeVars, report, histVars>>

StreamFails ==
  /\ pc = "poll" /\ ~IsDone /\ run.config.sampling
  /\ daq_error' = TRUE /\ pc' = "to_end"
  /\ UNCHANGED <<queueVars, run, modeVars, report, histVars>>

\* FlexIOControl::to_end()
StateKept == SHIFTSTATE
StateAtEnd == "end"

ToEnd ==
  /\ pc = "to_end"
  /\ SHIFTSTATE' = StateAtEnd /\ pc' = "report"
  /\ UNCHANGED <<queueVars, run, daq_error, _is_enabled, on_overload, pins, report, histVars>>

\* stream(true), finalize() and the report; either call may fail.
FlexIOReport ==
  /\ pc = "report"
  /\ \E fails \in {FALSE, run.config.sampling} :
       Report(IF daq_error \/ fails THEN "ERROR" ELSE "DONE")
  /\ pc' = "pop"
  /\ UNCHANGED <<queueVars, run, daq_error, modeVars, histVars>>

\* run_next_traditional(): each mode change goes through RealManualControl.
TraditionalIC ==
  /\ pc = "to_ic"
  /\ _is_enabled' = ManualEnable /\ SHIFTSTATE' = "ic" /\ pc' = "to_op"
  /\ UNCHANGED <<queueVars, run, daq_error, on_overload, pins, report, histVars>>

TraditionalOP ==
  /\ pc = "to_op"
  /\ _is_enabled' = ManualEnable /\ SHIFTSTATE' = "op" /\ pc' = "to_halt"
  /\ UNCHANGED <<queueVars, run, daq_error, on_overload, pins, report, histVars>>

\* The report of a traditional run is optional; malloc() may fail.
TraditionalHalt ==
  /\ pc = "to_halt"
  /\ _is_enabled' = ManualEnable /\ SHIFTSTATE' = "idle" /\ operated' = TRUE /\ pc' = "pop"
  /\ \E no_memory \in {FALSE, run.config.sampling} :
       IF run.config.write_run_state_changes
         THEN Report(IF no_memory THEN "ERROR" ELSE "DONE")
         ELSE UNCHANGED report
  /\ UNCHANGED <<queueVars, run, daq_error, on_overload, pins, manual, synced>>

\* if(!run.config.repetitive) queue.pop()
FailedIsRetried ==
  IF run.config.repetitive \/ report.state = "ERROR" THEN queue ELSE Tail(queue)
Remaining == IF run.config.repetitive THEN queue ELSE Tail(queue)

Pop ==
  /\ pc = "pop"
  /\ queue' = Remaining
  /\ pc' = "loop"
  /\ UNCHANGED <<submitted, run, daq_error, modeVars, report, histVars>>

Program ==
  \/ RunNext \/ FlexIOReset \/ FlexIOInit \/ FlexIOInitFails \/ DaqInit \/ DaqInitFails
  \/ ForceStart \/ PollDone \/ ToEnd \/ FlexIOReport
  \/ TraditionalIC \/ TraditionalOP \/ TraditionalHalt \/ Pop

Next == Hardware \/ Handlers \/ Program \/ StreamFails

Spec == Init /\ [][Next]_vars

\* loop() always gets to process_out_of_band_handlers(), and the timers run while
\* FlexIO is enabled.  A data overflow may never come: StreamFails is not fair.
FairSpec == Spec /\ WF_vars(Program) /\ WF_vars(TimerExpires)

-----------------------------------------------------------------------------
(* Properties *)

PCs == {"loop", "reset", "init", "daq_init", "start", "poll", "to_end", "report",
        "to_ic", "to_op", "to_halt", "pop"}

Runs == [serial : Nat, config : RunConfig]

\* Type invariant of the queue, of run_next() and of the mode control.
TypeOK ==
  /\ queue \in Seq(Runs) /\ submitted \in Nat /\ Len(queue) <= submitted
  /\ pc \in PCs /\ run \in Runs /\ daq_error \in BOOLEAN
  /\ _is_enabled \in BOOLEAN /\ SHIFTSTATE \in {"idle", "ic", "op", "end", "overload"}
  /\ on_overload \in {"HALT", "IGNORE"} /\ pins \in {"flexio", "input"}
  /\ report \in [serial : Nat, state : {"NEW", "DONE", "ERROR"}]
  /\ manual \in {"none", "ic", "op", "idle"} /\ synced \in BOOLEAN /\ operated \in BOOLEAN

\* run_next() copies queue.front() and pops later: start_run, stop_run and clear_queue
\* never take away, replace or repeat the run in between, runs are served in the
\* order of acceptance, and none is removed without having been served.
Service == INSTANCE RunService WITH
  accepted <- submitted,
  backlog <- [i \in DOMAIN queue |-> queue[i].serial],
  serving <- IF pc = "loop" THEN 0 ELSE run.serial
ImplementsService == Service!Spec

\* RealManualControl: the mode a client has set holds until a run begins or the client
\* sets another one; neither a timer nor the sync line moves it.
ManualModeHolds == manual # "none" => SHIFTSTATE = manual

\* run_next(): between runs the computer integrates only if a client asked for it, or
\* if the sync line started the state machine.
NoUnattendedOP == (pc = "loop" /\ SHIFTSTATE = "op") => manual = "op" \/ synced

\* run_next_flexio(): a run that is reported DONE has been in OP and was left by its timer
\* or by an overload; a late failure or a sync pulse before the start does not fake it.
DoneHasOperated ==
  (pc = "pop" /\ report = [serial |-> run.serial, state |-> "DONE"]) => operated

\* run_next() returns, whatever the run asks for.
RunReturns == pc # "loop" ~> pc = "loop"

\* process_out_of_band_handlers(): every accepted run leaves the queue, provided that
\* the repetitive runs ahead of it are ended.
QueueDrains ==
  []<>(queue = <<>> \/ ~Head(queue).config.repetitive) =>
    \A s \in 1 .. MaxRuns :
      (\E i \in DOMAIN queue : queue[i].serial = s) ~>
        ~(\E i \in DOMAIN queue : queue[i].serial = s)

=============================================================================
