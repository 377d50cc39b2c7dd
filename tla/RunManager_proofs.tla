------------------------- MODULE RunManager_proofs --------------------------
(* RunManager implements RunService, for every set of run requests and every *)
(* number of runs.                                                           *)
EXTENDS RunManager, TLAPS

Serials(q) == [i \in DOMAIN q |-> q[i].serial]

\* stop_run changes the configuration of the head and nothing else.
LEMMA EndRepetitiveType ==
  ASSUME NEW q \in Seq(Runs)
  PROVE  /\ EndRepetitive(q) \in Seq(Runs) /\ Serials(EndRepetitive(q)) = Serials(q)
         /\ Len(EndRepetitive(q)) = Len(q)
  <1>1. CASE q = <<>>
    BY <1>1 DEF EndRepetitive
  <1>2. CASE q # <<>>
    <2> DEFINE c == [q[1].config EXCEPT !.repetitive = FALSE]
               r == [q[1] EXCEPT !.config = c]
    <2>1. q[1] \in Runs /\ 1 \in DOMAIN q
      BY <1>2
    <2>2. c \in RunConfig
      BY <2>1 DEF Runs, RunConfig
    <2>3. r \in Runs /\ r.serial = q[1].serial
      BY <2>1, <2>2 DEF Runs
    <2>4. EndRepetitive(q) = [q EXCEPT ![1] = r]
      BY <1>2, <2>1, Zenon DEF EndRepetitive
    <2> HIDE DEF c, r
    <2>5. [q EXCEPT ![1] = r] \in Seq(Runs)
      BY <2>1, <2>3
    <2>6. Serials([q EXCEPT ![1] = r]) = Serials(q)
      BY <2>1, <2>3 DEF Serials
    <2> QED
      BY <2>4, <2>5, <2>6
  <1> QED
    BY <1>1, <1>2

\* Queueing a run appends its number.
LEMMA SerialsAppend ==
  ASSUME NEW q \in Seq(Runs), NEW r \in Runs
  PROVE  Serials(Append(q, r)) = Append(Serials(q), r.serial)
  BY DEF Serials

\* Head and tail of the queue and of its numbers correspond.
LEMMA SerialsHeadTail ==
  ASSUME NEW q \in Seq(Runs), q # <<>>
  PROVE  Serials(q) # <<>> /\ Head(Serials(q)) = Head(q).serial /\ Serials(Tail(q)) = Tail(Serials(q))
  BY DEF Serials

-----------------------------------------------------------------------------
\* What the refinement rests on: the copy run_next() works on is the head of the
\* queue until it is popped.
QueueInv ==
  /\ queue \in Seq(Runs) /\ submitted \in Nat /\ run \in Runs
  /\ \A i \in DOMAIN queue : queue[i].serial # 0
  /\ pc # "loop" => queue # <<>> /\ run.serial = Head(queue).serial

\* Steps that leave the queue alone.
SameQueue == UNCHANGED queueVars /\ UNCHANGED run /\ (pc' = "loop" <=> pc = "loop")

USE RunConfigsAssumption, MaxRunsAssumption

\* setup() leaves an empty queue.
LEMMA QueueInit == Init => QueueInv /\ Service!Init
  BY DEF Init, QueueInv, NoRun, Runs, RunConfig, Service!Init

\* A step that leaves the queue alone is a stutter of the service.
LEMMA SameQueueStep == QueueInv /\ SameQueue => QueueInv' /\ UNCHANGED Service!vars
  BY DEF QueueInv, SameQueue, queueVars, Service!vars

\* A step that serves the run at the head, up to popping it.
Serving ==
  \/ FlexIOReset \/ FlexIOInit \/ FlexIOInitFails \/ DaqInit \/ DaqInitFails
  \/ ForceStart \/ PollDone \/ StreamFails \/ ToEnd \/ FlexIOReport
  \/ TraditionalIC \/ TraditionalOP \/ TraditionalHalt

\* The steps of the hardware and of run_next() between its copy and its pop.
LEMMA QueueUntouched ==
  Hardware \/ Serving \/ OverloadReset \/ ToMinion \/ (\E to \in {"ic", "op", "idle"} : ManualMode(to))
    => SameQueue
  BY DEF Hardware, TimerExpires, Overload, SyncTrigger, Serving, FlexIOReset, FlexIOInit,
         FlexIOInitFails, DaqInit, DaqInitFails, ForceStart, PollDone, StreamFails, ToEnd,
         FlexIOReport, TraditionalIC, TraditionalOP, TraditionalHalt, OverloadReset, ToMinion, ManualMode,
         SameQueue, queueVars, InLoop

\* start_run appends to what it keeps of the queue.
LEMMA StartRunStep ==
  ASSUME QueueInv, NEW config \in RunConfigs, NEW e \in BOOLEAN, NEW c \in BOOLEAN,
         StartRun(config, e, c)
  PROVE  QueueInv' /\ Service!Accept
  <1> DEFINE kept == IF c THEN <<>> ELSE IF e THEN EndRepetitive(queue) ELSE queue
             r == [serial |-> submitted + 1, config |-> config]
  <1>1. /\ pc = "loop" /\ pc' = "loop" /\ submitted' = submitted + 1
        /\ queue' = Append(kept, r) /\ run' = run
    BY DEF StartRun, InLoop
  <1>2. queue \in Seq(Runs) /\ submitted \in Nat /\ run \in Runs
    BY DEF QueueInv
  <1>3. r \in Runs
    BY <1>2 DEF Runs
  <1>4. kept \in Seq(Runs) /\ (kept = <<>> \/ Serials(kept) = Serials(queue))
    BY <1>2, EndRepetitiveType
  <1> HIDE DEF kept
  <1>5. Serials(queue') = Append(Serials(kept), submitted')
    BY <1>1, <1>3, <1>4, SerialsAppend
  <1>6. queue' \in Seq(Runs)
    BY <1>1, <1>3, <1>4
  <1>7. \A i \in DOMAIN kept : kept[i].serial # 0
    <2>1. CASE kept = <<>>
      BY <2>1
    <2>2. CASE Serials(kept) = Serials(queue)
      BY <2>2, <1>4 DEF Serials, QueueInv
    <2> QED
      BY <1>4, <2>1, <2>2
  <1>8. QueueInv'
    BY <1>1, <1>2, <1>3, <1>4, <1>6, <1>7 DEF QueueInv
  <1>9. Serials(queue') \in {Append(Serials(queue), submitted'), <<submitted'>>}
    <2>1. CASE kept = <<>>
      <3>1. Serials(kept) = <<>>
        BY <2>1 DEF Serials
      <3> QED
        BY <1>5, <3>1
    <2>2. CASE Serials(kept) = Serials(queue)
      BY <2>2, <1>5
    <2> QED
      BY <1>4, <2>1, <2>2
  <1> QED
    BY <1>1, <1>8, <1>9 DEF Service!Accept, Serials

\* stop_run
LEMMA StopRunStep == QueueInv /\ StopRun => QueueInv' /\ UNCHANGED Service!vars
  <1> SUFFICES ASSUME QueueInv, StopRun PROVE QueueInv' /\ UNCHANGED Service!vars
    OBVIOUS
  <1>1. /\ pc = "loop" /\ pc' = "loop" /\ submitted' = submitted /\ run' = run
        /\ queue' = EndRepetitive(queue)
    BY DEF StopRun, InLoop
  <1>2. queue' \in Seq(Runs) /\ Serials(queue') = Serials(queue)
    BY <1>1, EndRepetitiveType DEF QueueInv
  <1>3. \A i \in DOMAIN queue' : queue'[i].serial # 0
    BY <1>2 DEF Serials, QueueInv
  <1> QED
    BY <1>1, <1>2, <1>3 DEF QueueInv, Service!vars, Serials

\* process_out_of_band_handlers() and run_next() up to the copy of the head.
LEMMA RunNextStep == QueueInv /\ RunNext => QueueInv' /\ Service!Serve
  <1> SUFFICES ASSUME QueueInv, RunNext PROVE QueueInv' /\ Service!Serve
    OBVIOUS
  <1>1. /\ pc = "loop" /\ pc' # "loop" /\ UNCHANGED <<queue, submitted>> /\ queue # <<>>
        /\ run' = Head(queue)
    BY DEF RunNext, InLoop, queueVars
  <1>2. Head(queue) \in Runs /\ Head(queue).serial # 0
    BY <1>1 DEF QueueInv
  <1>3. Serials(queue) # <<>> /\ Head(Serials(queue)) = Head(queue).serial
    BY <1>1, SerialsHeadTail DEF QueueInv
  <1> QED
    BY <1>1, <1>2, <1>3 DEF QueueInv, Service!Serve, Serials

\* queue.pop()
LEMMA PopStep == QueueInv /\ Pop => QueueInv' /\ Service!Finish
  <1> SUFFICES ASSUME QueueInv, Pop PROVE QueueInv' /\ Service!Finish
    OBVIOUS
  <1>1. /\ pc = "pop" /\ pc' = "loop" /\ submitted' = submitted /\ run' = run
        /\ queue' = queue \/ queue' = Tail(queue)
    BY DEF Pop, Remaining
  <1>2. queue \in Seq(Runs) /\ queue # <<>> /\ run.serial # 0
    BY <1>1 DEF QueueInv
  <1>3. Serials(queue') \in {Serials(queue), Tail(Serials(queue))}
    BY <1>1, <1>2, SerialsHeadTail
  <1>4. queue' \in Seq(Runs) /\ \A i \in DOMAIN queue' : queue'[i].serial # 0
    <2>1. CASE queue' = queue
      BY <2>1 DEF QueueInv
    <2>2. CASE queue' = Tail(queue)
      <3>1. queue' \in Seq(Runs) /\ Len(queue') = Len(queue) - 1
        BY <1>2, <2>2
      <3>2. \A i \in 1 .. Len(queue) - 1 : queue'[i] = queue[i + 1] /\ i + 1 \in DOMAIN queue
        BY <1>2, <2>2
      <3>3. DOMAIN queue' = 1 .. Len(queue) - 1
        BY <3>1
      <3> QED
        BY <3>1, <3>2, <3>3 DEF QueueInv
    <2> QED
      BY <1>1, <2>1, <2>2
  <1> QED
    BY <1>1, <1>2, <1>3, <1>4 DEF QueueInv, Service!Finish, Serials

\* Every step of the run manager is a step of the service or a stutter.
LEMMA ServiceStep == QueueInv /\ [Next]_vars => QueueInv' /\ [Service!Next]_(Service!vars)
  <1> SUFFICES ASSUME QueueInv, [Next]_vars
               PROVE  QueueInv' /\ [Service!Next]_(Service!vars)
    OBVIOUS
  <1>1. CASE Hardware \/ Serving \/ OverloadReset \/ ToMinion \/ (\E to \in {"ic", "op", "idle"} : ManualMode(to))
    BY <1>1, QueueUntouched, SameQueueStep
  <1>2. CASE \E config \in RunConfigs, e, c \in BOOLEAN : StartRun(config, e, c)
    BY <1>2, StartRunStep DEF Service!Next
  <1>3. CASE StopRun
    BY <1>3, StopRunStep
  <1>4. CASE RunNext
    BY <1>4, RunNextStep DEF Service!Next
  <1>5. CASE Pop
    BY <1>5, PopStep DEF Service!Next
  <1>6. CASE UNCHANGED vars
    <2>1. SameQueue
      BY <1>6 DEF vars, SameQueue
    <2> QED
      BY <2>1, SameQueueStep
  <1> QED
    BY <1>1, <1>2, <1>3, <1>4, <1>5, <1>6 DEF Next, Handlers, Program, Serving

\* The run manager keeps its promise: for every mix of requests, runs are served one at a
\* time in the order of acceptance, and none is removed unserved except by clear_queue.
THEOREM RunManagerImplementsService == Spec => ImplementsService
  <1>1. Init => QueueInv /\ Service!Init
    BY QueueInit
  <1>2. QueueInv /\ [Next]_vars => QueueInv' /\ [Service!Next]_(Service!vars)
    BY ServiceStep
  <1> QED
    BY <1>1, <1>2, PTL DEF Spec, ImplementsService, Service!Spec

-----------------------------------------------------------------------------
(* Mode control. *)

ModeTypes ==
  /\ pc \in PCs /\ daq_error \in BOOLEAN /\ _is_enabled \in BOOLEAN
  /\ SHIFTSTATE \in {"idle", "ic", "op", "end", "overload"}
  /\ on_overload \in {"HALT", "IGNORE"} /\ pins \in {"flexio", "input"}
  /\ report.state \in {"NEW", "DONE", "ERROR"}
  /\ manual \in {"none", "ic", "op", "idle"} /\ synced \in BOOLEAN /\ operated \in BOOLEAN

\* Manual control stops the clock of the state machine, until a run begins.
ManualInv == manual # "none" => pc = "loop" /\ ~_is_enabled /\ SHIFTSTATE = manual

\* How far the state machine is when run_next() is at each of its steps.
ProgressInv ==
  /\ pc = "init" => ~_is_enabled /\ SHIFTSTATE = "idle"
  /\ pc \in {"daq_init", "start"} => synced \/ SHIFTSTATE = "idle"
  /\ pc = "poll" => SHIFTSTATE \in {"ic", "op"} \/ operated
  /\ pc \in {"to_end", "report"} => operated \/ daq_error
  /\ pc = "report" => SHIFTSTATE = "end"
  /\ pc \in {"to_op", "to_halt"} => ~_is_enabled
  /\ pc = "pop" => operated \/ report.state = "ERROR"
  /\ (pc = "pop" \/ (pc = "loop" /\ manual = "none"))
       => synced \/ SHIFTSTATE \in {"idle", "end"}

ModeInv == ModeTypes /\ ManualInv /\ ProgressInv

\* setup() leaves the computer in IC, with FlexIO disabled.
LEMMA ModeInit == Init => ModeInv
  <1> SUFFICES ASSUME Init PROVE ModeInv
    OBVIOUS
  <1>1. ModeTypes
    BY DEF Init, ModeTypes, PCs
  <1>2. ManualInv /\ ProgressInv
    BY DEF Init, ManualInv, ProgressInv
  <1> QED
    BY <1>1, <1>2 DEF ModeInv

\* Every step of the hardware, the handlers and the program keeps the invariant.
LEMMA ModeStep == ModeInv /\ [Next]_vars => ModeInv'
  <1> SUFFICES ASSUME ModeInv, [Next]_vars PROVE ModeInv'
    OBVIOUS
  <1> USE DEF ModeInv, ModeTypes, ManualInv, ProgressInv, PCs, modeVars, histVars, InLoop, IsDone,
              ManualEnable, Enabled, StateAtEnd, Report
  <1>1. CASE TimerExpires
    BY <1>1, ZenonT(40) DEF TimerExpires
  <1>2. CASE Overload
    BY <1>2 DEF Overload
  <1>3. CASE SyncTrigger
    BY <1>3 DEF SyncTrigger
  <1>4. CASE StopRun
    BY <1>4 DEF StopRun
  <1>5. CASE ToMinion
    BY <1>5 DEF ToMinion
  <1>6. CASE RunNext
    BY <1>6 DEF RunNext
  <1>7. CASE FlexIOReset
    BY <1>7 DEF FlexIOReset
  <1>8. CASE FlexIOInit
    BY <1>8 DEF FlexIOInit
  <1>9. CASE FlexIOInitFails
    BY <1>9 DEF FlexIOInitFails
  <1>10. CASE DaqInit
    BY <1>10 DEF DaqInit
  <1>11. CASE DaqInitFails
    BY <1>11 DEF DaqInitFails
  <1>12. CASE ForceStart
    BY <1>12 DEF ForceStart
  <1>13. CASE PollDone
    BY <1>13 DEF PollDone
  <1>14. CASE StreamFails
    BY <1>14 DEF StreamFails
  <1>15. CASE ToEnd
    BY <1>15 DEF ToEnd
  <1>16. CASE FlexIOReport
    BY <1>16 DEF FlexIOReport
  <1>17. CASE TraditionalIC
    BY <1>17 DEF TraditionalIC
  <1>18. CASE TraditionalOP
    BY <1>18 DEF TraditionalOP
  <1>19. CASE TraditionalHalt
    <2>1. /\ pc' = "pop" /\ _is_enabled' = FALSE /\ SHIFTSTATE' = "idle" /\ operated' = TRUE
          /\ UNCHANGED <<daq_error, on_overload, pins, manual, synced>>
      BY <1>19 DEF TraditionalHalt
    <2>2. report'.state \in {"NEW", "DONE", "ERROR"}
      BY <1>19 DEF TraditionalHalt
    <2> QED
      BY <1>19, <2>1, <2>2 DEF TraditionalHalt
  <1>20. CASE Pop
    BY <1>20 DEF Pop, Remaining
  <1>21. CASE \E to \in {"ic", "op", "idle"} : ManualMode(to)
    BY <1>21 DEF ManualMode
  <1>24. CASE OverloadReset
    BY <1>24 DEF OverloadReset
  <1>22. CASE \E config \in RunConfigs, e, c \in BOOLEAN : StartRun(config, e, c)
    BY <1>22 DEF StartRun
  <1>23. CASE UNCHANGED vars
    BY <1>23 DEF vars
  <1> QED
    BY <1>1, <1>2, <1>3, <1>4, <1>5, <1>6, <1>7, <1>8, <1>9, <1>10, <1>11, <1>12, <1>13, <1>14, <1>15, <1>16, <1>17, <1>18, <1>19, <1>20, <1>21, <1>22, <1>23, <1>24
       DEF Next, Hardware, Handlers, Program

\* RealManualControl: the mode a client has set holds against timers and sync line.
THEOREM ManualModeIsKept == Spec => []ManualModeHolds
  <1>1. ModeInv => ManualModeHolds
    BY DEF ModeInv, ManualInv, ManualModeHolds
  <1> QED
    BY ModeInit, ModeStep, <1>1, PTL DEF Spec

\* run_next(): no path of it leaves the computer integrating.
THEOREM OPIsAttended == Spec => []NoUnattendedOP
  <1>1. ModeInv => NoUnattendedOP
    BY DEF ModeInv, ModeTypes, ManualInv, ProgressInv, NoUnattendedOP
  <1> QED
    BY ModeInit, ModeStep, <1>1, PTL DEF Spec

\* run_next(): DONE is only reported of a run that has been in OP until its end.
THEOREM DoneRunHasOperated == Spec => []DoneHasOperated
  <1>1. ModeInv => DoneHasOperated
    BY DEF ModeInv, ProgressInv, DoneHasOperated
  <1> QED
    BY ModeInit, ModeStep, <1>1, PTL DEF Spec

-----------------------------------------------------------------------------
\* What the invariants above leave open of the types: the queue is never longer than the
\* number of accepted runs, and a report names a run.
RestTypes ==
  /\ Len(queue) <= submitted
  /\ report \in [serial : Nat, state : {"NEW", "DONE", "ERROR"}]

\* Only start_run lengthens the queue, by the run that it counts.
LEMMA QueueLengthStep == QueueInv /\ RestTypes /\ [Next]_vars => (Len(queue) <= submitted)'
  <1> SUFFICES ASSUME QueueInv, RestTypes, [Next]_vars PROVE Len(queue') <= submitted'
    OBVIOUS
  <1>1. queue \in Seq(Runs) /\ submitted \in Nat /\ Len(queue) <= submitted
    BY DEF QueueInv, RestTypes
  <1>2. CASE Hardware \/ Serving \/ OverloadReset \/ ToMinion \/ (\E to \in {"ic", "op", "idle"} : ManualMode(to))
    BY <1>1, <1>2, QueueUntouched DEF SameQueue, queueVars
  <1>3. CASE \E config \in RunConfigs, e, c \in BOOLEAN : StartRun(config, e, c)
    <2>1. PICK config \in RunConfigs, e \in BOOLEAN, c \in BOOLEAN : StartRun(config, e, c)
      BY <1>3
    <2> DEFINE kept == IF c THEN <<>> ELSE IF e THEN EndRepetitive(queue) ELSE queue
               r == [serial |-> submitted + 1, config |-> config]
    <2>2. queue' = Append(kept, r) /\ submitted' = submitted + 1
      BY <2>1 DEF StartRun
    <2>3. kept \in Seq(Runs) /\ Len(kept) <= Len(queue)
      BY <1>1, EndRepetitiveType
    <2> HIDE DEF kept, r
    <2>4. Len(Append(kept, r)) = Len(kept) + 1
      BY <2>3
    <2> QED
      BY <1>1, <2>2, <2>3, <2>4
  <1>4. CASE StopRun
    BY <1>1, <1>4, EndRepetitiveType DEF StopRun
  <1>5. CASE RunNext \/ UNCHANGED vars
    BY <1>1, <1>5 DEF RunNext, vars, queueVars
  <1>6. CASE Pop
    <2>1. queue # <<>>
      BY <1>6 DEF Pop, QueueInv
    <2>2. Len(Tail(queue)) <= Len(queue)
      BY <1>1, <2>1
    <2> QED
      BY <1>1, <1>6, <2>2 DEF Pop, Remaining
  <1> QED
    BY <1>2, <1>3, <1>4, <1>5, <1>6 DEF Next, Handlers, Program, Serving

\* A report carries the number of the run that is served.
LEMMA ReportStep ==
  QueueInv /\ RestTypes /\ [Next]_vars => (report \in [serial : Nat, state : {"NEW", "DONE", "ERROR"}])'
  <1> SUFFICES ASSUME QueueInv, RestTypes, [Next]_vars
               PROVE  report' \in [serial : Nat, state : {"NEW", "DONE", "ERROR"}]
    OBVIOUS
  <1>1. run.serial \in Nat /\ report \in [serial : Nat, state : {"NEW", "DONE", "ERROR"}]
    BY DEF QueueInv, RestTypes, Runs
  <1>2. report' = report \/ \E state \in {"DONE", "ERROR"} : Report(state)
    BY DEF Next, Hardware, TimerExpires, Overload, SyncTrigger, Handlers, StartRun, StopRun, ManualMode,
           OverloadReset, ToMinion, Program, RunNext, FlexIOReset, FlexIOInit, FlexIOInitFails, DaqInit,
           DaqInitFails, ForceStart, PollDone, StreamFails, ToEnd, FlexIOReport, TraditionalIC,
           TraditionalOP, TraditionalHalt, Pop, vars
  <1> QED
    BY <1>1, <1>2 DEF Report

\* The queue, run_next() and the mode control keep their types, for every set of requests.
THEOREM TypeCorrect == Spec => []TypeOK
  <1> DEFINE Inv == QueueInv /\ ModeInv /\ RestTypes
  <1>1. Init => Inv
    <2>1. Init => RestTypes
      BY DEF Init, RestTypes
    <2> QED
      BY <2>1, QueueInit, ModeInit
  <1>2. Inv /\ [Next]_vars => Inv'
    BY ServiceStep, ModeStep, QueueLengthStep, ReportStep DEF RestTypes
  <1>3. Inv => TypeOK
    BY DEF QueueInv, ModeInv, ModeTypes, RestTypes, TypeOK
  <1> QED
    BY <1>1, <1>2, <1>3, PTL DEF Spec
=============================================================================
