----------------------------- MODULE FlexIODAQ -----------------------------
(***************************************************************************)
(* Streaming data acquisition of a FlexIO run (lib/computation/src/daq,     *)
(* RunManager::run_next_flexio and the RunDataNotificationHandler).         *)
(*                                                                         *)
(* Four actors share the DMA ring buffer:                                  *)
(*   - the mode state machine, which opens and closes the OP window;       *)
(*   - the sampler and the DMA channel, which write one data vector (one   *)
(*     value per channel) per major loop and request an interrupt when     *)
(*     half of the buffer and when all of it has been filled;              *)
(*   - the interrupt service routine, which publishes a filled half in     *)
(*     first_data or last_data and records an overflow;                    *)
(*   - the main program, which polls, streams out published halves, and    *)
(*     streams the remainder once the OP window has closed.                *)
(*                                                                         *)
(* A data vector is abstracted to its number, counted from 1 in each run.  *)
(***************************************************************************)
EXTENDS Integers, Sequences

CONSTANTS
  HalfBuffer,   \* data vectors in half of dma::buffer (BUFFER_SIZE / num_channels / 2)
  MaxSamples,   \* bound on the data vectors acquired in one run
  IsrLatency    \* transfers that may happen before a requested interrupt is served

ASSUME HalfBufferAssumption == HalfBuffer \in Nat \ {0}
ASSUME MaxSamplesAssumption == MaxSamples \in Nat
ASSUME IsrLatencyAssumption == IsrLatency \in Nat

VARIABLES
  window,        \* the OP window: "closed" | "open" | "done" (is_done() holds)
  inflight,      \* a sample has been triggered and not yet been transferred
  citer,         \* TCD->CITER, major loops left until the buffer is full
  buffer,        \* dma::buffer, slot -> number of the vector in it (0: cleared)
  acquired,      \* vectors transferred in this run
  irq,           \* interrupt requested and not yet served
  irqAge,        \* transfers since the interrupt was requested
  first_data, last_data, overflow_data,
  partial_buffer_part,  \* function-static of ContinuousDAQ::stream: 0 or HalfBuffer
  daq_config,    \* bool(daq_config): anything to sample in this run
  pc,            \* where run_next_flexio is
  partial,       \* the argument of the current call of stream()
  active,        \* active_buffer_part as a slot number
  outer_count,   \* vectors handle() has to copy
  copied,        \* vectors handle() has copied
  capacity,      \* vectors the prepared message buffer can hold (actual_buffer_length)
  daq_error,
  run_state,     \* RunState reported for the latest run: "NEW" | "DONE" | "ERROR"
  streamed,      \* vectors sent to the clients in this run
  announced,     \* history: halves published by the interrupt in this run
  picked,        \* history: halves taken by stream() in this run
  late           \* history: a half was completed before the previous one was streamed

dmaVars  == <<inflight, citer, buffer, acquired, irq, irqAge, late>>
flagVars == <<first_data, last_data, overflow_data, announced>>
cpuVars  == <<pc, partial, active, outer_count, copied, capacity, daq_error>>
runVars  == <<daq_config, run_state, partial_buffer_part>>
vars == <<window, dmaVars, flagVars, cpuVars, runVars, streamed, picked>>

BITER == 2 * HalfBuffer
Slots == 0 .. BITER - 1

\* get_number_of_data_vectors_in_buffer(); also the slot DADDR points to.
NumVectors == BITER - citer

PCs == {"idle", "poll", "overflow", "first", "last", "clear_first", "clear_last",
        "remainder", "handle", "copy", "delay", "finalize", "crashed"}

Init ==
  /\ window = "closed" /\ inflight = FALSE
  /\ citer = BITER /\ buffer = [s \in Slots |-> 0] /\ acquired = 0
  /\ irq = FALSE /\ irqAge = 0
  /\ first_data = FALSE /\ last_data = FALSE /\ overflow_data = FALSE
  /\ partial_buffer_part = 0 /\ daq_config = FALSE
  /\ pc = "idle" /\ partial = FALSE /\ active = 0 /\ outer_count = 0 /\ copied = 0
  /\ capacity = 0 /\ daq_error = FALSE /\ run_state = "NEW"
  /\ streamed = <<>> /\ announced = 0 /\ picked = 0 /\ late = FALSE

-----------------------------------------------------------------------------
(* The hardware and the interrupt. *)

\* The ADC converts while the gate is open; at most one vector is on its way.
Sample ==
  /\ window = "open" /\ daq_config /\ ~inflight /\ acquired < MaxSamples
  /\ inflight' = TRUE
  /\ UNCHANGED <<window, citer, buffer, acquired, irq, irqAge, late,
                 flagVars, cpuVars, runVars, streamed, picked>>

\* A published or half-copied half of the buffer is still owned by stream().
Behind == first_data \/ last_data \/ pc \in {"handle", "copy"}

\* CITER counts down and is reloaded with BITER at the end of the buffer.
NextCiter == IF citer = 1 THEN BITER ELSE citer - 1

\* One DMA major loop stores a vector (see the TCD set-up in FlexIODAQ::init) and
\* requests an interrupt at half and at full buffer.
Transfer ==
  LET request == NextCiter \in {HalfBuffer, BITER} IN
  /\ inflight
  /\ irq => irqAge < IsrLatency
  /\ inflight' = FALSE
  /\ buffer' = [buffer EXCEPT ![NumVectors] = acquired + 1]
  /\ acquired' = acquired + 1
  /\ citer' = NextCiter
  /\ irq' = (irq \/ request)
  /\ irqAge' = IF irq THEN irqAge + 1 ELSE 0
  /\ late' = (late \/ (request /\ Behind))
  /\ UNCHANGED <<window, flagVars, cpuVars, runVars, streamed, picked>>

\* overflow_data after a half is published: the same half was still flagged.
OverflowOnlyOfLast(is_half) == overflow_data \/ (~is_half /\ last_data)
Overflow(is_half) == overflow_data \/ IF is_half THEN first_data ELSE last_data

\* dma::interrupt()
Interrupt ==
  LET is_half == citer # BITER IN
  /\ irq
  /\ overflow_data' = Overflow(is_half)
  /\ first_data' = (first_data \/ is_half)
  /\ last_data' = (last_data \/ ~is_half)
  /\ announced' = announced + 1
  /\ irq' = FALSE /\ irqAge' = 0
  /\ UNCHANGED <<window, inflight, citer, buffer, acquired, late,
                 cpuVars, runVars, streamed, picked>>

\* OP time is over, or an overload halts the run: s_op -> s_end | s_overload.
OpEnd ==
  /\ window = "open"
  /\ window' = "done"
  /\ UNCHANGED <<dmaVars, flagVars, cpuVars, runVars, streamed, picked>>

-----------------------------------------------------------------------------
(* run_next_flexio *)

\* RunDataNotificationHandler::prepare() lays out a message for half of the buffer.
PreparedCapacity == HalfBuffer

\* prepare(), daq_.reset() and both init() calls, up to entering the poll loop
\* (StartRun) or to reporting an error (StartFails).
ResetForRun(on) ==
  /\ pc = "idle"
  /\ daq_config' = on
  /\ capacity' = PreparedCapacity
  /\ buffer' = [s \in Slots |-> 0]
  /\ first_data' = FALSE /\ last_data' = FALSE /\ overflow_data' = FALSE
  /\ streamed' = <<>> /\ announced' = 0 /\ picked' = 0 /\ late' = FALSE
  /\ acquired' = 0 /\ inflight' = FALSE /\ irq' = FALSE /\ irqAge' = 0
  /\ daq_error' = FALSE
  /\ UNCHANGED <<partial_buffer_part, partial, active, outer_count, copied>>

StartRun ==
  /\ \E on \in BOOLEAN : ResetForRun(on)
  /\ citer' = BITER
  /\ window' = "open" /\ pc' = "poll" /\ run_state' = "NEW"

StartFails ==
  /\ \E on \in BOOLEAN : ResetForRun(on)
  /\ window' = "closed" /\ run_state' = "ERROR"
  /\ UNCHANGED <<citer, pc>>

\* while (!is_done()) { if (!daq_.stream()) ... } and to_end() behind it
PollContinue ==
  /\ pc = "poll" /\ window = "open"
  /\ partial' = FALSE /\ pc' = "overflow"
  /\ UNCHANGED <<window, dmaVars, flagVars, active, outer_count, copied, capacity,
                 daq_error, runVars, streamed, picked>>

PollDone ==
  /\ pc = "poll" /\ window = "done"
  /\ pc' = "delay"
  /\ UNCHANGED <<window, dmaVars, flagVars, partial, active, outer_count, copied,
                 capacity, daq_error, runVars, streamed, picked>>

\* What the 20 us wait for: the vector in flight and its interrupt.
NoWait == TRUE
Settled == ~inflight /\ ~irq

\* delayMicroseconds(20): long enough for the last vector and its interrupt.
Delay ==
  /\ pc = "delay" /\ Settled
  /\ partial' = TRUE /\ pc' = "overflow"
  /\ UNCHANGED <<window, dmaVars, flagVars, active, outer_count, copied, capacity,
                 daq_error, runVars, streamed, picked>>

\* Where stream() returns to.
ResumePolling == "poll"
Resume == IF partial THEN "finalize" ELSE "poll"

\* The two guards at the top of stream(); its failure ends the poll loop.
StreamOverflow ==
  /\ pc = "overflow"
  /\ pc' = IF ~daq_config THEN Resume
           ELSE IF ~overflow_data THEN "first"
           ELSE IF partial THEN "finalize" ELSE "delay"
  /\ daq_error' = (daq_error \/ (daq_config /\ overflow_data))
  /\ window' = IF daq_config /\ overflow_data THEN "done" ELSE window
  /\ UNCHANGED <<dmaVars, flagVars, partial, active, outer_count, copied, capacity,
                 runVars, streamed, picked>>

StreamTestFirst ==
  /\ pc = "first"
  /\ pc' = IF first_data THEN "clear_first" ELSE "last"
  /\ UNCHANGED <<window, dmaVars, flagVars, partial, active, outer_count, copied,
                 capacity, daq_error, runVars, streamed, picked>>

StreamTestLast ==
  /\ pc = "last"
  /\ pc' = IF last_data THEN "clear_last"
           ELSE IF partial THEN "remainder" ELSE Resume
  /\ UNCHANGED <<window, dmaVars, flagVars, partial, active, outer_count, copied,
                 capacity, daq_error, runVars, streamed, picked>>

\* Slot of the second half, dma::buffer.data() + BUFFER_SIZE / 2.
SecondHalfAtStart == 0
SecondHalf == HalfBuffer

\* Take one published half: remember where a remainder would be, clear the flag.
StreamClearFirst ==
  /\ pc = "clear_first"
  /\ active' = 0 /\ partial_buffer_part' = HalfBuffer
  /\ first_data' = FALSE
  /\ outer_count' = HalfBuffer /\ picked' = picked + 1
  /\ pc' = "handle"
  /\ UNCHANGED <<window, dmaVars, last_data, overflow_data, announced, partial, copied,
                 capacity, daq_error, daq_config, run_state, streamed>>

StreamClearLast ==
  /\ pc = "clear_last"
  /\ active' = SecondHalf /\ partial_buffer_part' = 0
  /\ last_data' = FALSE
  /\ outer_count' = HalfBuffer /\ picked' = picked + 1
  /\ pc' = "handle"
  /\ UNCHANGED <<window, dmaVars, first_data, overflow_data, announced, partial, copied,
                 capacity, daq_error, daq_config, run_state, streamed>>

\* outer_count of the remainder. A negative number stands for the size_t that
\* the subtraction wraps around to.
RemainderCount ==
  IF partial_buffer_part = 0 THEN NumVectors ELSE NumVectors - HalfBuffer

\* stream(true) with no half published.
StreamRemainder ==
  /\ pc = "remainder"
  /\ active' = partial_buffer_part
  /\ outer_count' = RemainderCount
  /\ pc' = IF RemainderCount = 0 THEN Resume ELSE "handle"
  /\ UNCHANGED <<window, dmaVars, flagVars, partial, copied, capacity, daq_error,
                 runVars, streamed, picked>>

\* new_buffer_length <= actual_buffer_length, counted in vectors.
FitsStrictly == outer_count >= 0 /\ outer_count < capacity
Fits == outer_count >= 0 /\ outer_count <= capacity

\* Head of RunDataNotificationHandler::handle(): shrink the message, or refuse.
HandleFits ==
  /\ pc = "handle" /\ Fits
  /\ capacity' = outer_count /\ copied' = 0 /\ pc' = "copy"
  /\ UNCHANGED <<window, dmaVars, flagVars, partial, active, outer_count, daq_error,
                 runVars, streamed, picked>>

\* A wrapped count is refused when the 32-bit message length it yields is larger
\* than the prepared one ...
HandleRefuses ==
  /\ pc = "handle" /\ ~Fits
  /\ pc' = Resume
  /\ UNCHANGED <<window, dmaVars, flagVars, partial, active, outer_count, copied,
                 capacity, daq_error, runVars, streamed, picked>>

\* ... and overruns str_buffer when that length wraps around as well.
HandleOverruns ==
  /\ pc = "handle" /\ outer_count < 0
  /\ pc' = "crashed"
  /\ UNCHANGED <<window, dmaVars, flagVars, partial, active, outer_count, copied,
                 capacity, daq_error, runVars, streamed, picked>>

\* One vector is formatted into the message; after the last one it is written.
HandleCopy ==
  /\ pc = "copy"
  /\ IF copied < outer_count
       THEN /\ streamed' = Append(streamed, buffer[active + copied])
            /\ copied' = copied + 1 /\ pc' = pc
       ELSE /\ pc' = Resume
            /\ UNCHANGED <<streamed, copied>>
  /\ UNCHANGED <<window, dmaVars, flagVars, partial, active, outer_count, capacity,
                 daq_error, runVars, picked>>

\* FlexIODAQ::finalize(); the error flags of the hardware (DMA error, SHIFTERR) are
\* an input.
FinalizeOK(hardware_error) == daq_config => ~hardware_error /\ ~overflow_data

\* The end of the run: its report.
Finalize ==
  /\ pc = "finalize"
  /\ \E hardware_error \in BOOLEAN :
       run_state' = IF daq_error \/ ~FinalizeOK(hardware_error) THEN "ERROR" ELSE "DONE"
  /\ pc' = "idle"
  /\ UNCHANGED <<window, dmaVars, flagVars, partial, active, outer_count, copied,
                 capacity, daq_error, daq_config, partial_buffer_part, streamed, picked>>

\* The processor faults and restarts; statics get their initial values again.
Reboot ==
  /\ pc = "crashed"
  /\ window' = "closed" /\ inflight' = FALSE
  /\ citer' = BITER /\ buffer' = [s \in Slots |-> 0] /\ acquired' = 0
  /\ irq' = FALSE /\ irqAge' = 0
  /\ first_data' = FALSE /\ last_data' = FALSE /\ overflow_data' = FALSE
  /\ partial_buffer_part' = 0 /\ daq_config' = FALSE
  /\ pc' = "idle" /\ partial' = FALSE /\ active' = 0 /\ outer_count' = 0 /\ copied' = 0
  /\ capacity' = 0 /\ daq_error' = FALSE /\ run_state' = "NEW"
  /\ streamed' = <<>> /\ announced' = 0 /\ picked' = 0 /\ late' = FALSE

-----------------------------------------------------------------------------
Stream ==
  \/ StreamOverflow \/ StreamTestFirst \/ StreamTestLast
  \/ StreamClearFirst \/ StreamClearLast \/ StreamRemainder
  \/ HandleFits \/ HandleRefuses \/ HandleOverruns \/ HandleCopy

Program == PollContinue \/ PollDone \/ Delay \/ Stream \/ Finalize \/ Reboot

Next ==
  \/ Sample \/ Transfer \/ Interrupt \/ OpEnd
  \/ StartRun \/ StartFails
  \/ Program

Spec == Init /\ [][Next]_vars

\* The program never blocks, the OP timer always expires (op_time is at most 9 s),
\* and the hardware delivers what has been triggered.
FairSpec ==
  /\ Spec
  /\ WF_vars(Program) /\ WF_vars(OpEnd) /\ WF_vars(Transfer) /\ WF_vars(Interrupt)
-----------------------------------------------------------------------------
(* Properties *)

FlagTypes ==
  /\ inflight \in BOOLEAN /\ irq \in BOOLEAN /\ late \in BOOLEAN
  /\ first_data \in BOOLEAN /\ last_data \in BOOLEAN /\ overflow_data \in BOOLEAN
  /\ daq_config \in BOOLEAN /\ daq_error \in BOOLEAN /\ partial \in BOOLEAN

HardwareTypes ==
  /\ window \in {"closed", "open", "done"}
  /\ citer \in 1 .. BITER
  /\ buffer \in [Slots -> Nat] /\ acquired \in Nat
  /\ irqAge \in 0 .. IsrLatency

ProgramTypes ==
  /\ pc \in PCs
  /\ active \in {0, HalfBuffer} /\ partial_buffer_part \in {0, HalfBuffer}
  /\ outer_count \in -HalfBuffer .. BITER /\ copied \in 0 .. BITER
  /\ capacity \in 0 .. HalfBuffer

RunTypes ==
  /\ run_state \in {"NEW", "DONE", "ERROR"}
  /\ streamed \in Seq(Nat) /\ picked \in Nat /\ announced \in Nat

\* Type invariant of the acquisition state (DMA registers, flags, the locals of
\* run_next_flexio(), stream() and handle()).
TypeOK == FlagTypes /\ HardwareTypes /\ ProgramTypes /\ RunTypes

\* The static pointer of stream() describes this run, not an earlier one.
PointerIsOfThisRun == partial_buffer_part = 0 \/ picked > 0

\* stream(): as long as every half is streamed out before the other half has been
\* filled, the clients receive the vectors in the order of acquisition, none twice,
\* none skipped, none overwritten while it is being copied.
StreamsInOrder ==
  (~late /\ PointerIsOfThisRun) => \A k \in 1 .. Len(streamed) : streamed[k] = k

\* run_next_flexio(): a run that kept up and is reported DONE has lost fewer vectors
\* than half of the buffer holds.
LossIsBounded ==
  (pc = "idle" /\ run_state = "DONE" /\ daq_config /\ ~late /\ PointerIsOfThisRun)
    => acquired - Len(streamed) \in 0 .. HalfBuffer - 1

\* run_next_flexio(): if moreover the last call of stream() found no published
\* half, so that it streamed the remainder, then nothing has been lost
\* (active_buffer_part is the remainder's part).
RemainderCompletesRun ==
  (pc = "idle" /\ run_state = "DONE" /\ daq_config /\ ~late
     /\ active = partial_buffer_part /\ PointerIsOfThisRun)
    => Len(streamed) = acquired

\* dma::interrupt() against stream(): however late the program polls, and wherever
\* between its test and its clearing of a flag the interrupt arrives, a published
\* half is taken exactly once, is still flagged, or the overflow is recorded.
NoHalfForgotten ==
  ~overflow_data =>
    announced = picked + (IF first_data THEN 1 ELSE 0) + (IF last_data THEN 1 ELSE 0)

\* A run that has been started is eventually reported (or the device restarts).
RunIsReported == pc = "poll" ~> pc \in {"idle", "crashed"}

-----------------------------------------------------------------------------
(* What a comment of the code says and the code does not do. *)

\* daq.cpp, stream(): "get_number_of_data_vectors_in_buffer [...] returns number of
\* vectors in first_half plus number of partials in second half, and we have to
\* subtract the number in the first half".
FirstHalfIsInTheCount ==
  (pc = "remainder" /\ partial_buffer_part = HalfBuffer) => NumVectors >= HalfBuffer
=============================================================================
