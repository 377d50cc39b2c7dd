-------------------------- MODULE FlexIODAQ_proofs --------------------------
(* Proofs about FlexIODAQ, for every size of the ring buffer: type correctness,   *)
(* and the hand-over of the halves from the interrupt to stream().               *)
EXTENDS FlexIODAQ, TLAPS

\* handle() copies at most half of the buffer.
CopyBound == pc = "copy" => outer_count <= HalfBuffer
TypeInv == TypeOK /\ CopyBound

-----------------------------------------------------------------------------
(* Type correctness. *)

USE HalfBufferAssumption, MaxSamplesAssumption, IsrLatencyAssumption

\* Initially every variable has its type.
LEMMA TypeInit == Init => TypeInv
  <1> SUFFICES ASSUME Init PROVE TypeInv
    OBVIOUS
  <1> USE DEF Init, BITER, Slots, PCs
  <1>1. FlagTypes
    BY DEF FlagTypes
  <1>2. HardwareTypes
    BY DEF HardwareTypes
  <1>3. ProgramTypes /\ CopyBound
    BY DEF ProgramTypes, CopyBound
  <1>4. RunTypes
    BY DEF RunTypes
  <1> QED
    BY <1>1, <1>2, <1>3, <1>4 DEF TypeInv, TypeOK

\* The slot handle() reads lies within the ring buffer.
LEMMA CopyReadsBuffer ==
  ASSUME TypeInv, pc = "copy", copied < outer_count
  PROVE  active + copied \in Slots /\ buffer[active + copied] \in Nat
  <1>1. active + copied \in Slots
    BY DEF TypeInv, TypeOK, ProgramTypes, CopyBound, BITER, Slots
  <1> QED
    BY <1>1 DEF TypeInv, TypeOK, HardwareTypes

\* Every step of the hardware, the interrupt and the program keeps the types; the
\* index handle() reads stays within the ring buffer.
LEMMA TypeStep == TypeInv /\ [Next]_vars => TypeInv'
  <1> SUFFICES ASSUME TypeInv, [Next]_vars PROVE TypeInv'
    OBVIOUS
  <1> USE DEF TypeInv, TypeOK, FlagTypes, HardwareTypes, ProgramTypes, RunTypes, CopyBound,
              BITER, Slots, PCs, NumVectors, dmaVars, flagVars, cpuVars, runVars
  <1>1. CASE Sample
    <2>1. FlagTypes'
      BY <1>1 DEF Sample
    <2>2. HardwareTypes'
      BY <1>1 DEF Sample
    <2>3. ProgramTypes'
      BY <1>1 DEF Sample
    <2>4. RunTypes'
      BY <1>1 DEF Sample
    <2>5. CopyBound'
      BY <1>1 DEF Sample
    <2> QED
      BY <2>1, <2>2, <2>3, <2>4, <2>5
  <1>2. CASE Transfer
    <2>1. FlagTypes'
      BY <1>2 DEF Transfer, NextCiter
    <2>2. HardwareTypes'
      BY <1>2 DEF Transfer, NextCiter
    <2>3. ProgramTypes'
      BY <1>2 DEF Transfer, NextCiter
    <2>4. RunTypes'
      BY <1>2 DEF Transfer, NextCiter
    <2>5. CopyBound'
      BY <1>2 DEF Transfer, NextCiter
    <2> QED
      BY <2>1, <2>2, <2>3, <2>4, <2>5
  <1>3. CASE Interrupt
    <2>1. FlagTypes'
      BY <1>3 DEF Interrupt, Overflow
    <2>2. HardwareTypes'
      BY <1>3 DEF Interrupt, Overflow
    <2>3. ProgramTypes'
      BY <1>3 DEF Interrupt, Overflow
    <2>4. RunTypes'
      BY <1>3 DEF Interrupt, Overflow
    <2>5. CopyBound'
      BY <1>3 DEF Interrupt, Overflow
    <2> QED
      BY <2>1, <2>2, <2>3, <2>4, <2>5
  <1>4. CASE OpEnd
    <2>1. FlagTypes'
      BY <1>4 DEF OpEnd
    <2>2. HardwareTypes'
      BY <1>4 DEF OpEnd
    <2>3. ProgramTypes'
      BY <1>4 DEF OpEnd
    <2>4. RunTypes'
      BY <1>4 DEF OpEnd
    <2>5. CopyBound'
      BY <1>4 DEF OpEnd
    <2> QED
      BY <2>1, <2>2, <2>3, <2>4, <2>5
  <1>5. CASE StartRun
    <2>1. FlagTypes'
      BY <1>5 DEF StartRun, ResetForRun, PreparedCapacity
    <2>2. HardwareTypes'
      BY <1>5 DEF StartRun, ResetForRun, PreparedCapacity
    <2>3. ProgramTypes'
      BY <1>5 DEF StartRun, ResetForRun, PreparedCapacity
    <2>4. RunTypes'
      BY <1>5 DEF StartRun, ResetForRun, PreparedCapacity
    <2>5. CopyBound'
      BY <1>5 DEF StartRun, ResetForRun, PreparedCapacity
    <2> QED
      BY <2>1, <2>2, <2>3, <2>4, <2>5
  <1>6. CASE StartFails
    <2>1. FlagTypes'
      BY <1>6 DEF StartFails, ResetForRun, PreparedCapacity
    <2>2. HardwareTypes'
      BY <1>6 DEF StartFails, ResetForRun, PreparedCapacity
    <2>3. ProgramTypes'
      BY <1>6 DEF StartFails, ResetForRun, PreparedCapacity
    <2>4. RunTypes'
      BY <1>6 DEF StartFails, ResetForRun, PreparedCapacity
    <2>5. CopyBound'
      BY <1>6 DEF StartFails, ResetForRun, PreparedCapacity
    <2> QED
      BY <2>1, <2>2, <2>3, <2>4, <2>5
  <1>7. CASE PollContinue
    <2>1. FlagTypes'
      BY <1>7 DEF PollContinue
    <2>2. HardwareTypes'
      BY <1>7 DEF PollContinue
    <2>3. ProgramTypes'
      BY <1>7 DEF PollContinue
    <2>4. RunTypes'
      BY <1>7 DEF PollContinue
    <2>5. CopyBound'
      BY <1>7 DEF PollContinue
    <2> QED
      BY <2>1, <2>2, <2>3, <2>4, <2>5
  <1>8. CASE PollDone
    <2>1. FlagTypes'
      BY <1>8 DEF PollDone
    <2>2. HardwareTypes'
      BY <1>8 DEF PollDone
    <2>3. ProgramTypes'
      BY <1>8 DEF PollDone
    <2>4. RunTypes'
      BY <1>8 DEF PollDone
    <2>5. CopyBound'
      BY <1>8 DEF PollDone
    <2> QED
      BY <2>1, <2>2, <2>3, <2>4, <2>5
  <1>9. CASE Delay
    <2>1. FlagTypes'
      BY <1>9 DEF Delay, Settled
    <2>2. HardwareTypes'
      BY <1>9 DEF Delay, Settled
    <2>3. ProgramTypes'
      BY <1>9 DEF Delay, Settled
    <2>4. RunTypes'
      BY <1>9 DEF Delay, Settled
    <2>5. CopyBound'
      BY <1>9 DEF Delay, Settled
    <2> QED
      BY <2>1, <2>2, <2>3, <2>4, <2>5
  <1>10. CASE StreamOverflow
    <2>1. FlagTypes'
      BY <1>10 DEF StreamOverflow, Resume
    <2>2. HardwareTypes'
      BY <1>10 DEF StreamOverflow, Resume
    <2>3. ProgramTypes'
      BY <1>10 DEF StreamOverflow, Resume
    <2>4. RunTypes'
      BY <1>10 DEF StreamOverflow, Resume
    <2>5. CopyBound'
      BY <1>10 DEF StreamOverflow, Resume
    <2> QED
      BY <2>1, <2>2, <2>3, <2>4, <2>5
  <1>11. CASE StreamTestFirst
    <2>1. FlagTypes'
      BY <1>11 DEF StreamTestFirst
    <2>2. HardwareTypes'
      BY <1>11 DEF StreamTestFirst
    <2>3. ProgramTypes'
      BY <1>11 DEF StreamTestFirst
    <2>4. RunTypes'
      BY <1>11 DEF StreamTestFirst
    <2>5. CopyBound'
      BY <1>11 DEF StreamTestFirst
    <2> QED
      BY <2>1, <2>2, <2>3, <2>4, <2>5
  <1>12. CASE StreamTestLast
    <2>1. FlagTypes'
      BY <1>12 DEF StreamTestLast, Resume
    <2>2. HardwareTypes'
      BY <1>12 DEF StreamTestLast, Resume
    <2>3. ProgramTypes'
      BY <1>12 DEF StreamTestLast, Resume
    <2>4. RunTypes'
      BY <1>12 DEF StreamTestLast, Resume
    <2>5. CopyBound'
      BY <1>12 DEF StreamTestLast, Resume
    <2> QED
      BY <2>1, <2>2, <2>3, <2>4, <2>5
  <1>13. CASE StreamClearFirst
    <2>1. FlagTypes'
      BY <1>13 DEF StreamClearFirst
    <2>2. HardwareTypes'
      BY <1>13 DEF StreamClearFirst
    <2>3. ProgramTypes'
      BY <1>13 DEF StreamClearFirst
    <2>4. RunTypes'
      BY <1>13 DEF StreamClearFirst
    <2>5. CopyBound'
      BY <1>13 DEF StreamClearFirst
    <2> QED
      BY <2>1, <2>2, <2>3, <2>4, <2>5
  <1>14. CASE StreamClearLast
    <2>1. FlagTypes'
      BY <1>14 DEF StreamClearLast, SecondHalf
    <2>2. HardwareTypes'
      BY <1>14 DEF StreamClearLast, SecondHalf
    <2>3. ProgramTypes'
      BY <1>14 DEF StreamClearLast, SecondHalf
    <2>4. RunTypes'
      BY <1>14 DEF StreamClearLast, SecondHalf
    <2>5. CopyBound'
      BY <1>14 DEF StreamClearLast, SecondHalf
    <2> QED
      BY <2>1, <2>2, <2>3, <2>4, <2>5
  <1>15. CASE StreamRemainder
    <2>1. FlagTypes'
      BY <1>15 DEF StreamRemainder, RemainderCount, Resume
    <2>2. HardwareTypes'
      BY <1>15 DEF StreamRemainder, RemainderCount, Resume
    <2>3. ProgramTypes'
      BY <1>15 DEF StreamRemainder, RemainderCount, Resume
    <2>4. RunTypes'
      BY <1>15 DEF StreamRemainder, RemainderCount, Resume
    <2>5. CopyBound'
      BY <1>15 DEF StreamRemainder, RemainderCount, Resume
    <2> QED
      BY <2>1, <2>2, <2>3, <2>4, <2>5
  <1>16. CASE HandleFits
    <2>1. FlagTypes'
      BY <1>16 DEF HandleFits, Fits
    <2>2. HardwareTypes'
      BY <1>16 DEF HandleFits, Fits
    <2>3. ProgramTypes'
      BY <1>16 DEF HandleFits, Fits
    <2>4. RunTypes'
      BY <1>16 DEF HandleFits, Fits
    <2>5. CopyBound'
      BY <1>16 DEF HandleFits, Fits
    <2> QED
      BY <2>1, <2>2, <2>3, <2>4, <2>5
  <1>17. CASE HandleRefuses
    <2>1. FlagTypes'
      BY <1>17 DEF HandleRefuses, Fits, Resume
    <2>2. HardwareTypes'
      BY <1>17 DEF HandleRefuses, Fits, Resume
    <2>3. ProgramTypes'
      BY <1>17 DEF HandleRefuses, Fits, Resume
    <2>4. RunTypes'
      BY <1>17 DEF HandleRefuses, Fits, Resume
    <2>5. CopyBound'
      BY <1>17 DEF HandleRefuses, Fits, Resume
    <2> QED
      BY <2>1, <2>2, <2>3, <2>4, <2>5
  <1>18. CASE HandleOverruns
    <2>1. FlagTypes'
      BY <1>18 DEF HandleOverruns
    <2>2. HardwareTypes'
      BY <1>18 DEF HandleOverruns
    <2>3. ProgramTypes'
      BY <1>18 DEF HandleOverruns
    <2>4. RunTypes'
      BY <1>18 DEF HandleOverruns
    <2>5. CopyBound'
      BY <1>18 DEF HandleOverruns
    <2> QED
      BY <2>1, <2>2, <2>3, <2>4, <2>5
  <1>19. CASE HandleCopy
    <2>1. FlagTypes'
      BY <1>19 DEF HandleCopy, Resume
    <2>2. HardwareTypes'
      BY <1>19 DEF HandleCopy, Resume
    <2>3. ProgramTypes'
      BY <1>19 DEF HandleCopy, Resume
    <2>4. RunTypes'
      <3> HIDE DEF FlagTypes, HardwareTypes, ProgramTypes, CopyBound, BITER, Slots, PCs,
                   NumVectors, dmaVars, cpuVars
      <3> QED
        BY <1>19, CopyReadsBuffer, SMTT(40) DEF HandleCopy
    <2>5. CopyBound'
      BY <1>19 DEF HandleCopy, Resume
    <2> QED
      BY <2>1, <2>2, <2>3, <2>4, <2>5
  <1>20. CASE Finalize
    <2>1. FlagTypes'
      BY <1>20 DEF Finalize, FinalizeOK
    <2>2. HardwareTypes'
      BY <1>20 DEF Finalize, FinalizeOK
    <2>3. ProgramTypes'
      BY <1>20 DEF Finalize, FinalizeOK
    <2>4. RunTypes'
      BY <1>20 DEF Finalize, FinalizeOK
    <2>5. CopyBound'
      BY <1>20 DEF Finalize, FinalizeOK
    <2> QED
      BY <2>1, <2>2, <2>3, <2>4, <2>5
  <1>21. CASE Reboot
    <2>1. FlagTypes'
      BY <1>21 DEF Reboot
    <2>2. HardwareTypes'
      BY <1>21 DEF Reboot
    <2>3. ProgramTypes'
      BY <1>21 DEF Reboot
    <2>4. RunTypes'
      BY <1>21 DEF Reboot
    <2>5. CopyBound'
      BY <1>21 DEF Reboot
    <2> QED
      BY <2>1, <2>2, <2>3, <2>4, <2>5
  <1>22. CASE UNCHANGED vars
    <2>1. FlagTypes'
      BY <1>22 DEF vars
    <2>2. HardwareTypes'
      BY <1>22 DEF vars
    <2>3. ProgramTypes'
      BY <1>22 DEF vars
    <2>4. RunTypes'
      BY <1>22 DEF vars
    <2>5. CopyBound'
      BY <1>22 DEF vars
    <2> QED
      BY <2>1, <2>2, <2>3, <2>4, <2>5
  <1> QED
    BY <1>1, <1>2, <1>3, <1>4, <1>5, <1>6, <1>7, <1>8, <1>9, <1>10, <1>11, <1>12, <1>13, <1>14, <1>15, <1>16, <1>17, <1>18, <1>19, <1>20, <1>21, <1>22
       DEF Next, Program, Stream

\* Type correctness of the acquisition: DMA counters, flags, and the indices and
\* lengths of run_next_flexio(), stream() and handle() stay in range.
THEOREM TypeCorrect == Spec => []TypeOK
  <1>1. TypeInv => TypeOK
    BY DEF TypeInv
  <1> QED
    BY TypeInit, TypeStep, <1>1, PTL DEF Spec

-----------------------------------------------------------------------------
(* No published half is forgotten. *)

\* Between the test and the clearing of a flag only the interrupt runs, and it only
\* sets flags.
FlagTested == (pc = "clear_first" => first_data) /\ (pc = "clear_last" => last_data)

ForgottenInv == TypeInv /\ FlagTested /\ NoHalfForgotten

\* Every step keeps the accounting of halves; the test of a flag stays valid until it is cleared.
LEMMA ForgottenStep == ForgottenInv /\ [Next]_vars => FlagTested' /\ NoHalfForgotten'
  <1> SUFFICES ASSUME ForgottenInv, [Next]_vars PROVE FlagTested' /\ NoHalfForgotten'
    OBVIOUS
  <1> USE DEF FlagTested, NoHalfForgotten
  <1>0. /\ announced \in Nat /\ picked \in Nat
        /\ first_data \in BOOLEAN /\ last_data \in BOOLEAN /\ overflow_data \in BOOLEAN
        /\ FlagTested /\ NoHalfForgotten
    BY DEF ForgottenInv, TypeInv, TypeOK, FlagTypes, RunTypes
  <1>1. CASE Sample
    BY <1>0, <1>1 DEF Sample, flagVars, cpuVars
  <1>2. CASE Transfer
    BY <1>0, <1>2 DEF Transfer, NextCiter, flagVars, cpuVars
  <1>3. CASE Interrupt
    <2>1. CASE citer # BITER
      <3>1. /\ overflow_data' = (overflow_data \/ first_data)
            /\ first_data' = TRUE /\ last_data' = last_data
        BY <1>0, <1>3, <2>1, Zenon DEF Interrupt, Overflow
      <3>2. announced' = announced + 1 /\ picked' = picked /\ pc' = pc
        BY <1>3 DEF Interrupt, cpuVars
      <3> QED
        BY <1>0, <3>1, <3>2
    <2>2. CASE citer = BITER
      <3>1. /\ overflow_data' = (overflow_data \/ last_data)
            /\ first_data' = first_data /\ last_data' = TRUE
        BY <1>0, <1>3, <2>2, Zenon DEF Interrupt, Overflow
      <3>2. announced' = announced + 1 /\ picked' = picked /\ pc' = pc
        BY <1>3 DEF Interrupt, cpuVars
      <3> QED
        BY <1>0, <3>1, <3>2
    <2> QED
      BY <2>1, <2>2
  <1>4. CASE OpEnd
    BY <1>0, <1>4 DEF OpEnd, flagVars, cpuVars
  <1>5. CASE StartRun
    BY <1>0, <1>5 DEF StartRun, ResetForRun, PreparedCapacity, flagVars, cpuVars
  <1>6. CASE StartFails
    BY <1>0, <1>6 DEF StartFails, ResetForRun, PreparedCapacity, flagVars, cpuVars
  <1>7. CASE PollContinue
    BY <1>0, <1>7 DEF PollContinue, flagVars, cpuVars
  <1>8. CASE PollDone
    BY <1>0, <1>8 DEF PollDone, flagVars, cpuVars
  <1>9. CASE Delay
    BY <1>0, <1>9 DEF Delay, Settled, flagVars, cpuVars
  <1>10. CASE StreamOverflow
    BY <1>0, <1>10 DEF StreamOverflow, Resume, flagVars, cpuVars
  <1>11. CASE StreamTestFirst
    BY <1>0, <1>11 DEF StreamTestFirst, flagVars, cpuVars
  <1>12. CASE StreamTestLast
    BY <1>0, <1>12 DEF StreamTestLast, Resume, flagVars, cpuVars
  <1>13. CASE StreamClearFirst
    BY <1>0, <1>13 DEF StreamClearFirst, flagVars, cpuVars
  <1>14. CASE StreamClearLast
    BY <1>0, <1>14 DEF StreamClearLast, SecondHalf, flagVars, cpuVars
  <1>15. CASE StreamRemainder
    BY <1>0, <1>15 DEF StreamRemainder, RemainderCount, Resume, flagVars, cpuVars
  <1>16. CASE HandleFits
    BY <1>0, <1>16 DEF HandleFits, Fits, flagVars, cpuVars
  <1>17. CASE HandleRefuses
    BY <1>0, <1>17 DEF HandleRefuses, Fits, Resume, flagVars, cpuVars
  <1>18. CASE HandleOverruns
    BY <1>0, <1>18 DEF HandleOverruns, flagVars, cpuVars
  <1>19. CASE HandleCopy
    BY <1>0, <1>19 DEF HandleCopy, Resume, flagVars, cpuVars
  <1>20. CASE Finalize
    BY <1>0, <1>20 DEF Finalize, FinalizeOK, flagVars, cpuVars
  <1>21. CASE Reboot
    BY <1>0, <1>21 DEF Reboot, flagVars, cpuVars
  <1>22. CASE UNCHANGED vars
    BY <1>0, <1>22 DEF vars, flagVars, cpuVars
  <1> QED
    BY <1>1, <1>2, <1>3, <1>4, <1>5, <1>6, <1>7, <1>8, <1>9, <1>10, <1>11, <1>12, <1>13, <1>14, <1>15, <1>16, <1>17, <1>18, <1>19, <1>20, <1>21, <1>22
       DEF Next, Program, Stream

\* dma::interrupt() against stream(): for every buffer size and every interrupt
\* latency, a published half is taken exactly once, is still flagged, or the overflow
\* is recorded.
THEOREM NoHalfIsForgotten == Spec => []NoHalfForgotten
  <1>1. Init => ForgottenInv
    BY TypeInit DEF Init, ForgottenInv, FlagTested, NoHalfForgotten
  <1>2. ForgottenInv /\ [Next]_vars => ForgottenInv'
    BY TypeStep, ForgottenStep DEF ForgottenInv
  <1>3. ForgottenInv => NoHalfForgotten
    BY DEF ForgottenInv
  <1> QED
    BY <1>1, <1>2, <1>3, PTL DEF Spec

-----------------------------------------------------------------------------
(* StreamsInOrder, LossIsBounded and RemainderCompletesRun for every size of the   *)
(* ring buffer and every number of vectors, provided that an interrupt is served   *)
(* before the next transfer (IsrLatency = 0): the inductive invariant.             *)

StreamPCs == {"overflow", "first", "last", "clear_first", "clear_last",
              "remainder", "handle", "copy"}
InRun == pc \notin {"idle", "crashed"}

\* Vectors acquired before the current pass over the ring buffer.
Base == acquired - NumVectors

\* Vectors in the halves the interrupt has published so far.
Level == IF irq THEN (IF NumVectors = 0 THEN Base - HalfBuffer ELSE Base)
         ELSE IF NumVectors < HalfBuffer THEN Base ELSE Base + HalfBuffer

\* After the 20 us delay nothing changes the buffer or the flags any more.
QuietInv ==
  /\ pc \in {"idle", "delay", "finalize"} => window # "open"
  /\ (pc \in {"idle", "finalize"} \/ (partial /\ pc \in StreamPCs))
       => window # "open" /\ ~inflight /\ ~irq

ControlInv ==
  /\ pc = "clear_first" => first_data
  /\ pc = "clear_last" => last_data
  /\ (pc = "last" /\ partial) => ~first_data
  /\ pc = "remainder" => partial /\ ~first_data /\ ~last_data
  /\ (pc \in {"handle", "copy"} /\ active = partial_buffer_part)
       => partial /\ ~first_data /\ ~last_data
  /\ pc \in {"first", "last", "clear_first", "clear_last", "remainder", "handle", "copy"}
       => daq_config
  /\ (pc \in {"poll", "overflow", "first", "last", "clear_first", "clear_last",
              "remainder", "handle", "delay"}
       \/ (pc = "copy" /\ active # partial_buffer_part))
       => capacity = HalfBuffer
  /\ (pc \in {"handle", "copy"} /\ active # partial_buffer_part)
       => outer_count = HalfBuffer

\* What the ring buffer holds during a run.
BufferInv ==
  InRun =>
    /\ Base = 0 \/ Base >= BITER
    /\ irq => NumVectors = HalfBuffer \/ (NumVectors = 0 /\ Base >= BITER)
    /\ \A j \in Slots :
         /\ j < NumVectors => buffer[j] = Base + j + 1
         /\ (j >= NumVectors /\ Base >= BITER) => buffer[j] = Base - BITER + j + 1

\* Which half is published or being copied in a run that keeps up.
HalfInv ==
  (InRun /\ ~late) =>
    /\ ~overflow_data /\ ~(first_data /\ last_data)
    /\ first_data => NumVectors >= HalfBuffer /\ ~irq
    /\ last_data => NumVectors < HalfBuffer /\ ~irq /\ Base >= BITER
    /\ (pc \in {"handle", "copy"} /\ active # partial_buffer_part) =>
         /\ ~first_data /\ ~last_data /\ ~irq
         /\ active = 0 => NumVectors >= HalfBuffer
         /\ active = HalfBuffer => NumVectors < HalfBuffer /\ Base >= BITER

\* The static pointer points behind the half that was taken last.
PointerInv ==
  (InRun /\ ~late /\ PointerIsOfThisRun) =>
    /\ first_data => partial_buffer_part = 0
    /\ last_data => partial_buffer_part = HalfBuffer
    /\ (~first_data /\ ~last_data) =>
         (partial_buffer_part = 0 <=> Level = Base)

\* How much has been streamed.
CountInv ==
  (InRun /\ ~late) =>
    /\ (pc \notin {"handle", "copy", "finalize"} /\ (first_data \/ last_data))
         => Len(streamed) = Level - HalfBuffer
    /\ (pc \notin {"handle", "copy", "finalize"} /\ ~first_data /\ ~last_data)
         => Len(streamed) = Level
    /\ (pc = "handle" /\ active # partial_buffer_part)
         => Len(streamed) = Level - HalfBuffer
    /\ (pc = "copy" /\ active # partial_buffer_part)
         => Len(streamed) = Level - HalfBuffer + copied /\ copied <= HalfBuffer
    /\ (pc \in {"handle", "copy"} /\ active = partial_buffer_part /\ PointerIsOfThisRun) =>
         /\ Level + outer_count = acquired
         /\ outer_count > 0
         /\ pc = "handle" => Len(streamed) = Level
         /\ pc = "copy" => Len(streamed) = Level + copied /\ copied <= outer_count

\* Nothing has been streamed before the first half was taken.
PickInv ==
  /\ (pc \in {"handle", "copy"} /\ active # partial_buffer_part) => picked > 0
  /\ (InRun /\ pc \notin {"handle", "copy", "finalize"} /\ picked = 0)
       => streamed = <<>>

\* What has been streamed when a run is over.
FinalInv ==
  ((pc = "finalize" \/ (pc = "idle" /\ run_state = "DONE"))
     /\ daq_config /\ ~late /\ PointerIsOfThisRun) =>
    /\ acquired - Len(streamed) \in 0 .. HalfBuffer - 1
    /\ active = partial_buffer_part => Len(streamed) = acquired

StreamInv ==
  /\ TypeInv /\ QuietInv /\ ControlInv /\ BufferInv /\ HalfInv /\ PointerInv
  /\ CountInv /\ PickInv /\ FinalInv /\ StreamsInOrder


-----------------------------------------------------------------------------
(* The steps that need an argument: Transfer, Interrupt and HandleCopy. *)

\* One DMA major loop served without latency: CITER wraps at the end of the buffer, an
\* interrupt is requested at its middle and at its end.
LEMMA TransferFacts ==
  ASSUME IsrLatency = 0, TypeInv, Transfer
  PROVE  /\ ~irq
         /\ acquired' = acquired + 1 /\ buffer' = [buffer EXCEPT ![NumVectors] = acquired + 1]
         /\ UNCHANGED <<flagVars, cpuVars, runVars, streamed, picked>>
         /\ \/ /\ NumVectors = BITER - 1 /\ NumVectors' = 0 /\ irq' /\ Base' = Base + BITER
               /\ late' = (late \/ Behind)
            \/ /\ NumVectors # BITER - 1 /\ NumVectors' = NumVectors + 1 /\ Base' = Base
               /\ irq' = (NumVectors' = HalfBuffer)
               /\ late' = (late \/ (NumVectors' = HalfBuffer /\ Behind))
  <1> USE DEF TypeInv, TypeOK, HardwareTypes, NumVectors, BITER
  <1>0. ~irq
    BY DEF Transfer
  <1>1. /\ acquired' = acquired + 1 /\ buffer' = [buffer EXCEPT ![NumVectors] = acquired + 1]
        /\ UNCHANGED <<flagVars, cpuVars, runVars, streamed, picked>>
    BY DEF Transfer
  <1>2. CASE citer = 1
    <2>1. citer' = BITER /\ irq' /\ late' = (late \/ Behind)
      BY <1>2 DEF Transfer, NextCiter, FlagTypes
    <2> QED
      BY <1>0, <1>1, <1>2, <2>1 DEF Base
  <1>3. CASE citer # 1
    <2>1. citer' = citer - 1
      BY <1>3 DEF Transfer, NextCiter
    <2>2. NumVectors' = NumVectors + 1 /\ Base' = Base /\ NumVectors # BITER - 1
      BY <1>1, <1>3, <2>1 DEF Base
    <2>3. NextCiter \in {HalfBuffer, BITER} <=> NumVectors' = HalfBuffer
      BY <1>3, <2>1 DEF NextCiter
    <2>4. irq' = (NumVectors' = HalfBuffer) /\ late' = (late \/ (NumVectors' = HalfBuffer /\ Behind))
      BY <1>0, <2>3, Zenon DEF Transfer, FlagTypes
    <2> QED
      BY <1>0, <1>1, <2>2, <2>4
  <1> QED
    BY <1>2, <1>3

\* A transfer keeps the ring buffer filled in order of acquisition.
LEMMA BufferTransfer == ASSUME IsrLatency = 0, StreamInv, Transfer PROVE BufferInv'
  <1> SUFFICES ASSUME InRun' PROVE BufferInv'
    BY DEF BufferInv
  <1>0. TypeInv /\ BufferInv /\ InRun
    BY DEF StreamInv, InRun, Transfer, cpuVars
  <1>1. /\ NumVectors \in 0 .. BITER - 1 /\ acquired \in Nat /\ Base \in Int
        /\ acquired = Base + NumVectors /\ BITER = HalfBuffer + HalfBuffer
        /\ buffer \in [0 .. BITER - 1 -> Nat]
    BY <1>0 DEF NumVectors, Base, TypeInv, TypeOK, HardwareTypes, Slots, BITER
  <1>2. /\ Base = 0 \/ Base >= BITER
        /\ \A j \in 0 .. BITER - 1 :
             /\ j < NumVectors => buffer[j] = Base + j + 1
             /\ (j >= NumVectors /\ Base >= BITER) => buffer[j] = Base - BITER + j + 1
    BY <1>0 DEF BufferInv, Slots
  <1>3. buffer' = [buffer EXCEPT ![NumVectors] = acquired + 1]
    BY <1>0, TransferFacts
  <1>4. CASE NumVectors = BITER - 1
    <2>1. NumVectors' = 0 /\ irq' /\ Base' = Base + BITER
      BY <1>0, <1>4, TransferFacts
    <2>2. \A j \in 0 .. BITER - 1 : buffer'[j] = Base + j + 1
      BY <1>1, <1>2, <1>3, <1>4
    <2> QED
      BY <1>1, <1>2, <2>1, <2>2 DEF BufferInv, Slots, BITER
  <1>5. CASE NumVectors # BITER - 1
    <2>1. NumVectors' = NumVectors + 1 /\ Base' = Base /\ irq' = (NumVectors' = HalfBuffer)
      BY <1>0, <1>1, <1>5, TransferFacts
    <2>2. \A j \in 0 .. BITER - 1 :
             /\ j < NumVectors + 1 => buffer'[j] = Base + j + 1
             /\ (j >= NumVectors + 1 /\ Base >= BITER) => buffer'[j] = Base - BITER + j + 1
      BY <1>1, <1>2, <1>3, <1>5, SMTT(40)
    <2> QED
      BY <1>1, <1>2, <2>1, <2>2 DEF BufferInv, Slots, BITER
  <1> QED
    BY <1>4, <1>5

\* A transfer publishes nothing.
LEMMA LevelTransfer ==
  ASSUME IsrLatency = 0, TypeInv, Transfer
  PROVE  Level' = Level /\ (Level' = Base' <=> Level = Base)
  <1>1. NumVectors \in 0 .. BITER - 1 /\ Base \in Int /\ BITER = HalfBuffer + HalfBuffer /\ HalfBuffer \in Nat \ {0}
    BY DEF NumVectors, Base, TypeInv, TypeOK, HardwareTypes, BITER
  <1>2. CASE NumVectors = BITER - 1
    <2>1. ~irq /\ NumVectors' = 0 /\ irq' /\ Base' = Base + BITER
      BY <1>2, TransferFacts
    <2>2. Level = Base + HalfBuffer
      BY <1>1, <1>2, <2>1 DEF Level
    <2>3. Level' = Base + BITER - HalfBuffer
      BY <1>1, <2>1 DEF Level
    <2> QED
      BY <1>1, <2>1, <2>2, <2>3
  <1>3. CASE NumVectors # BITER - 1
    <2>1. ~irq /\ NumVectors' = NumVectors + 1 /\ irq' = (NumVectors' = HalfBuffer) /\ Base' = Base
      BY <1>3, TransferFacts
    <2>2. Level = IF NumVectors < HalfBuffer THEN Base ELSE Base + HalfBuffer
      BY <2>1 DEF Level
    <2>3. Level' = IF NumVectors + 1 = HalfBuffer THEN Base ELSE IF NumVectors + 1 < HalfBuffer THEN Base ELSE Base + HalfBuffer
      BY <1>1, <2>1 DEF Level
    <2> QED
      BY <1>1, <2>1, <2>2, <2>3
  <1> QED
    BY <1>2, <1>3

\* A transfer keeps the relation of partial_buffer_part to the published halves.
LEMMA PointerTransfer == ASSUME IsrLatency = 0, StreamInv, Transfer PROVE PointerInv'
  <1>1. TypeInv /\ PointerInv
    BY DEF StreamInv
  <1>2. UNCHANGED <<flagVars, cpuVars, runVars, streamed, picked>> /\ (late => late')
    BY <1>1, TransferFacts DEF TypeInv, TypeOK, FlagTypes
  <1>3. Level' = Base' <=> Level = Base
    BY <1>1, LevelTransfer
  <1> QED
    BY <1>1, <1>2, <1>3 DEF PointerInv, InRun, PointerIsOfThisRun, cpuVars, flagVars, runVars

\* A transfer keeps the number of streamed vectors in step with the published ones.
LEMMA CountTransfer == ASSUME IsrLatency = 0, StreamInv, Transfer PROVE CountInv'
  <1>1. TypeInv /\ CountInv
    BY DEF StreamInv
  <1>2. UNCHANGED <<flagVars, cpuVars, runVars, streamed, picked>> /\ (late => late')
    BY <1>1, TransferFacts DEF TypeInv, TypeOK, FlagTypes
  <1>3. Level' = Level
    BY <1>1, LevelTransfer
  <1>4. ~(pc \in {"handle", "copy"} /\ active = partial_buffer_part)
    BY DEF StreamInv, QuietInv, ControlInv, StreamPCs, Transfer
  <1> QED
    BY <1>1, <1>2, <1>3, <1>4 DEF CountInv, InRun, PointerIsOfThisRun, cpuVars, flagVars, runVars

\* dma::interrupt() in a run that keeps up publishes the half that has just been filled,
\* while stream() owns none.
LEMMA InterruptFacts ==
  ASSUME StreamInv, Interrupt, InRun, ~late
  PROVE  /\ ~first_data /\ ~last_data /\ pc \notin {"handle", "copy"} 
         /\ Level' = Level + HalfBuffer
         /\ (first_data' /\ ~last_data' /\ Level = Base /\ Level' # Base') \/ (last_data' /\ ~first_data' /\ Level # Base /\ Level' = Base')
         /\ UNCHANGED <<pc, late, partial_buffer_part, picked, streamed, Base, active>>
  <1>1. irq /\ ~irq' /\ UNCHANGED <<NumVectors, Base, pc, late, partial_buffer_part, picked, streamed, active>>
    BY DEF Interrupt, StreamInv, TypeInv, TypeOK, FlagTypes, NumVectors, Base, cpuVars, runVars, BITER
  <1>2. ~first_data /\ ~last_data
    BY <1>1 DEF StreamInv, HalfInv
  <1>3. pc \notin {"handle", "copy"}
    BY <1>1 DEF StreamInv, HalfInv, QuietInv, ControlInv, StreamPCs
  <1>4. NumVectors = HalfBuffer \/ NumVectors = 0
    BY <1>1 DEF StreamInv, BufferInv
  <1>5. Base \in Int
    BY DEF StreamInv, TypeInv, TypeOK, HardwareTypes, Base, NumVectors, BITER
  <1>6. CASE NumVectors = HalfBuffer
    <2>1. citer # BITER
      BY <1>6 DEF NumVectors, BITER, StreamInv, TypeInv, TypeOK, HardwareTypes
    <2>2. first_data' /\ ~last_data'
      BY <1>2, <2>1 DEF Interrupt
    <2>3. Level = Base /\ Level' = Base + HalfBuffer
      BY <1>1, <1>6 DEF Level
    <2> QED
      BY <1>1, <1>2, <1>3, <1>5, <2>2, <2>3
  <1>7. CASE NumVectors = 0
    <2>1. citer = BITER
      BY <1>7 DEF NumVectors, BITER, StreamInv, TypeInv, TypeOK, HardwareTypes
    <2>2. last_data' /\ ~first_data'
      BY <1>2, <2>1 DEF Interrupt
    <2>3. Level = Base - HalfBuffer /\ Level' = Base
      BY <1>1, <1>7 DEF Level
    <2> QED
      BY <1>1, <1>2, <1>3, <1>5, <2>2, <2>3
  <1> QED
    BY <1>4, <1>6, <1>7

\* dma::interrupt() publishes the half partial_buffer_part points to.
LEMMA PointerInterrupt == ASSUME StreamInv, Interrupt PROVE PointerInv'
  <1> SUFFICES ASSUME InRun', ~late', PointerIsOfThisRun' PROVE PointerInv'
    BY DEF PointerInv
  <1>1. InRun /\ ~late /\ PointerIsOfThisRun
    BY DEF Interrupt, InRun, PointerIsOfThisRun, cpuVars, runVars
  <1>2. PointerInv /\ partial_buffer_part \in {0, HalfBuffer}
    BY DEF StreamInv, TypeInv, TypeOK, ProgramTypes
  <1> QED
    BY <1>1, <1>2, InterruptFacts DEF PointerInv

\* dma::interrupt() publishes one half more than has been streamed.
LEMMA CountInterrupt == ASSUME StreamInv, Interrupt PROVE CountInv'
  <1> SUFFICES ASSUME InRun', ~late' PROVE CountInv'
    BY DEF CountInv
  <1>1. InRun /\ ~late
    BY DEF Interrupt, InRun, cpuVars
  <1>2. CountInv /\ Level \in Int
    BY DEF StreamInv, TypeInv, TypeOK, HardwareTypes, Level, Base, NumVectors, BITER
  <1> QED
    BY <1>1, <1>2, InterruptFacts DEF CountInv

\* The vector handle() formats next is the one that follows the vectors already sent.
LEMMA CopiedVector ==
  ASSUME StreamInv, pc = "copy", ~late, PointerIsOfThisRun, copied < outer_count
  PROVE  buffer[active + copied] = Len(streamed) + 1
  <1>1. /\ NumVectors \in 0 .. BITER - 1 /\ Base \in Int /\ BITER = HalfBuffer + HalfBuffer
        /\ acquired = Base + NumVectors /\ copied \in Nat
        /\ active \in {0, HalfBuffer} /\ outer_count \in Int /\ HalfBuffer \in Nat \ {0}
    BY DEF NumVectors, Base, StreamInv, TypeInv, TypeOK, HardwareTypes, ProgramTypes, BITER
  <1>2. active + copied \in Slots
    BY CopyReadsBuffer DEF StreamInv
  <1>3. \A j \in Slots :
             /\ j < NumVectors => buffer[j] = Base + j + 1
             /\ (j >= NumVectors /\ Base >= BITER) => buffer[j] = Base - BITER + j + 1
    BY DEF StreamInv, BufferInv, InRun
  <1>4. CASE active # partial_buffer_part
    <2>1. /\ ~irq /\ (active = 0 => NumVectors >= HalfBuffer)
          /\ active = HalfBuffer => NumVectors < HalfBuffer /\ Base >= BITER
      BY <1>4 DEF StreamInv, HalfInv, InRun
    <2>2. Len(streamed) = Level - HalfBuffer + copied /\ outer_count = HalfBuffer
      BY <1>4 DEF StreamInv, CountInv, ControlInv, InRun
    <2> QED
      BY <1>1, <1>2, <1>3, <2>1, <2>2 DEF Level
  <1>5. CASE active = partial_buffer_part
    <2>1. partial /\ ~first_data /\ ~last_data
      BY <1>5 DEF StreamInv, ControlInv
    <2>2. ~irq /\ (partial_buffer_part = 0 <=> Level = Base)
      BY <2>1 DEF StreamInv, QuietInv, StreamPCs, PointerInv, InRun
    <2>3. Level + outer_count = acquired /\ Len(streamed) = Level + copied
      BY <1>5 DEF StreamInv, CountInv, InRun
    <2>4. Level = IF NumVectors < HalfBuffer THEN Base ELSE Base + HalfBuffer
      BY <2>2 DEF Level
    <2> QED
      BY <1>1, <1>2, <1>3, <1>5, <2>2, <2>3, <2>4
  <1> QED
    BY <1>4, <1>5

\* handle() extends the sent vectors in order.
LEMMA OrderHandleCopy == ASSUME StreamInv, HandleCopy PROVE StreamsInOrder'
  <1> SUFFICES ASSUME ~late', PointerIsOfThisRun', NEW k \in 1 .. Len(streamed')
               PROVE  streamed'[k] = k
    BY DEF StreamsInOrder
  <1>1. pc = "copy" /\ ~late /\ PointerIsOfThisRun /\ streamed \in Seq(Nat)
    BY DEF HandleCopy, PointerIsOfThisRun, dmaVars, runVars, StreamInv, TypeInv, TypeOK, RunTypes
  <1>2. \A i \in 1 .. Len(streamed) : streamed[i] = i
    BY <1>1 DEF StreamInv, StreamsInOrder
  <1>3. CASE copied < outer_count
    <2>1. streamed' = Append(streamed, Len(streamed) + 1)
      BY <1>1, <1>3, CopiedVector DEF HandleCopy
    <2> QED
      BY <1>1, <1>2, <2>1
  <1>4. CASE ~(copied < outer_count)
    BY <1>2, <1>4 DEF HandleCopy
  <1> QED
    BY <1>3, <1>4

\* handle() advances the number of sent vectors to the published ones.
LEMMA CountHandleCopy == ASSUME StreamInv, HandleCopy PROVE CountInv'
  <1> SUFFICES ASSUME InRun', ~late' PROVE CountInv'
    BY DEF CountInv
  <1>1. /\ InRun /\ ~late /\ pc = "copy" /\ streamed \in Seq(Nat)
        /\ copied \in Nat /\ outer_count \in Int /\ Level \in Int
    BY DEF HandleCopy, InRun, dmaVars, StreamInv, TypeInv, TypeOK, HardwareTypes, ProgramTypes, RunTypes,
           Level, Base, NumVectors, BITER
  <1>2. /\ UNCHANGED <<Level, acquired, flagVars, active, partial, outer_count>>
        /\ UNCHANGED <<partial_buffer_part, picked>>
    BY DEF HandleCopy, dmaVars, runVars, Level, Base, NumVectors, BITER
  <1>3. CASE copied < outer_count
    <2>1. Len(streamed') = Len(streamed) + 1 /\ copied' = copied + 1 /\ pc' = "copy"
      BY <1>1, <1>3 DEF HandleCopy
    <2>2. active # partial_buffer_part => outer_count = HalfBuffer
      BY <1>1 DEF StreamInv, ControlInv
    <2> QED
      BY <1>1, <1>2, <1>3, <2>1, <2>2 DEF CountInv, StreamInv, PointerIsOfThisRun
  <1>4. CASE ~(copied < outer_count)
    <2>1. UNCHANGED streamed /\ pc' = Resume
      BY <1>4 DEF HandleCopy
    <2>2. CASE partial
      BY <2>1, <2>2 DEF CountInv, Resume
    <2>3. CASE ~partial
      <3>1. active # partial_buffer_part /\ outer_count = HalfBuffer
        BY <1>1, <2>3 DEF StreamInv, ControlInv
      <3>2. ~first_data /\ ~last_data
        BY <1>1, <3>1 DEF StreamInv, HalfInv
      <3>3. Len(streamed) = Level
        BY <1>1, <1>4, <3>1 DEF StreamInv, CountInv
      <3> QED
        BY <1>2, <2>1, <2>3, <3>2, <3>3 DEF CountInv, Resume, flagVars
    <2> QED
      BY <2>2, <2>3
  <1> QED
    BY <1>3, <1>4

\* After the last message of a run fewer vectors than half of the buffer are left.
LEMMA FinalHandleCopy == ASSUME StreamInv, HandleCopy PROVE FinalInv'
  <1> SUFFICES ASSUME pc' = "finalize", ~late', PointerIsOfThisRun' PROVE FinalInv'
    BY DEF FinalInv, HandleCopy, Resume
  <1>1. /\ InRun /\ ~late /\ pc = "copy" /\ PointerIsOfThisRun
    BY DEF HandleCopy, InRun, dmaVars, runVars, PointerIsOfThisRun
  <1>2. /\ NumVectors \in 0 .. BITER - 1 /\ Base \in Int /\ BITER = HalfBuffer + HalfBuffer
        /\ acquired = Base + NumVectors /\ copied \in Nat
        /\ active \in {0, HalfBuffer} /\ outer_count \in Int /\ HalfBuffer \in Nat \ {0}
    BY DEF NumVectors, Base, StreamInv, TypeInv, TypeOK, HardwareTypes, ProgramTypes, BITER
  <1>3. ~(copied < outer_count) /\ partial
        /\ UNCHANGED <<streamed, acquired, active, partial_buffer_part>>
    BY <1>1 DEF HandleCopy, Resume, dmaVars, runVars
  <1>4. ~irq
    BY <1>1, <1>3 DEF StreamInv, QuietInv, StreamPCs
  <1>5. Level = IF NumVectors < HalfBuffer THEN Base ELSE Base + HalfBuffer
    BY <1>4 DEF Level
  <1>6. CASE active # partial_buffer_part
    <2>1. Len(streamed) = Level - HalfBuffer + copied /\ copied <= HalfBuffer
          /\ outer_count = HalfBuffer
      BY <1>1, <1>6 DEF StreamInv, CountInv, ControlInv
    <2>2. Len(streamed) = Level
      BY <1>2, <1>3, <1>5, <2>1
    <2> QED
      BY <1>2, <1>3, <1>5, <1>6, <2>2 DEF FinalInv
  <1>7. CASE active = partial_buffer_part
    <2>1. Len(streamed) = Level + copied /\ copied <= outer_count /\ Level + outer_count = acquired
      BY <1>1, <1>7 DEF StreamInv, CountInv
    <2>2. Len(streamed) = acquired
      BY <1>2, <1>3, <1>5, <2>1
    <2> QED
      BY <1>2, <1>3, <2>2 DEF FinalInv
  <1> QED
    BY <1>6, <1>7

-----------------------------------------------------------------------------
(* Every step. *)

\* Initially no run is under way.
LEMMA StreamInit == Init => StreamInv
  <1> SUFFICES ASSUME Init PROVE StreamInv
    OBVIOUS
  <1>1. TypeInv
    BY TypeInit, SMTT(40)
  <1> QED
    BY <1>1 DEF Init, StreamInv, QuietInv, ControlInv, BufferInv, HalfInv, PointerInv, CountInv,
                PickInv, FinalInv, StreamsInOrder, InRun, StreamPCs

\* Every step of the hardware, the interrupt and the program keeps the invariant.
LEMMA StreamStep == ASSUME IsrLatency = 0 PROVE StreamInv /\ [Next]_vars => StreamInv'
  <1> SUFFICES ASSUME StreamInv, [Next]_vars PROVE StreamInv'
    OBVIOUS
  <1>0. TypeInv'
    BY TypeStep DEF StreamInv
  <1> USE DEF TypeInv, TypeOK, FlagTypes, HardwareTypes, ProgramTypes, RunTypes, CopyBound,
              BITER, Slots, PCs, NumVectors, dmaVars, flagVars, cpuVars, runVars, StreamPCs,
              InRun, Base, Level, QuietInv, ControlInv, BufferInv, HalfInv, PointerInv,
              CountInv, PickInv, FinalInv, StreamsInOrder, PointerIsOfThisRun, Settled,
              Behind, StreamInv
  <1>1. CASE Sample
    BY <1>0, <1>1 DEF Sample
  <1>2. CASE Transfer
    <2>1. BufferInv' /\ PointerInv' /\ CountInv'
      <3> HIDE DEF TypeInv, QuietInv, ControlInv, BufferInv, HalfInv, PointerInv, CountInv,
                   PickInv, FinalInv, StreamsInOrder, StreamInv
      <3> QED
        BY <1>2, BufferTransfer, PointerTransfer, CountTransfer
    <2>2. QuietInv' /\ ControlInv' /\ PickInv' /\ StreamsInOrder'
      BY <1>2 DEF Transfer, NextCiter
    <2>3. HalfInv'
      BY <1>2, SMTT(40) DEF Transfer, NextCiter
    <2>4. FinalInv'
      BY <1>2 DEF Transfer, NextCiter
    <2> HIDE DEF TypeInv, QuietInv, ControlInv, BufferInv, HalfInv, PointerInv, CountInv,
                 PickInv, FinalInv, StreamsInOrder
    <2> QED
      BY <1>0, <2>1, <2>2, <2>3, <2>4
  <1>3. CASE Interrupt
    <2>1. PointerInv' /\ CountInv'
      <3> HIDE DEF TypeInv, QuietInv, ControlInv, BufferInv, HalfInv, PointerInv, CountInv,
                   PickInv, FinalInv, StreamsInOrder, StreamInv
      <3> QED
        BY <1>3, PointerInterrupt, CountInterrupt
    <2>2. QuietInv' /\ ControlInv' /\ BufferInv' /\ HalfInv' /\ PickInv' /\ FinalInv' /\ StreamsInOrder'
      BY <1>3 DEF Interrupt, Overflow
    <2> HIDE DEF TypeInv, QuietInv, ControlInv, BufferInv, HalfInv, PointerInv, CountInv,
                 PickInv, FinalInv, StreamsInOrder
    <2> QED
      BY <1>0, <2>1, <2>2
  <1>4. CASE OpEnd
    BY <1>0, <1>4 DEF OpEnd
  <1>5. CASE StartRun
    BY <1>0, <1>5 DEF StartRun, ResetForRun, PreparedCapacity
  <1>6. CASE StartFails
    BY <1>0, <1>6 DEF StartFails, ResetForRun, PreparedCapacity
  <1>7. CASE PollContinue
    BY <1>0, <1>7 DEF PollContinue
  <1>8. CASE PollDone
    BY <1>0, <1>8 DEF PollDone
  <1>9. CASE Delay
    BY <1>0, <1>9 DEF Delay, Settled
  <1>10. CASE StreamOverflow
    BY <1>0, <1>10 DEF StreamOverflow, Resume
  <1>11. CASE StreamTestFirst
    BY <1>0, <1>11 DEF StreamTestFirst
  <1>12. CASE StreamTestLast
    BY <1>0, <1>12 DEF StreamTestLast, Resume
  <1>13. CASE StreamClearFirst
    BY <1>0, <1>13 DEF StreamClearFirst
  <1>14. CASE StreamClearLast
    BY <1>0, <1>14 DEF StreamClearLast, SecondHalf
  <1>15. CASE StreamRemainder
    BY <1>0, <1>15, SMTT(40) DEF StreamRemainder, RemainderCount, Resume
  <1>16. CASE HandleFits
    BY <1>0, <1>16 DEF HandleFits, Fits
  <1>17. CASE HandleRefuses
    BY <1>0, <1>17 DEF HandleRefuses, Fits, Resume
  <1>18. CASE HandleOverruns
    BY <1>0, <1>18 DEF HandleOverruns
  <1>19. CASE HandleCopy
    <2>1. CountInv' /\ FinalInv' /\ StreamsInOrder'
      <3> HIDE DEF TypeInv, QuietInv, ControlInv, BufferInv, HalfInv, PointerInv, CountInv,
                   PickInv, FinalInv, StreamsInOrder, StreamInv
      <3> QED
        BY <1>19, CountHandleCopy, FinalHandleCopy, OrderHandleCopy
    <2>2. QuietInv' /\ ControlInv' /\ BufferInv' /\ HalfInv' /\ PointerInv' /\ PickInv'
      BY <1>19 DEF HandleCopy, Resume
    <2> HIDE DEF TypeInv, QuietInv, ControlInv, BufferInv, HalfInv, PointerInv, CountInv,
                 PickInv, FinalInv, StreamsInOrder
    <2> QED
      BY <1>0, <2>1, <2>2
  <1>20. CASE Finalize
    BY <1>0, <1>20 DEF Finalize, FinalizeOK
  <1>21. CASE Reboot
    BY <1>0, <1>21 DEF Reboot
  <1>22. CASE UNCHANGED vars
    BY <1>0, <1>22, SMTT(40) DEF vars
  <1> QED
    BY <1>1, <1>2, <1>3, <1>4, <1>5, <1>6, <1>7, <1>8, <1>9, <1>10, <1>11, <1>12, <1>13, <1>14, <1>15, <1>16, <1>17, <1>18, <1>19, <1>20, <1>21, <1>22, ZenonT(40)
       DEF Next, Program, Stream

\* The three properties follow from the invariant.
LEMMA StreamInvImplies ==
  StreamInv => StreamsInOrder /\ LossIsBounded /\ RemainderCompletesRun
  BY DEF StreamInv, FinalInv, LossIsBounded, RemainderCompletesRun

\* stream() and handle(): in a run that keeps up, the clients receive the vectors in
\* the order of acquisition, none twice, none skipped, none overwritten in between.
THEOREM StreamedInOrder == ASSUME IsrLatency = 0 PROVE Spec => []StreamsInOrder
  BY StreamInit, StreamStep, StreamInvImplies, PTL DEF Spec

\* run_next_flexio(): such a run that ends DONE has lost fewer vectors than half of
\* the buffer holds.
THEOREM LossBounded == ASSUME IsrLatency = 0 PROVE Spec => []LossIsBounded
  BY StreamInit, StreamStep, StreamInvImplies, PTL DEF Spec

\* run_next_flexio(): and has lost none if its last call of stream() found no half.
THEOREM RemainderCompletes == ASSUME IsrLatency = 0 PROVE Spec => []RemainderCompletesRun
  BY StreamInit, StreamStep, StreamInvImplies, PTL DEF Spec
=============================================================================
