------------------------------- MODULE RunData -------------------------------
(***************************************************************************)
(* What a traditional run samples and sends.  run_next_traditional() plans *)
(* how often it samples and how long it sleeps in between, lets every      *)
(* sample write all channels into a buffer that has room for the requested *)
(* ones, and writes the buffer as a JSON message piece by piece.  Samples  *)
(* of the streaming acquisition take their text from a table.              *)
(***************************************************************************)
EXTENDS Integers, Sequences

CONSTANTS
  NUM_CHANNELS,     \* channels of the ADC (8)
  MaxNumSamples,    \* max_num_samples (16384)
  ChannelCounts,    \* bound: num_channels of the runs, which are not checked here
  OpTimes,          \* bound: optime_us of the runs
  SamplingTimes,    \* bound: sampling_time_us as it is measured
  LongDelay,        \* microseconds from which on delay() is used (100000)
  Milli,            \* microseconds of a millisecond (1000)
  Raws              \* bound: readings of the streaming acquisition

ASSUME RunDataAssumption ==
  /\ NUM_CHANNELS \in Nat \ {0} /\ MaxNumSamples \in Nat \ {0} /\ Milli \in Nat \ {0} /\ LongDelay \in Nat
  /\ ChannelCounts \subseteq Nat /\ OpTimes \subseteq Nat /\ SamplingTimes \subseteq Nat \ {0}

ASSUME RawsAssumption == \A raw \in Raws : raw \in Int /\ 0 <= raw /\ raw <= 16383

VARIABLES
  request,    \* [channels, optime] of the run
  plan,       \* [sleep, time, num, left]: sleep, sampling time, number of samples, remaining time
  buffer,     \* its entries, each the set of readings that were ored into it; none if empty
  allocated,  \* entries that malloc() has given
  sample,     \* the next sample
  spent,      \* microseconds since OP began
  message,    \* the run data message, see below
  at,         \* [row, channel] that is written to it next
  reading,    \* [raw, index] of a reading that is looked up in the table
  dpc

dVars == <<request, plan, buffer, allocated, sample, spent, message, at, reading, dpc>>

Unwritten == <<-1, -1>>
Readings == ({-1} \cup 0..MaxNumSamples) \X (-1..NUM_CHANNELS)

NoRequest == [channels |-> 0, optime |-> 0]
NoPlan == [sleep |-> 0, time |-> 0, num |-> 0, left |-> 0]
NoMessage == [comma |-> FALSE, last |-> "none", open |-> <<>>, ok |-> TRUE, values |-> <<>>]
FirstPlace == [row |-> 0, channel |-> 0]

DInit ==
  /\ request = NoRequest /\ plan = NoPlan
  /\ buffer = <<>> /\ allocated = 0 /\ sample = 0 /\ spent = 0 /\ message = NoMessage /\ at = FirstPlace
  /\ reading = [raw |-> 0, index |-> 0] /\ dpc = "idle"

-----------------------------------------------------------------------------
\* Mutant: sampling as fast as possible.
NoSleep(optime, time) == 0

\* sampling_sleep_us: no sleep, or what the sampling leaves of the time of one sample
SamplingSleep(optime, time) ==
  LET total == optime \div MaxNumSamples IN IF total < time THEN 0 ELSE total - time

\* Quotient and remainder; division by zero, without channels and with a short OP time, has
\* no defined outcome.
Divisions(n, d) == IF d = 0 THEN (0..1) \X (0..n) ELSE {<<n \div d, n % d>>}

\* Every sample writes NUM_CHANNELS entries, the last one beyond those that are sent.
WithPadding(entries) == entries + NUM_CHANNELS

\* run_next_traditional() up to OP: measure, plan, allocate.  The buffer is not initialised.
Begin(channels, optime, time) ==
  /\ dpc = "idle" /\ (time = 0) = (channels = 0)
  /\ \E q \in Divisions(optime, SamplingSleep(optime, time) + time), given \in BOOLEAN :
       LET num == IF q[1] > MaxNumSamples THEN MaxNumSamples ELSE q[1]
           entries == IF channels > 0 /\ given THEN WithPadding(num * channels) ELSE 0
       IN /\ plan' = [sleep |-> SamplingSleep(optime, time), time |-> time, num |-> num, left |-> q[2]]
          /\ allocated' = entries /\ buffer' = [i \in 1..entries |-> {Unwritten}]
  /\ request' = [channels |-> channels, optime |-> optime]
  /\ sample' = 0 /\ spent' = 0 /\ message' = NoMessage /\ at' = FirstPlace /\ dpc' = "op"
  /\ reading' = [raw |-> 0, index |-> 0]

\* sample_raw() clears an entry and sets the bits of its channel.
Cleared(old, value) == {value}

\* Position of a channel of a sample in the buffer
Entry(s, channel) == s * request.channels + channel + 1

\* One round of the loop: sample into the buffer, and sleep.
TakeSample ==
  /\ dpc = "op" /\ allocated > 0 /\ sample < plan.num
  /\ LET into == Entry(sample, 0)..Entry(sample, NUM_CHANNELS - 1)
     IN buffer' = [i \in DOMAIN buffer \cup into |->
          IF i \in into THEN Cleared(IF i \in DOMAIN buffer THEN buffer[i] ELSE {}, <<sample, i - Entry(sample, 0)>>)
          ELSE buffer[i]]
  /\ sample' = sample + 1 /\ spent' = spent + plan.time + plan.sleep
  /\ UNCHANGED <<request, plan, allocated, message, at, reading, dpc>>

\* What is left of the OP time; without a buffer, the whole of it, in milliseconds if long.
Wait ==
  /\ dpc = "op" /\ (allocated > 0 => sample = plan.num)
  /\ spent' = IF allocated > 0 THEN spent + plan.left
              ELSE IF request.optime > LongDelay THEN (request.optime \div Milli) * Milli ELSE request.optime
  /\ dpc' = IF allocated > 0 THEN "send" ELSE IF request.channels > 0 THEN "ERROR" ELSE "DONE"
  /\ UNCHANGED <<request, plan, buffer, allocated, sample, message, at, reading>>

-----------------------------------------------------------------------------
(* utils::StreamingJson.  Of the text that is printed there is what a reader of JSON has    *)
(* made of it: the brackets that are open, the last token, and whether all tokens were in   *)
(* their places.  The document has a flag for a comma that is pending, and the readings     *)
(* that were written into it.                                                               *)

Ends == {"value", "end_list", "end_dict"}
Innermost(open) == IF open = <<>> THEN "none" ELSE open[Len(open)]

\* Whether a token may come next
HasPlace(doc, kind) ==
  LET innermost == Innermost(doc.open)
  IN CASE kind = "key" -> innermost = "dict" /\ doc.last \in {"dict", "comma"}
       [] kind = "comma" -> innermost # "none" /\ doc.last \in Ends
       [] kind = "end_list" -> innermost = "list" /\ doc.last \in Ends \cup {"list"}
       [] kind = "end_dict" -> innermost = "dict" /\ doc.last \in Ends \cup {"dict"}
       [] OTHER -> doc.last \in {"none", "key", "list"} \/ (doc.last = "comma" /\ innermost = "list")

OpenAfter(open, kind) ==
  CASE kind \in {"list", "dict"} -> Append(open, kind)
    [] kind \in {"end_list", "end_dict"} /\ open # <<>> -> SubSeq(open, 1, Len(open) - 1)
    [] OTHER -> open

Out(doc, kind, comma) ==
  [comma |-> comma, last |-> kind, open |-> OpenAfter(doc.open, kind),
   ok |-> doc.ok /\ HasPlace(doc, kind), values |-> doc.values]

check_comma(doc) == IF doc.comma THEN Out(doc, "comma", FALSE) ELSE doc
begin_dict(doc) == Out(doc, "dict", FALSE)
end_dict(doc) == Out(doc, "end_dict", TRUE)
begin_list(doc) == Out(doc, "list", FALSE)
end_list(doc) == Out(doc, "end_list", TRUE)
key(doc) == Out(check_comma(doc), "key", FALSE)
val(doc) == Out(check_comma(doc), "value", TRUE)
kv(doc) == val(key(doc))

\* A reading is printed to the stream of the document.
print_reading(doc, value) == [val(doc) EXCEPT !.values = Append(@, value)]

\* Mutant: nobody looks for a comma between lists.
NotSeparated(doc, row) == doc

\* begin_list() does not look for a comma, so that the caller has to between lists.
Separated(doc, row) == IF row # plan.num - 1 THEN check_comma(doc) ELSE doc

(* StreamingRunDataNotificationHandler::handle(), call by call *)

\* Envelope, entity, and the beginning of the data
SendHead ==
  /\ dpc = "send" /\ dpc' = "rows"
  /\ LET envelope == begin_dict(key(kv(begin_dict(NoMessage))))
         entity == end_list(val(val(begin_list(key(kv(envelope))))))
     IN message' = begin_list(key(entity))
  /\ at' = FirstPlace
  /\ UNCHANGED <<request, plan, buffer, allocated, sample, spent, reading>>

BeginRow ==
  /\ dpc = "rows" /\ at.row < plan.num /\ dpc' = "row"
  /\ message' = begin_list(message)
  /\ UNCHANGED <<request, plan, buffer, allocated, sample, spent, at, reading>>

SendReading ==
  /\ dpc = "row" /\ at.channel < request.channels
  /\ message' = print_reading(message, buffer[Entry(at.row, at.channel)])
  /\ at' = [at EXCEPT !.channel = @ + 1]
  /\ UNCHANGED <<request, plan, buffer, allocated, sample, spent, reading, dpc>>

EndRow ==
  /\ dpc = "row" /\ at.channel = request.channels /\ dpc' = "rows"
  /\ message' = Separated(end_list(message), at.row)
  /\ at' = [row |-> at.row + 1, channel |-> 0]
  /\ UNCHANGED <<request, plan, buffer, allocated, sample, spent, reading>>

\* The message ends, the buffer is freed, and the run DONE.
SendEnd ==
  /\ dpc = "rows" /\ at.row = plan.num /\ dpc' = "DONE"
  /\ message' = end_dict(end_dict(end_list(message)))
  /\ buffer' = <<>> /\ allocated' = 0
  /\ UNCHANGED <<request, plan, sample, spent, at, reading>>

\* run_next_traditional() returns, and its locals are gone.
Return ==
  /\ dpc \in {"DONE", "ERROR"} /\ dpc' = "idle"
  /\ request' = NoRequest /\ plan' = NoPlan /\ buffer' = <<>> /\ sample' = 0 /\ spent' = 0
  /\ message' = NoMessage /\ at' = FirstPlace
  /\ UNCHANGED <<allocated, reading>>

-----------------------------------------------------------------------------

raw_to_normalized(raw) == LET i == (raw * 1527) \div 10000 IN IF i < 2500 THEN i ELSE 2500

\* raw_to_str(): the entry of the table whose text is sent
LookUp(raw) ==
  /\ dpc = "idle" /\ reading' = [raw |-> raw, index |-> raw_to_normalized(raw)]
  /\ UNCHANGED <<request, plan, buffer, allocated, sample, spent, message, at, dpc>>

DNext ==
  \/ \E channels \in ChannelCounts, optime \in OpTimes, time \in SamplingTimes \cup {0} : Begin(channels, optime, time)
  \/ TakeSample \/ Wait
  \/ SendHead \/ BeginRow \/ SendReading \/ EndRow \/ SendEnd
  \/ Return
  \/ \E raw \in Raws : LookUp(raw)

DSpec == DInit /\ [][DNext]_dVars
-----------------------------------------------------------------------------
\* The message is being written.
Sending == {"send", "rows", "row"}

\* No sample writes outside of the buffer, whatever number of channels was asked for.
DTypeOK ==
  /\ request.channels \in Nat /\ request.optime \in Nat
  /\ plan.num \in 0..MaxNumSamples /\ sample \in 0..plan.num /\ spent \in Nat
  /\ DOMAIN buffer = 1..allocated /\ \A i \in 1..allocated : buffer[i] \subseteq Readings
  /\ dpc \in Sending \cup {"idle", "op", "DONE", "ERROR"}

\* The OP time of a run is never longer than requested, and shorter by less than one
\* microsecond per sample (by less than a millisecond without sampling), although the
\* samples and sleeps that make it up are computed with divisions.
OpTimeIsKept ==
  dpc \in Sending \cup {"DONE", "ERROR"} =>
    /\ spent <= request.optime
    /\ request.optime - spent < (IF sample > 0 \/ dpc \in Sending THEN MaxNumSamples ELSE Milli)

\* From the end of OP until the buffer is freed, the place of every reading in the buffer holds it and nothing else,
\* although every sample writes over the place of the next ones and the buffer begins with
\* what was on the heap.
BufferHoldsSamples ==
  dpc \in Sending =>
    \A row \in 0..plan.num - 1, channel \in 0..request.channels - 1 :
      channel < NUM_CHANNELS => buffer[Entry(row, channel)] = {<<row, channel>>}

\* A run that is DONE has sent as many rows as planned, each with the readings of its own
\* sample in the order of the channels.
SampledIsSent ==
  dpc = "DONE" /\ request.channels > 0 =>
    /\ Len(message.values) = plan.num * request.channels
    /\ \A row \in 0..plan.num - 1, channel \in 0..request.channels - 1 :
         channel < NUM_CHANNELS => message.values[Entry(row, channel)] = {<<row, channel>>}

\* The message that is put together by single calls is one JSON document, for every number of
\* rows and channels: every token has its place when it is printed, and all brackets are closed at the end.
MessageIsWellFormed == message.ok /\ (dpc = "DONE" => message.open = <<>>)

\* The text of the table, (1250 - index) / 1000, is within 0.002 of raw_to_float().
TableFitsFloat ==
  LET error == reading.index * 16383 - 2500 * reading.raw
  IN  reading.index \in Nat /\ reading.index <= 2500 /\ error <= 2 * 16383 /\ -error <= 2 * 16383

\* Sampling: the OP time is kept, no sample leaves the buffer, each is in its place when OP
\* ends, and the texts of the table are those of the readings.
SamplingIsSafe == DTypeOK /\ OpTimeIsKept /\ BufferHoldsSamples /\ TableFitsFloat

\* StreamingRunDataNotificationHandler::handle(): what is sent are the samples in their
\* order, as one JSON document.
DataIsSent == SampledIsSent /\ MessageIsWellFormed
=============================================================================
