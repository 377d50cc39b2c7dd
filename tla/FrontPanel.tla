------------------------------ MODULE FrontPanel ------------------------------
(***************************************************************************)
(* The front panel: eight LEDs, a function generator (AD9834) and six      *)
(* outputs of a converter (DAC60508).  Its operations are those that the   *)
(* carrier calls for every entity, and leds::set().  Voltages are integers *)
(* in parts of the machine unit, One; frequencies in quarters of the clock *)
(* of the generator; phases in quarters of a turn.                         *)
(***************************************************************************)
EXTENDS Integers, Sequences

CONSTANTS
  One,           \* the machine unit
  LedValues,     \* bound: values of the LEDs
  ConfigItems,   \* bound: what a configuration says, [key, value]
  Garbage,       \* bound: values of members that the constructor leaves alone
  MaxConfigs,    \* bound: configurations
  MaxFaults,     \* bound: writes that fail
  BadType,       \* a value of another type than the key takes
  Unknown        \* what a register holds after a failure, or before it was written

Channels == <<"amplitude", "low", "high", "offset", "out0", "out1">>
Levels == {Channels[i] : i \in 1..6}
WaveForms == {"sine", "sine_and_square", "triangle"}

ASSUME PanelAssumption == One \in Nat \ {0} /\ LedValues \subseteq 0..255 /\ Garbage \subseteq Int /\ {MaxConfigs, MaxFaults} \subseteq Nat

\* The values that are no BadType have the type that is<T>() has tested.  A negative
\* frequency or phase is left out: its conversion to an unsigned number is undefined.
ASSUME ItemsAssumption ==
  \A item \in ConfigItems :
    item.value # BadType =>
      /\ item.key = "leds" => item.value \in 0..255
      /\ item.key \in {"frequency", "phase"} => item.value \in Nat
      /\ item.key = "sleep" => item.value \in BOOLEAN
      /\ item.key \in Levels => item.value \in Int
      /\ item.key = "dac_outputs" => item.value \in Int \X Int

\* The two marks are no numbers, and BadType no other value of a key either.
ASSUME MarksAssumption ==
  /\ Unknown \notin Int
  /\ BadType \notin Int /\ BadType \notin BOOLEAN /\ BadType \notin WaveForms /\ BadType \notin Int \X Int

VARIABLES
  panel,       \* led_states and the members of SignalGenerator
  chips,       \* registers: LEDs, control and data of the generator, outputs of the converter
  installed,   \* whether the generator has answered in init()
  panelStatus, \* code of the last write, or Unknown when memory has changed since
  failed,      \* history: what has failed in this write
  used         \* bound: configurations and writes that failed so far

fVars == <<panel, chips, installed, panelStatus, failed, used>>

-----------------------------------------------------------------------------
(* AD9834 and DAC60508 *)

\* The frequency register has 28 bits and is sent in two halves, the lower one first.
HalfWord == 16384           \* 2^14
QuarterClock == 67108864    \* 2^28 for the frequency of the clock
FrequencyHalves(f) == <<(f * QuarterClock) % HalfWord, ((f * QuarterClock) \div HalfWord) % HalfWord>>
PhaseWord(p) == (p % 4) * 1024

\* The control register keeps its wave form when told one that it does not know.
WaveWritten(before, w) == IF w \in WaveForms THEN w ELSE before

\* float_to_raw() of n/d of the reference of 2.5 V
float_to_raw(n, d) == IF n <= 0 THEN 0 ELSE IF n >= d THEN 16 * 4095 ELSE 16 * ((n * 4095) \div d)

\* The amplitude is inverted; the others pass a levelshift that inverts.
ChannelRaw(ch, v) == IF ch = "amplitude" THEN float_to_raw(One - v, One) ELSE float_to_raw(One - v, 2 * One)

-----------------------------------------------------------------------------
\* The panel after init(): LEDs off; the generator sleeps, if the converter has answered.
FInit ==
  \E g \in Garbage, w \in WaveForms \cup {"undefined"} :
    /\ installed \in BOOLEAN
    /\ panel = [leds |-> 0, frequency |-> 0, phase |-> 0, wave |-> w, sleep |-> TRUE,
                level |-> [ch \in Levels |-> g]]
    /\ chips = [leds |-> 0, sleep |-> IF installed THEN TRUE ELSE Unknown,
                wave |-> IF installed THEN "sine" ELSE Unknown, frequency |-> Unknown, phase |-> Unknown,
                raw |-> [ch \in Levels |-> Unknown]]
    /\ panelStatus = Unknown /\ failed = {} /\ used = [configs |-> 0, faults |-> 0]

\* reset(CIRCUIT_RESET): the LEDs at once, the generator with the next write.
PanelReset ==
  /\ panel' = [panel EXCEPT !.leds = 0, !.sleep = TRUE]
  /\ chips' = [chips EXCEPT !.leds = 0]
  /\ panelStatus' = Unknown /\ failed' = {}
  /\ UNCHANGED <<installed, used>>

\* The first channel that cannot be written ends the writing; 7 if there is none.
FirstFailing(F) ==
  CHOOSE i \in 1..7 : /\ i = 7 \/ Channels[i] \in F
                      /\ \A j \in 1..(i - 1) : Channels[j] \notin F
Index(ch) == CHOOSE i \in 1..6 : Channels[i] = ch

\* Mutant: the status of the last output is dropped.
StatusButLast(F) == IF FirstFailing(F) >= 6 THEN 0 ELSE -FirstFailing(F)

\* SignalGenerator::write_to_hardware() returns -1 for the first channel, -2 for the next.
GeneratorStatus(F) == IF FirstFailing(F) = 7 THEN 0 ELSE -FirstFailing(F)

GeneratorWritten(m, c, F) ==
  [c EXCEPT !.sleep = m.sleep, !.wave = WaveWritten(c.wave, m.wave),
            !.frequency = FrequencyHalves(m.frequency), !.phase = PhaseWord(m.phase),
            !.raw = [ch \in Levels |-> CASE Index(ch) < FirstFailing(F) -> ChannelRaw(ch, m.level[ch])
                                         [] Index(ch) = FirstFailing(F) -> Unknown
                                         [] Index(ch) > FirstFailing(F) -> c.raw[ch]]]

\* write_to_hardware(): LEDs, then the generator if there is one.  status::attach() adds
\* the codes, so that 1 of the LEDs and -1 of the amplitude are 0.
WritePanel(m, F) ==
  LET c == [chips EXCEPT !.leds = IF "leds" \in F THEN Unknown ELSE m.leds]
  IN  /\ F # {} => used.faults < MaxFaults
      /\ chips' = IF installed THEN GeneratorWritten(m, c, F) ELSE c
      /\ panelStatus' = 128 * ((IF "leds" \in F THEN 1 ELSE 0) + (IF installed THEN GeneratorStatus(F) ELSE 0))
      /\ failed' = F
      /\ used' = [used EXCEPT !.faults = @ + IF F = {} THEN 0 ELSE 1]

PanelWrite(F) == WritePanel(panel, F) /\ UNCHANGED <<panel, installed>>

\* leds::set() writes all of the panel and drops the status.
SetLeds(val, F) ==
  /\ panel' = [panel EXCEPT !.leds = val]
  /\ WritePanel(panel', F)
  /\ UNCHANGED installed

-----------------------------------------------------------------------------
(* Configuration, key by key *)

InRange(ch, v) == v <= One /\ v >= IF ch = "amplitude" THEN 0 ELSE -One

\* What the key does to the members.  Levels out of range are left out without notice.
Applied(m, item) ==
  LET v == item.value
  IN  CASE v = BadType -> m
        [] item.key \in {"leds", "frequency", "phase", "sleep"} /\ v # BadType -> [m EXCEPT ![item.key] = v]
        [] item.key = "wave" /\ v # BadType -> IF v \in WaveForms THEN [m EXCEPT !.wave = v] ELSE m
        [] item.key \in Levels /\ v # BadType ->
             IF InRange(item.key, v) THEN [m EXCEPT !.level[item.key] = v] ELSE m
        [] item.key = "dac_outputs" /\ v # BadType ->
             [m EXCEPT !.level["out0"] = IF InRange("out0", v[1]) THEN v[1] ELSE @,
                       !.level["out1"] = IF InRange("out0", v[1]) /\ InRange("out1", v[2]) THEN v[2] ELSE @]
        [] OTHER -> m

\* Whether the key is accepted
Accepted(item) ==
  /\ item.key # "other" /\ item.value # BadType
  /\ item.key = "wave" => item.value \in WaveForms
  /\ item.key = "dac_outputs" => InRange("out0", item.value[1]) /\ InRange("out1", item.value[2])

\* The members after 0, 1, ... of the items: the first one that is refused ends the loop,
\* with what it may have changed itself.
After(m, items) ==
  LET after[n \in 0..Len(items)] ==
        IF n = 0 THEN m
        ELSE IF \A k \in 1..(n - 1) : Accepted(items[k]) THEN Applied(after[n - 1], items[n])
        ELSE after[n - 1]
  IN after

Configured(m, items) == After(m, items)[Len(items)]

Item(k, v) == [key |-> k, value |-> v]

\* config_self_to_json(); an undefined wave form has no key.
Report(m) ==
  <<Item("leds", m.leds), Item("frequency", m.frequency), Item("phase", m.phase)>> \o
  (IF m.wave \in WaveForms THEN <<Item("wave", m.wave)>> ELSE <<>>) \o
  <<Item("amplitude", m.level["amplitude"]), Item("low", m.level["low"]), Item("high", m.level["high"]),
    Item("offset", m.level["offset"]), Item("sleep", m.sleep),
    Item("dac_outputs", <<m.level["out0"], m.level["out1"]>>)>>

\* config_self_from_json()
PanelConfig(items) ==
  /\ used.configs < MaxConfigs /\ used' = [used EXCEPT !.configs = @ + 1]
  /\ panel' = Configured(panel, items)
  /\ panelStatus' = Unknown /\ failed' = {}
  /\ UNCHANGED <<chips, installed>>

Faults == {{}} \cup {{ch} : ch \in Levels \cup {"leds"}} \cup {{"leds", ch} : ch \in Levels}

FNext ==
  \/ PanelReset
  \/ \E F \in Faults : PanelWrite(F) \/ \E val \in LedValues : SetLeds(val, F)
  \/ used.configs < MaxConfigs /\ \E a, b \in ConfigItems : PanelConfig(<<a, b>>)

FSpec == FInit /\ [][FNext]_fVars
-----------------------------------------------------------------------------
\* The words an output is sent, and the sums of codes that a write returns
OutputWords == {16 * n : n \in 0..4095}
Codes == {Unknown} \cup {128 * n : n \in -6..1}

\* Types; nothing but 12 bits, left-aligned in 16, is sent to an output, even when the
\* members have never been set.
FTypeOK ==
  /\ panel.leds \in 0..255 /\ panel.sleep \in BOOLEAN /\ panel.wave \in WaveForms \cup {"undefined"}
  /\ \A ch \in Levels : chips.raw[ch] = Unknown \/ chips.raw[ch] \in OutputWords
  /\ installed \in BOOLEAN /\ panelStatus \in Codes

\* The registers as the members of the panel say
Shown(m) ==
  /\ chips.leds = m.leds
  /\ installed =>
       /\ chips.sleep = m.sleep /\ (m.wave \in WaveForms => chips.wave = m.wave)
       /\ chips.phase = PhaseWord(m.phase)
       /\ chips.frequency[1] + HalfWord * chips.frequency[2] = (m.frequency % 4) * QuarterClock
       /\ \A ch \in Levels : chips.raw[ch] = ChannelRaw(ch, m.level[ch])

\* write_to_hardware() of the panel: after a status of 0, and until the memory is changed
\* again, every register is as configured, whatever the writes before have left; but for
\* a failure of the LEDs together with one of the amplitude, whose codes add up to 0.
WrittenIsShown == panelStatus = 0 => Shown(panel) \/ {"leds", "amplitude"} \subseteq failed

\* config_self_to_json(), config_self_from_json(): a report is accepted by a panel in the
\* state after start-up, or in any other, and makes it the panel that was reported; unless
\* members have never been set.
ReportRestores ==
  panel.wave \in WaveForms /\ (\A ch \in Levels : InRange(ch, panel.level[ch])) =>
    /\ \A k \in 1..Len(Report(panel)) : Accepted(Report(panel)[k])
    /\ \A g \in Garbage :
         Configured([leds |-> 255, frequency |-> 0, phase |-> 0, wave |-> "undefined", sleep |-> ~panel.sleep,
                     level |-> [ch \in Levels |-> g]], Report(panel)) = panel

\* LEDs and signal generator: words in the range of the converter, a status of 0 only when
\* the chips show the configuration, and a report that can be sent back.
PanelIsShown == FTypeOK /\ WrittenIsShown /\ ReportRestores
=============================================================================
