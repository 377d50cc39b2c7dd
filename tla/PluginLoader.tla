---------------------------- MODULE PluginLoader ----------------------------
(***************************************************************************)
(* Plugins: code that is sent in base64, decoded into a block of memory    *)
(* and called.  load_plugin and unload_plugin are each one handler.        *)
(* Characters are their ASCII codes; the code of a plugin is its bytes.    *)
(***************************************************************************)
EXTENDS Integers, Sequences, FiniteSets

CONSTANTS
  PluginCodes,   \* bound: plugins that clients send, as sequences of bytes
  Payloads,      \* bound: other payloads they send, as sequences of characters
  MemSize,       \* memsize: bytes of the memory for plugins
  MaxLoads       \* bound: messages

ASSUME PluginAssumption ==
  /\ PluginCodes \subseteq Seq(0..255) /\ Payloads \subseteq Seq(0..127)
  /\ MemSize \in Nat /\ MaxLoads \in Nat

VARIABLES
  plugin,      \* the slot: [size, exit], or NoPlugin
  memory,      \* the memory for plugins, as far as it was written
  code,        \* history: what the client meant to load into it
  called,      \* history: entry and exit points called since the slot was last free
  result,      \* what the last message returned
  device,      \* "running", or stopped: "asserted" by assert(false), "overrun" when memory
               \* behind that for plugins was written, after which nothing is known
  loads        \* bound: messages so far

pVars == <<plugin, memory, code, called, result, device, loads>>
NoPlugin == [size |-> 0, exit |-> "free"]

PInit ==
  /\ plugin = NoPlugin /\ memory = <<>> /\ code = <<>> /\ called = <<>>
  /\ result = 0 /\ device = "running" /\ loads = 0

-----------------------------------------------------------------------------
(* etl::base64 *)

padding == 61

get_sextet_from_index(index) ==
  CASE index < 26 -> 65 + index
    [] index \in 26..51 -> 97 + index - 26
    [] index \in 52..61 -> 48 + index - 52
    [] index = 62 -> 43
    [] index = 63 -> 47

\* What is none of the characters is met by assert(false).
Known(c) == c \in (65..90) \cup (97..122) \cup (48..57) \cup {43, 47}
get_index_from_sextet(c) ==
  CASE c \in 65..90 -> c - 65
    [] c \in 97..122 -> c - 97 + 26
    [] c \in 48..57 -> c - 48 + 52
    [] c = 43 -> 62
    [] c = 47 -> 63
    [] OTHER -> 0

RoundUp4(n) == ((n + 3) \div 4) * 4
encode_size(n) == IF n % 3 = 0 THEN (n * 8) \div 6 ELSE RoundUp4((n * 8) \div 6)

\* Byte j (from 0); behind the last one, zero
ByteAt(bytes, j) == IF j < Len(bytes) THEN bytes[j + 1] ELSE 0

\* Sextet k (from 0) of the input: bits of byte k*3/4 and, where they are split, of the next.
Sextet(bytes, k) ==
  LET i == (k \div 4) * 3
  IN  CASE k % 4 = 0 -> ByteAt(bytes, i) \div 4
        [] k % 4 = 1 -> (ByteAt(bytes, i) % 4) * 16 + ByteAt(bytes, i + 1) \div 16
        [] k % 4 = 2 -> (ByteAt(bytes, i + 1) % 16) * 4 + ByteAt(bytes, i + 2) \div 64
        [] k % 4 = 3 -> ByteAt(bytes, i + 2) % 64

encode(bytes) ==
  [k \in 1..encode_size(Len(bytes)) |->
     IF k <= (Len(bytes) * 8 + 5) \div 6 THEN get_sextet_from_index(Sextet(bytes, k - 1)) ELSE padding]

\* The characters before the first padding
Significant(text) == SubSeq(text, 1, Cardinality({i \in DOMAIN text : \A j \in 1..i : text[j] # padding}))

\* Computed from one character less; nothing before the padding wraps around.
TooMuch == 2147483647
decode_size(text) ==
  LET n == Len(Significant(text)) - 1
  IN  IF n < 0 THEN TooMuch ELSE n - n \div 4

IndexAt(text, j) == get_index_from_sextet(text[j + 1])
Octet(text, k) ==
  LET i == (k \div 3) * 4
  IN  CASE k % 3 = 0 -> IndexAt(text, i) * 4 + IndexAt(text, i + 1) \div 16
        [] k % 3 = 1 -> (IndexAt(text, i + 1) % 16) * 16 + IndexAt(text, i + 2) \div 4
        [] k % 3 = 2 -> (IndexAt(text, i + 2) % 4) * 64 + IndexAt(text, i + 3)

\* Nothing is decoded when the output is too small; then there is no assert either.
Decodes(text, room) == text # <<>> /\ decode_size(text) <= room
Asserts(text, room) == Decodes(text, room) /\ \E i \in DOMAIN Significant(text) : ~Known(Significant(text)[i])
decode(text, room) ==
  IF ~Decodes(text, room) THEN <<>>
  ELSE [k \in 1..(Len(Significant(text)) * 6) \div 8 |-> Octet(Significant(text), k - 1)]

-----------------------------------------------------------------------------
Answer(error) == result' = error /\ loads' = loads + 1

\* "Already have plugin loaded", no entry, wrong address, other firmware
LoadRefused ==
  /\ loads < MaxLoads /\ device = "running"
  /\ IF plugin # NoPlugin THEN Answer(1) ELSE \E error \in {3, 4, 5} : Answer(error)
  /\ UNCHANGED <<plugin, memory, code, called, device>>

\* Mutant: the code is put behind that of the plugin before.
Appended(bytes) == memory \o bytes

\* The memory with these bytes at its beginning
Overwritten(bytes) == bytes \o SubSeq(memory, Len(bytes) + 1, Len(memory))

\* unload() after an error
FreedAfterError(size, exit) == NoPlugin

\* load_and_execute() with a payload; entry and exit are aligned or not.  load() returns
\* 2 for a payload that is too large, and the caller takes only 0 for an error: the
\* payload is decoded all the same.
Load(text, meant, entry, exit, immediately) ==
  LET size == (Len(text) \div 4) * 3
      bytes == decode(text, size)
      runs == Len(bytes) = size /\ entry = "aligned"
  IN  /\ loads < MaxLoads /\ device = "running" /\ plugin = NoPlugin
      /\ ~Asserts(text, size)
      /\ memory' = Overwritten(bytes) /\ code' = meant
      /\ device' = IF Len(bytes) > MemSize THEN "overrun" ELSE "running"
      /\ plugin' = IF ~runs THEN FreedAfterError(size, exit)
                   ELSE IF immediately THEN NoPlugin ELSE [size |-> size, exit |-> exit]
      /\ called' = IF runs THEN <<"entry">> ELSE <<>>
      /\ Answer(IF Len(bytes) # size THEN 7 ELSE IF ~runs THEN 8 ELSE 0)

\* A payload with a character that is none of base64: assert(false)
LoadAsserts(text) ==
  /\ loads < MaxLoads /\ device = "running" /\ plugin = NoPlugin
  /\ Asserts(text, (Len(text) \div 4) * 3)
  /\ device' = "asserted"
  /\ UNCHANGED <<plugin, memory, code, called, result, loads>>

\* unload_plugin calls the exit point, if there is one.
Unload ==
  /\ loads < MaxLoads /\ device = "running"
  /\ plugin' = NoPlugin
  /\ \/ plugin = NoPlugin /\ Answer(9) /\ UNCHANGED called
     \/ plugin.exit = "none" /\ Answer(0) /\ UNCHANGED called
     \/ plugin.exit = "aligned" /\ Answer(0) /\ called' = Append(called, "exit")
     \/ plugin.exit = "unaligned" /\ Answer(10) /\ UNCHANGED called
  /\ UNCHANGED <<memory, code, device>>

PNext ==
  \/ LoadRefused \/ Unload \/ \E text \in Payloads : LoadAsserts(text)
  \/ \E entry \in {"aligned", "unaligned"}, exit \in {"none", "aligned", "unaligned"}, now \in BOOLEAN :
       \/ \E c \in PluginCodes : Load(encode(c), c, entry, exit, now)
       \/ \E text \in Payloads : Load(text, <<>>, entry, exit, now)

PSpec == PInit /\ [][PNext]_pVars
-----------------------------------------------------------------------------
\* The bits of a sequence of bytes, the highest one of each first: base64 by definition
Weight == <<128, 64, 32, 16, 8, 4, 2, 1>>
Bits(bytes) == [b \in 1..(Len(bytes) * 8) |-> (bytes[(b - 1) \div 8 + 1] \div Weight[((b - 1) % 8) + 1]) % 2]
Alphabet == [i \in 1..64 |-> CHOOSE c \in 43..122 : c # padding /\ get_index_from_sextet(c) = i - 1 /\ (i = 1 => c = 65)]
DigitAt(bits, k) ==
  LET b(i) == IF (k - 1) * 6 + i <= Len(bits) THEN bits[(k - 1) * 6 + i] ELSE 0
  IN  b(1) * 32 + b(2) * 16 + b(3) * 8 + b(4) * 4 + b(5) * 2 + b(6)

\* etl::base64: the text of the bytes in memory is their bits in groups of six, padded to
\* groups of four characters, and it decodes to the bytes again; for all lengths and
\* contents that a sequence of plugins leaves in the memory.
Base64IsCorrect ==
  LET sextets == (Len(memory) * 8 + 5) \div 6
  IN  /\ encode(memory) = [k \in 1..RoundUp4(sextets) |->
                             IF k <= sextets THEN Alphabet[DigitAt(Bits(memory), k) + 1] ELSE padding]
      /\ decode(encode(memory), Len(memory)) = memory

\* load_and_execute(): when the entry point of a plugin has been called, the memory held
\* the very bytes that were meant, although plugins before it have left theirs there.
CodeIsAsSent ==
  device = "running" /\ called # <<>> /\ code # <<>> =>
    SubSeq(memory, 1, Len(code)) = code

\* plugin.h: entry and exit are like constructor and destructor.  What is in the slot has
\* been entered once and not left; a message that returned an error other than "already
\* loaded" has left the slot free.
SlotIsEntered ==
  device # "overrun" => /\ plugin # NoPlugin => called = <<"entry">>
                        /\ result \notin {0, 1} => plugin = NoPlugin

\* load_and_execute() and unload(): the text is decoded as base64 defines it, what is entered
\* is the code that was sent, and nothing but a plugin that was entered has the slot.
PluginIsAsSent == Base64IsCorrect /\ CodeIsAsSent /\ SlotIsEntered
=============================================================================
