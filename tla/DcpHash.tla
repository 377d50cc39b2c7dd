------------------------------- MODULE DcpHash -------------------------------
(***************************************************************************)
(* Hashing with the data co-processor (DCP), by which uploaded firmware    *)
(* and the firmware in use are known.  The program collects the message in *)
(* a buffer of two blocks, hands it to channel 0 in packets and waits for  *)
(* each one.  The bytes of a message are numbered.                         *)
(***************************************************************************)
EXTENDS Integers, Sequences

CONSTANTS
  Block,        \* bytes of a block of the hash (64)
  Lengths,      \* bound: lengths of the pieces of a message
  MaxMessage    \* bound: bytes of a message

ASSUME HashAssumption == Block \in Nat \ {0} /\ Lengths \subseteq Nat /\ MaxMessage \in Nat

VARIABLES
  ctx,        \* dcp_hash_ctx_internal_t: state, blk with blksz bytes, ctrl0
  size,       \* fullMessageSize: bytes of the message so far
  todo,       \* what dcp_hash_process_message_data() has still to hand over
  rest,       \* what it will leave in the buffer
  hpc,        \* where the program is
  channel,    \* channel 0: "idle", "active" or "error"
  packets,    \* history: packets of this message that were worked on, [data, flags]
  dropped     \* history: some packet has failed

hVars == <<ctx, size, todo, rest, hpc, channel, packets, dropped>>

DCP_HASH_BLOCK_SIZE == 2 * Block
Bytes(from, n) == [i \in 1..n |-> from + i]
Flags == {"HASH_INIT", "HASH_TERM"}

HInit ==
  /\ ctx = [state |-> "none", blk |-> <<>>, ctrl0 |-> {}]
  /\ size = 0 /\ todo = <<>> /\ rest = <<>> /\ hpc = "done"
  /\ channel = "idle" /\ packets = <<>> /\ dropped = FALSE

-----------------------------------------------------------------------------
\* hash(), DCP_HASH_Init(): dcp_init() clears the channel; ctrl0 is not initialised.
DCP_HASH_Init(garbage) ==
  /\ hpc = "done"
  /\ ctx' = [state |-> "HashInit", blk |-> <<>>, ctrl0 |-> garbage]
  /\ size' = 0 /\ packets' = <<>> /\ dropped' = FALSE
  /\ channel' = "idle" /\ hpc' = "idle"
  /\ UNCHANGED <<todo, rest>>

\* What fits into the buffer is kept there.
KeptInContext(n) == Len(ctx.blk) + n <= DCP_HASH_BLOCK_SIZE

UpdateBuffers(n) ==
  /\ hpc = "idle" /\ size + n <= MaxMessage /\ KeptInContext(n)
  /\ size' = size + n
  /\ ctx' = [ctx EXCEPT !.blk = @ \o Bytes(size, n)]
  /\ UNCHANGED <<todo, rest, hpc, channel, packets, dropped>>

\* Mutant: every call starts a new hash.
StartEveryTime == {"HASH_INIT"}

\* ctrl0 of a call: a new hash is started by the first one only.
StartFlags == IF ctx.state = "HashUpdate" THEN ctx.ctrl0 ELSE {"HASH_INIT"}

\* dcp_hash_process_message_data(): the buffer filled up, all full blocks, and the rest.
UpdateProcesses(n) ==
  LET message == Bytes(size, n)
      toCopy == IF ctx.blk = <<>> THEN 0 ELSE DCP_HASH_BLOCK_SIZE - Len(ctx.blk)
      full == ((n - toCopy) \div Block) * Block
  IN  /\ hpc = "idle" /\ size + n <= MaxMessage /\ ~KeptInContext(n)
      /\ size' = size + n
      /\ ctx' = [state |-> "HashUpdate", blk |-> ctx.blk, ctrl0 |-> StartFlags]
      /\ todo' = (IF ctx.blk = <<>> THEN <<>> ELSE <<ctx.blk \o SubSeq(message, 1, toCopy)>>) \o
                 (IF full = 0 THEN <<>> ELSE <<SubSeq(message, toCopy + 1, toCopy + full)>>)
      /\ rest' = SubSeq(message, toCopy + full + 1, n)
      /\ hpc' = "update"
      /\ UNCHANGED <<channel, packets, dropped>>

\* DCP_HASH_Finish(): what is left, even if it is nothing.
DCP_HASH_Finish ==
  /\ hpc = "idle"
  /\ ctx' = [ctx EXCEPT !.ctrl0 = {"HASH_TERM"} \cup IF ctx.state = "HashInit" THEN {"HASH_INIT"} ELSE @]
  /\ todo' = <<ctx.blk>> /\ rest' = <<>> /\ hpc' = "finish"
  /\ UNCHANGED <<size, channel, packets, dropped>>

-----------------------------------------------------------------------------
(* dcp_hash_update(): one packet *)

\* dcp_schedule_work(); while the channel is active it is tried again.
dcp_schedule_work ==
  /\ hpc \in {"update", "finish"} /\ todo # <<>> /\ channel # "active"
  /\ channel' = "active"
  /\ packets' = Append(packets, [data |-> Head(todo), flags |-> ctx.ctrl0])
  /\ hpc' = IF hpc = "update" THEN "wait" ELSE "wait_finish"
  /\ UNCHANGED <<ctx, size, todo, rest, dropped>>

\* The DCP
ChannelCompletes(ok) ==
  /\ channel = "active"
  /\ channel' = IF ok THEN "idle" ELSE "error"
  /\ UNCHANGED <<ctx, size, todo, rest, hpc, packets, dropped>>

\* The channel is not active; an error is cleared, and its status is dropped.
DCP_WaitForChannelComplete == channel # "active"

PacketEnds ==
  /\ hpc \in {"wait", "wait_finish"} /\ DCP_WaitForChannelComplete
  /\ channel' = "idle" /\ dropped' = (dropped \/ channel = "error")
  /\ todo' = Tail(todo)
  /\ ctx' = [state |-> ctx.state, blk |-> IF todo' = <<>> THEN rest ELSE ctx.blk, ctrl0 |-> {}]
  /\ hpc' = CASE todo' # <<>> -> "update"
              [] todo' = <<>> /\ hpc = "wait" -> "idle"
              [] todo' = <<>> /\ hpc = "wait_finish" -> "done"
  /\ UNCHANGED <<size, rest, packets>>

HProgram == dcp_schedule_work \/ PacketEnds \/ \E ok \in BOOLEAN : ChannelCompletes(ok)

HCaller ==
  \/ \E garbage \in SUBSET Flags : DCP_HASH_Init(garbage)
  \/ \E n \in Lengths : UpdateBuffers(n) \/ UpdateProcesses(n)
  \/ DCP_HASH_Finish

HSpec == HInit /\ [][HProgram \/ HCaller]_hVars
-----------------------------------------------------------------------------
\* Types; the buffer is never filled beyond its end.
HTypeOK ==
  /\ ctx.state \in {"none", "HashInit", "HashUpdate"} /\ ctx.ctrl0 \subseteq Flags
  /\ Len(ctx.blk) <= DCP_HASH_BLOCK_SIZE /\ Len(rest) < Block
  /\ hpc \in {"idle", "update", "wait", "finish", "wait_finish", "done"}
  /\ channel \in {"idle", "active", "error"}

\* The last byte before packet i; a packet that another one follows is not empty.
Before(p, i) == IF i = 1 THEN 0 ELSE p[i - 1].data[Len(p[i - 1].data)]

\* DCP_HASH_Update(), DCP_HASH_Finish(): however a message is cut into pieces, the DCP is
\* given all its bytes in order and once: each packet goes on where the one before ended,
\* and the last one ends with the message.  The hash starts with the first packet and only
\* there, ends with the last and only there, and gets whole blocks until then.
HashCoversMessage ==
  hpc = "done" /\ packets # <<>> =>
    /\ Before(packets, Len(packets)) + Len(packets[Len(packets)].data) = size
    /\ \A i \in DOMAIN packets :
         /\ packets[i].data = Bytes(Before(packets, i), Len(packets[i].data))
         /\ "HASH_INIT" \in packets[i].flags <=> i = 1
         /\ "HASH_TERM" \in packets[i].flags <=> i = Len(packets)
         /\ i < Len(packets) => packets[i].data # <<>> /\ Len(packets[i].data) % Block = 0

\* The buffer of the context is never exceeded, and the hash is that of the message.
HashIsRight == HTypeOK /\ HashCoversMessage

\* dcp_hash_update(): whatever the DCP does with a packet, the call returns, even when it
\* fails; then the hash is wrong and nobody is told.
HashReturns == hpc \in {"update", "finish"} ~> hpc \in {"idle", "done"}
=============================================================================
