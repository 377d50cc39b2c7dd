-------------------------- MODULE Controller_proofs --------------------------
(***************************************************************************)
(* Proofs about the parts of the controller that MCController explores,    *)
(* each on its own specification: the hash coprocessor, the sampling plan, *)
(* buffer and message of traditional runs, the persistent settings,        *)
(* plugins with base64, and the front panel.  The provers know no          *)
(* induction over sequences, so that each invariant says position by       *)
(* position what the state holds.                                          *)
(***************************************************************************)
EXTENDS DcpHash, Settings, PluginLoader, FrontPanel, RunData, SequenceTheorems, FiniteSetTheorems, TLAPS

-----------------------------------------------------------------------------
(* The hash coprocessor: HashIsRight *)

Contexts == [state : {"none", "HashInit", "HashUpdate"}, blk : Seq(Nat), ctrl0 : SUBSET Flags]
Packets == [data : Seq(Nat), flags : SUBSET Flags]

\* The bytes that were handed over in these packets
Handed(p) == Before(p, Len(p) + 1)

\* Packets that go on where the one before ended, the first of which starts the hash
Ordered(p) ==
  \A i \in 1..Len(p) : /\ p[i].data = Bytes(Before(p, i), Len(p[i].data))
                       /\ "HASH_INIT" \in p[i].flags <=> i = 1

\* A packet after which the hash goes on
Continues(x) == x.data # <<>> /\ Len(x.data) % Block = 0 /\ "HASH_TERM" \notin x.flags

\* The packets of a hash that goes on, and of one that has ended with byte n
Open(p) == Ordered(p) /\ \A i \in 1..Len(p) : Continues(p[i])
Ended(p, n) ==
  /\ Len(p) > 0 /\ Ordered(p) /\ \A i \in 1..(Len(p) - 1) : Continues(p[i])
  /\ "HASH_TERM" \in p[Len(p)].flags
  /\ Before(p, Len(p)) + Len(p[Len(p)].data) = n

\* Whole blocks of the bytes after from up to to
Blocks(d, from, to) == from < to /\ (to - from) % Block = 0 /\ d = Bytes(from, to - from)

\* What is still to be handed over of them, in one packet or in two
Pieces(t, from, to) ==
  \/ Len(t) = 1 /\ Blocks(t[1], from, to)
  \/ Len(t) = 2 /\ \E mid \in Nat : Blocks(t[1], from, mid) /\ Blocks(t[2], mid, to)

\* Types of the state of the driver
HashTypes ==
  /\ ctx \in Contexts /\ size \in Nat /\ todo \in Seq(Seq(Nat)) /\ rest \in Seq(Nat)
  /\ hpc \in {"idle", "update", "wait", "finish", "wait_finish", "done"}
  /\ channel \in {"idle", "active", "error"}
  /\ packets \in Seq(Packets)
  /\ Len(ctx.blk) <= DCP_HASH_BLOCK_SIZE /\ Len(rest) < Block

\* What is where, at each place of the program
Between == /\ Open(packets) /\ todo = <<>>
           /\ Handed(packets) \in 0..size /\ ctx.blk = Bytes(Handed(packets), size - Handed(packets))
           /\ ctx.state \in {"HashInit", "HashUpdate"} /\ (ctx.state = "HashInit" <=> packets = <<>>)
           /\ ctx.state = "HashUpdate" => ctx.ctrl0 = {}
RestIsKept == Len(rest) <= size /\ rest = Bytes(size - Len(rest), Len(rest)) /\ ctx.state = "HashUpdate"
Updating == /\ Open(packets) /\ RestIsKept
            /\ Handed(packets) \in Nat /\ Pieces(todo, Handed(packets), size - Len(rest))
            /\ ctx.ctrl0 = IF packets = <<>> THEN {"HASH_INIT"} ELSE {}
Waiting == /\ Open(packets) /\ packets # <<>> /\ RestIsKept /\ Handed(packets) \in Nat
           /\ \/ Len(todo) = 1 /\ Handed(packets) = size - Len(rest)
              \/ Len(todo) = 2 /\ Blocks(todo[2], Handed(packets), size - Len(rest))
Finishing == /\ Open(packets) /\ Handed(packets) \in 0..size /\ rest = <<>>
             /\ Len(todo) = 1 /\ todo[1] = Bytes(Handed(packets), size - Handed(packets))
             /\ ctx.ctrl0 = {"HASH_TERM"} \cup IF packets = <<>> THEN {"HASH_INIT"} ELSE {}
WaitingForEnd == Ended(packets, size) /\ Len(todo) = 1 /\ rest = <<>>
Done == (packets # <<>> => Ended(packets, size)) /\ todo = <<>> /\ rest = <<>>

\* The inductive invariant of the hash driver
HashInv ==
  /\ HashTypes
  /\ hpc = "idle" => Between
  /\ hpc = "update" => Updating
  /\ hpc = "wait" => Waiting
  /\ hpc = "finish" => Finishing
  /\ hpc = "wait_finish" => WaitingForEnd
  /\ hpc = "done" => Done

\* Numbered bytes are a sequence that ends with its last number.
LEMMA BytesType ==
  ASSUME NEW a \in Nat, NEW n \in Nat
  PROVE  /\ Bytes(a, n) \in Seq(Nat) /\ Len(Bytes(a, n)) = n
         /\ DOMAIN Bytes(a, n) = 1..n /\ \A i \in 1..n : Bytes(a, n)[i] = a + i
  <1>1. \A i \in 1..n : a + i \in Nat
    OBVIOUS
  <1> QED
    BY <1>1 DEF Bytes

\* The last of n numbered bytes
LEMMA LastByte ==
  ASSUME NEW a \in Nat, NEW n \in Nat, n \in 1..n
  PROVE  Bytes(a, n)[n] = a + n
  BY BytesType

\* Consecutive bytes are put together ...
LEMMA BytesConcat ==
  ASSUME NEW a \in Nat, NEW n \in Nat, NEW m \in Nat
  PROVE  Bytes(a, n) \o Bytes(a + n, m) = Bytes(a, n + m)
  <1>1. a + n \in Nat /\ n + m \in Nat
    OBVIOUS
  <1> DEFINE x == Bytes(a, n)
             y == Bytes(a + n, m)
             z == Bytes(a, n + m)
  <1>2. x \in Seq(Nat) /\ Len(x) = n /\ \A i \in 1..n : x[i] = a + i
    BY BytesType
  <1>3. y \in Seq(Nat) /\ Len(y) = m /\ \A i \in 1..m : y[i] = a + n + i
    BY <1>1, BytesType
  <1>4. z \in Seq(Nat) /\ Len(z) = n + m /\ \A i \in 1..(n + m) : z[i] = a + i
    BY <1>1, BytesType
  <1> HIDE DEF x, y, z
  <1>5. x \o y \in Seq(Nat) /\ Len(x \o y) = n + m
        /\ \A i \in 1..(n + m) : (x \o y)[i] = IF i <= n THEN x[i] ELSE y[i - n]
    BY <1>2, <1>3, ConcatProperties, ZenonT(40)
  <1>6. \A i \in 1..(n + m) : (x \o y)[i] = z[i]
    <2> DEFINE c == x \o y
    <2>1. \A i \in 1..(n + m) : c[i] = IF i <= n THEN x[i] ELSE y[i - n]
      BY <1>5
    <2> HIDE DEF c
    <2>2. \A i \in 1..(n + m) : c[i] = z[i]
      <3>1. \A i \in 1..(n + m) : i <= n => i \in 1..n
        OBVIOUS
      <3>2. \A i \in 1..(n + m) : ~(i <= n) => i - n \in 1..m /\ a + n + (i - n) = a + i
        OBVIOUS
      <3>3. \A i \in 1..(n + m) : i <= n => c[i] = z[i]
        BY <1>2, <1>4, <2>1, <3>1
      <3>4. \A i \in 1..(n + m) : ~(i <= n) => c[i] = z[i]
        BY <1>3, <1>4, <2>1, <3>2
      <3> QED
        BY <3>3, <3>4
    <2> QED
      BY <2>2 DEF c
  <1>7. x \o y = z
    BY <1>4, <1>5, <1>6, SeqEqual
  <1> QED
    BY <1>7 DEF x, y, z

\* ... and a stretch of bytes is one of bytes.
LEMMA BytesSub ==
  ASSUME NEW a \in Nat, NEW n \in Nat, NEW i \in 1..(n + 1), NEW j \in (i - 1)..n
  PROVE  SubSeq(Bytes(a, n), i, j) = Bytes(a + i - 1, j - i + 1)
  <1>1. a + i - 1 \in Nat /\ j - i + 1 \in Nat
    OBVIOUS
  <1> DEFINE x == Bytes(a, n)
             z == Bytes(a + i - 1, j - i + 1)
  <1>2. x \in Seq(Nat) /\ Len(x) = n /\ \A k \in 1..n : x[k] = a + k
    BY BytesType
  <1>3. z \in Seq(Nat) /\ Len(z) = j - i + 1 /\ \A k \in 1..(j - i + 1) : z[k] = a + i - 1 + k
    BY <1>1, BytesType
  <1> HIDE DEF x, z
  <1>4. SubSeq(x, i, j) \in Seq(Nat) /\ Len(SubSeq(x, i, j)) = j - i + 1
        /\ \A k \in 1..(j - i + 1) : SubSeq(x, i, j)[k] = x[i + k - 1]
    <2>1. i \in Int /\ j \in Int /\ \A k \in i..j : x[k] \in Nat
      BY <1>2
    <2>2. /\ SubSeq(x, i, j) \in Seq(Nat) /\ Len(SubSeq(x, i, j)) = IF i <= j THEN j - i + 1 ELSE 0
          /\ \A k \in 1..(j - i + 1) : SubSeq(x, i, j)[k] = x[i + k - 1]
      BY <2>1, SubSeqProperties
    <2>3. (IF i <= j THEN j - i + 1 ELSE 0) = j - i + 1
      OBVIOUS
    <2> QED
      BY <2>2, <2>3
  <1>5. \A k \in 1..(j - i + 1) : SubSeq(x, i, j)[k] = z[k]
    BY <1>2, <1>3, <1>4
  <1>6. SubSeq(x, i, j) = z
    BY <1>3, <1>4, <1>5, SeqEqual
  <1> QED
    BY <1>6 DEF x, z

\* A packet appended: what lies before the packets that were there has not changed.
LEMMA AppendPacket ==
  ASSUME NEW p \in Seq(Packets), NEW x \in Packets, Ordered(p), Handed(p) \in Nat,
         x.data = Bytes(Handed(p), Len(x.data)), "HASH_INIT" \in x.flags <=> p = <<>>
  PROVE  /\ Append(p, x) \in Seq(Packets) /\ Len(Append(p, x)) = Len(p) + 1
         /\ \A i \in 1..Len(p) : Append(p, x)[i] = p[i]
         /\ Append(p, x)[Len(p) + 1] = x
         /\ Before(Append(p, x), Len(p) + 1) = Handed(p)
         /\ Ordered(Append(p, x))
  <1> DEFINE q == Append(p, x)
  <1>1. Len(p) \in Nat /\ q \in Seq(Packets) /\ Len(q) = Len(p) + 1
        /\ (\A i \in 1..Len(p) : q[i] = p[i]) /\ q[Len(p) + 1] = x
    BY AppendProperties
  <1> HIDE DEF q
  <1>2. \A i \in 1..(Len(p) + 1) : i = 1 \/ i - 1 \in 1..Len(p)
    BY <1>1
  <1>3. \A i \in 1..(Len(p) + 1) : Before(q, i) = Before(p, i)
    BY <1>1, <1>2 DEF Before
  <1>4. Before(q, Len(p) + 1) = Handed(p)
    BY <1>1, <1>3 DEF Handed
  <1>5. p = <<>> <=> Len(p) + 1 = 1
    BY <1>1
  <1>6. \A i \in 1..(Len(p) + 1) : i \in 1..Len(p) \/ i = Len(p) + 1
    BY <1>1
  <1>7. \A i \in 1..Len(p) : q[i].data = Bytes(Before(q, i), Len(q[i].data)) /\ ("HASH_INIT" \in q[i].flags <=> i = 1)
    <2>1. \A i \in 1..Len(p) : i \in 1..(Len(p) + 1)
      BY <1>1
    <2> QED
      BY <2>1, <1>1, <1>3 DEF Ordered
  <1>8. Ordered(q)
    BY <1>1, <1>4, <1>5, <1>6, <1>7 DEF Ordered
  <1> QED
    BY <1>1, <1>4, <1>8 DEF q

\* The hash goes on with a packet of whole blocks ...
LEMMA AppendOpen ==
  ASSUME NEW p \in Seq(Packets), NEW x \in Packets, Open(p), Handed(p) \in Nat,
         x.data = Bytes(Handed(p), Len(x.data)), "HASH_INIT" \in x.flags <=> p = <<>>, Continues(x)
  PROVE  /\ Append(p, x) \in Seq(Packets) /\ Append(p, x) # <<>> /\ Open(Append(p, x))
         /\ Handed(Append(p, x)) = Handed(p) + Len(x.data)
  <1> DEFINE q == Append(p, x)
  <1>1. /\ q \in Seq(Packets) /\ Len(q) = Len(p) + 1
        /\ \A i \in 1..Len(p) : q[i] = p[i]
        /\ q[Len(p) + 1] = x /\ Before(q, Len(p) + 1) = Handed(p) /\ Ordered(q)
    BY AppendPacket DEF Open
  <1>2. Len(p) \in Nat /\ Len(x.data) \in Nat /\ Len(x.data) # 0
    BY DEF Continues, Packets
  <1> HIDE DEF q
  <1>3. \A i \in 1..Len(q) : Continues(q[i])
    <2>1. \A i \in 1..Len(q) : i \in 1..Len(p) \/ i = Len(p) + 1
      BY <1>1, <1>2
    <2> QED
      BY <1>1, <2>1 DEF Open
  <1>4. Handed(q) = x.data[Len(x.data)]
    <2>1. Len(q) + 1 # 1 /\ Len(q) + 1 - 1 = Len(p) + 1
      BY <1>1, <1>2
    <2> QED
      BY <1>1, <2>1 DEF Handed, Before
  <1>5. x.data[Len(x.data)] = Handed(p) + Len(x.data)
    <2>1. Len(x.data) \in 1..Len(x.data)
      BY <1>2
    <2>2. Bytes(Handed(p), Len(x.data))[Len(x.data)] = Handed(p) + Len(x.data)
      BY <1>2, <2>1, LastByte
    <2> QED
      BY <2>2
  <1>6. q # <<>>
    BY <1>1, <1>2
  <1> QED
    BY <1>1, <1>3, <1>4, <1>5, <1>6 DEF Open, q

\* ... or ends with its last one.
LEMMA AppendLast ==
  ASSUME NEW p \in Seq(Packets), NEW x \in Packets, Open(p), Handed(p) \in Nat,
         x.data = Bytes(Handed(p), Len(x.data)), "HASH_INIT" \in x.flags <=> p = <<>>, "HASH_TERM" \in x.flags
  PROVE  Append(p, x) \in Seq(Packets) /\ Ended(Append(p, x), Handed(p) + Len(x.data))
  <1> DEFINE q == Append(p, x)
  <1>1. /\ q \in Seq(Packets) /\ Len(q) = Len(p) + 1
        /\ \A i \in 1..Len(p) : q[i] = p[i]
        /\ q[Len(p) + 1] = x /\ Before(q, Len(p) + 1) = Handed(p) /\ Ordered(q)
    BY AppendPacket DEF Open
  <1>2. Len(p) \in Nat
    OBVIOUS
  <1> HIDE DEF q
  <1>3. Len(q) > 0 /\ 1..(Len(q) - 1) = 1..Len(p)
    BY <1>1, <1>2
  <1>4. \A i \in 1..(Len(q) - 1) : Continues(q[i])
    BY <1>1, <1>3 DEF Open
  <1>5. Ended(q, Handed(p) + Len(x.data))
    BY <1>1, <1>3, <1>4 DEF Ended
  <1> QED
    BY <1>1, <1>5 DEF q

\* dcp_hash_process_message_data(): the sizes of what is copied, handed over and kept.
LEMMA Splits ==
  ASSUME NEW b \in Nat, NEW n \in Nat, b <= 2 * Block, b + n > 2 * Block,
         NEW toCopy, toCopy = (IF b = 0 THEN 0 ELSE 2 * Block - b),
         NEW full, full = ((n - toCopy) \div Block) * Block
  PROVE  /\ toCopy \in 0..n /\ full \in 0..(n - toCopy) /\ n - toCopy - full < Block
         /\ full % Block = 0 /\ (b = 0 => full # 0)
         /\ b # 0 => b + toCopy = 2 * Block /\ (2 * Block) % Block = 0
  <1>1. Block \in Nat /\ Block > 0
    BY HashAssumption
  <1>2. toCopy \in 0..n
    BY <1>1
  <1>3. \A x \in Nat : /\ (x \div Block) \in Nat /\ (x \div Block) * Block <= x /\ x - (x \div Block) * Block < Block
    BY <1>1
  <1>4. \A x \in Nat : (x * Block) \in Nat /\ (x * Block) % Block = 0
    BY <1>1
  <1>5. n - toCopy \in Nat
    BY <1>2
  <1>6. full \in 0..(n - toCopy) /\ n - toCopy - full < Block /\ full % Block = 0
    BY <1>1, <1>3, <1>4, <1>5
  <1>7. b = 0 => full # 0
    BY <1>1, <1>6
  <1>8. b # 0 => b + toCopy = 2 * Block
    BY <1>1
  <1> QED
    BY <1>2, <1>4, <1>6, <1>7, <1>8

\* The context with another block, or other flags
WithBlock(c, x) == [c EXCEPT !.blk = x]
WithFlags(c, f) == [c EXCEPT !.ctrl0 = f]

\* The members of the context that a call leaves alone.
LEMMA ContextUpdates ==
  ASSUME NEW c \in Contexts, NEW x \in Seq(Nat), NEW f \in SUBSET Flags
  PROVE  /\ WithBlock(c, x) \in Contexts /\ WithBlock(c, x).blk = x
         /\ WithBlock(c, x).state = c.state /\ WithBlock(c, x).ctrl0 = c.ctrl0
         /\ WithFlags(c, f) \in Contexts /\ WithFlags(c, f).ctrl0 = f
         /\ WithFlags(c, f).state = c.state /\ WithFlags(c, f).blk = c.blk
  <1>1. /\ WithBlock(c, x) \in Contexts /\ WithBlock(c, x).blk = x
        /\ WithBlock(c, x).state = c.state /\ WithBlock(c, x).ctrl0 = c.ctrl0
    BY DEF Contexts, WithBlock
  <1>2. /\ WithFlags(c, f) \in Contexts /\ WithFlags(c, f).ctrl0 = f
        /\ WithFlags(c, f).state = c.state /\ WithFlags(c, f).blk = c.blk
    BY DEF Contexts, WithFlags
  <1> QED
    BY <1>1, <1>2

\* Two sequences of one element each make one of two.
LEMMA PairConcat ==
  ASSUME NEW S, NEW x \in S, NEW y \in S
  PROVE  <<x>> \o <<y>> = <<x, y>>
  <1>1. <<x>> \in Seq(S) /\ <<y>> \in Seq(S) /\ <<x, y>> \in Seq(S)
        /\ Len(<<x>>) = 1 /\ Len(<<y>>) = 1 /\ Len(<<x, y>>) = 2
    OBVIOUS
  <1>2. <<x>> \o <<y>> \in Seq(S) /\ Len(<<x>> \o <<y>>) = 2
    BY <1>1, ConcatProperties
  <1>3. (<<x>> \o <<y>>)[1] = x /\ (<<x>> \o <<y>>)[2] = y
    BY <1>1, ConcatProperties
  <1>4. \A i \in 1..2 : (<<x>> \o <<y>>)[i] = <<x, y>>[i]
    BY <1>3
  <1> QED
    BY <1>1, <1>2, <1>4, SeqEqual

\* hash() begins.
LEMMA HashInitStep ==
  ASSUME HashInv, NEW garbage \in SUBSET Flags, DCP_HASH_Init(garbage)
  PROVE  HashInv'
  <1>1. /\ ctx' = [state |-> "HashInit", blk |-> <<>>, ctrl0 |-> garbage]
        /\ size' = 0 /\ packets' = <<>> /\ channel' = "idle" /\ hpc' = "idle"
        /\ todo' = todo /\ rest' = rest /\ hpc = "done"
    BY DEF DCP_HASH_Init
  <1>2. ctx' \in Contexts /\ ctx'.state = "HashInit" /\ ctx'.blk = <<>> /\ Len(ctx'.blk) = 0
    BY <1>1 DEF Contexts
  <1>3. todo' = <<>> /\ rest' = <<>> /\ Len(rest') = 0
    BY <1>1 DEF HashInv, Done
  <1>4. Block \in Nat /\ Block > 0
    BY HashAssumption
  <1>5. HashTypes'
    BY <1>1, <1>2, <1>3, <1>4 DEF HashTypes, DCP_HASH_BLOCK_SIZE
  <1>6. Handed(packets') = 0 /\ Bytes(0, 0 - 0) = <<>>
    BY <1>1 DEF Handed, Before, Bytes
  <1>7. Open(packets')
    BY <1>1 DEF Open, Ordered
  <1>8. Between'
    BY <1>1, <1>2, <1>3, <1>6, <1>7 DEF Between
  <1> QED
    BY <1>1, <1>5, <1>8 DEF HashInv

\* A piece that fits into the buffer.
LEMMA UpdateBuffersStep ==
  ASSUME HashInv, NEW n \in Lengths, UpdateBuffers(n)
  PROVE  HashInv'
  <1> DEFINE h == Handed(packets)
             blk == ctx.blk \o Bytes(size, n)
  <1>1. /\ hpc = "idle" /\ KeptInContext(n) /\ size' = size + n
        /\ ctx' = [ctx EXCEPT !.blk = blk]
        /\ todo' = todo /\ rest' = rest /\ hpc' = hpc /\ channel' = channel /\ packets' = packets
    BY DEF UpdateBuffers
  <1>2. HashTypes /\ Between /\ n \in Nat
    BY <1>1, HashAssumption DEF HashInv
  <1>3. size \in Nat /\ h \in 0..size /\ ctx.blk = Bytes(h, size - h) /\ ctx \in Contexts
    BY <1>2 DEF HashTypes, Between
  <1> HIDE DEF h
  <1>4. size - h \in Nat /\ h + (size - h) = size /\ (size - h) + n = (size + n) - h /\ h \in Nat /\ (size + n) - h \in Nat
    BY <1>2, <1>3
  <1>5. blk = Bytes(h, (size + n) - h)
    <2>1. Bytes(h, size - h) \o Bytes(h + (size - h), n) = Bytes(h, (size - h) + n)
      BY <1>2, <1>4, BytesConcat
    <2> QED
      BY <2>1, <1>3, <1>4
  <1>6. blk \in Seq(Nat) /\ Len(blk) = (size + n) - h
    BY <1>4, <1>5, BytesType
  <1> HIDE DEF blk
  <1>7. Len(ctx.blk) = size - h
    <2>1. \A m \in Nat : Len(Bytes(h, m)) = m
      BY <1>4, BytesType
    <2>2. Len(Bytes(h, size - h)) = size - h
      BY <1>4, <2>1
    <2> QED
      BY <1>3, <2>2, Zenon
  <1>8. ctx' = WithBlock(ctx, blk) /\ ctx.ctrl0 \in SUBSET Flags
    BY <1>1, <1>3 DEF WithBlock, Contexts
  <1>9. ctx' \in Contexts /\ ctx'.state = ctx.state /\ ctx'.blk = blk /\ ctx'.ctrl0 = ctx.ctrl0
    BY <1>3, <1>6, <1>8, ContextUpdates
  <1>10. Len(blk) <= DCP_HASH_BLOCK_SIZE
    BY <1>1, <1>2, <1>4, <1>6, <1>7, HashAssumption DEF KeptInContext, DCP_HASH_BLOCK_SIZE
  <1>11. HashTypes'
    BY <1>1, <1>2, <1>3, <1>9, <1>10 DEF HashTypes, DCP_HASH_BLOCK_SIZE
  <1>12. h \in 0..(size + n)
    BY <1>2, <1>3
  <1>13. Between'
    BY <1>1, <1>2, <1>5, <1>9, <1>12 DEF Between, h
  <1> QED
    BY <1>1, <1>11, <1>13 DEF HashInv

\* A piece that does not: what is to be handed over are whole blocks.
LEMMA UpdateProcessesStep ==
  ASSUME HashInv, NEW n \in Lengths, UpdateProcesses(n)
  PROVE  HashInv'
  <1> DEFINE h == Handed(packets)
             b == Len(ctx.blk)
             piece == Bytes(size, n)
             toCopy == IF ctx.blk = <<>> THEN 0 ELSE DCP_HASH_BLOCK_SIZE - Len(ctx.blk)
             full == ((n - toCopy) \div Block) * Block
             t1 == IF ctx.blk = <<>> THEN <<>> ELSE <<ctx.blk \o SubSeq(piece, 1, toCopy)>>
             t2 == IF full = 0 THEN <<>> ELSE <<SubSeq(piece, toCopy + 1, toCopy + full)>>
  <1>1. /\ hpc = "idle" /\ ~KeptInContext(n) /\ size' = size + n
        /\ ctx' = [state |-> "HashUpdate", blk |-> ctx.blk, ctrl0 |-> StartFlags]
        /\ todo' = t1 \o t2 /\ rest' = SubSeq(piece, toCopy + full + 1, n)
        /\ hpc' = "update" /\ channel' = channel /\ packets' = packets
    BY DEF UpdateProcesses
  <1>2. HashTypes /\ Between /\ n \in Nat /\ Block \in Nat /\ Block > 0
    BY <1>1, HashAssumption DEF HashInv
  <1>3. size \in Nat /\ h \in 0..size /\ ctx.blk = Bytes(h, size - h) /\ ctx \in Contexts /\ ctx.blk \in Seq(Nat)
    BY <1>2 DEF HashTypes, Between, Contexts
  <1>4. b = size - h /\ b \in Nat /\ h \in Nat
    <2>1. h \in Nat /\ size - h \in Nat
      BY <1>3
    <2> QED
      BY <1>3, <2>1, BytesType
  <1>5. b <= 2 * Block /\ b + n > 2 * Block
    BY <1>1, <1>2, <1>4, SMTT(40) DEF HashTypes, KeptInContext, DCP_HASH_BLOCK_SIZE
  <1>6. toCopy = (IF b = 0 THEN 0 ELSE 2 * Block - b)
    BY <1>3 DEF DCP_HASH_BLOCK_SIZE
  <1>7. full = ((n - toCopy) \div Block) * Block
    OBVIOUS
  <1> HIDE DEF h, b, toCopy, full
  <1>8. /\ toCopy \in 0..n /\ full \in 0..(n - toCopy) /\ n - toCopy - full < Block
        /\ full % Block = 0 /\ (b = 0 => full # 0)
        /\ b # 0 => b + toCopy = 2 * Block /\ (2 * Block) % Block = 0
    <2>1. n \in Nat /\ b \in Nat
      BY <1>2, <1>4
    <2> QED
      BY <2>1, <1>5, <1>6, <1>7, Splits
  <1> DEFINE mid == size + toCopy
             end == size + toCopy + full
  <1>9. /\ toCopy \in Nat /\ full \in Nat /\ mid \in Nat /\ end \in Nat /\ n - toCopy - full \in Nat
        /\ 1 \in 1..(n + 1) /\ toCopy \in 0..n /\ toCopy + 1 \in 1..(n + 1) /\ toCopy + full \in toCopy..n
        /\ toCopy + full + 1 \in 1..(n + 1) /\ n \in (toCopy + full)..n
    BY <1>2, <1>3, <1>8
  <1>10. SubSeq(piece, 1, toCopy) = Bytes(size, toCopy)
    <2>1. SubSeq(Bytes(size, n), 1, toCopy) = Bytes(size + 1 - 1, toCopy - 1 + 1)
      <3>1. 1 \in 1..(n + 1) /\ toCopy \in (1 - 1)..n
        BY <1>9
      <3> QED
        BY <1>2, <1>3, <3>1, BytesSub
    <2>2. size + 1 - 1 = size /\ toCopy - 1 + 1 = toCopy
      BY <1>3, <1>9
    <2> QED
      BY <2>1, <2>2
  <1>11. SubSeq(piece, toCopy + 1, toCopy + full) = Bytes(mid, full)
    <2> DEFINE i == toCopy + 1
               j == toCopy + full
    <2>1. i \in 1..(n + 1) /\ j \in (i - 1)..n /\ size + i - 1 = mid /\ j - i + 1 = full
      BY <1>3, <1>9
    <2> HIDE DEF i, j
    <2>2. SubSeq(Bytes(size, n), i, j) = Bytes(size + i - 1, j - i + 1)
      BY <1>2, <1>3, <2>1, BytesSub
    <2> QED
      BY <2>1, <2>2 DEF i, j
  <1>12. SubSeq(piece, toCopy + full + 1, n) = Bytes(end, n - toCopy - full)
    <2> DEFINE i == toCopy + full + 1
    <2>1. i \in 1..(n + 1) /\ n \in (i - 1)..n /\ size + i - 1 = end /\ n - i + 1 = n - toCopy - full
      BY <1>3, <1>9
    <2> HIDE DEF i
    <2>2. SubSeq(Bytes(size, n), i, n) = Bytes(size + i - 1, n - i + 1)
      BY <1>2, <1>3, <2>1, BytesSub
    <2> QED
      BY <2>1, <2>2 DEF i
  <1>13. rest' = Bytes(end, n - toCopy - full) /\ rest' \in Seq(Nat) /\ Len(rest') = n - toCopy - full
    <2>1. rest' = Bytes(end, n - toCopy - full)
      BY <1>1, <1>12
    <2> QED
      BY <2>1, <1>9, BytesType
  <1>14. end = size' - Len(rest') /\ Len(rest') <= size' /\ Len(rest') < Block /\ size' \in Nat
    <2>1. size' = size + n /\ n \in Nat /\ size \in Nat /\ Len(rest') = n - toCopy - full
      BY <1>1, <1>2, <1>3, <1>13
    <2> QED
      BY <2>1, <1>8, <1>9
  <1>15. ctx.blk # <<>> => /\ Blocks(ctx.blk \o SubSeq(piece, 1, toCopy), h, mid)
                           /\ ctx.blk \o SubSeq(piece, 1, toCopy) \in Seq(Nat)
    <2>1. ctx.blk # <<>> => b # 0
      BY <1>3 DEF b
    <2>2. b \in Nat /\ toCopy \in Nat /\ h + b = size /\ b + toCopy = mid - h
      BY <1>3, <1>4, <1>9
    <2>3. Bytes(h, b) \o Bytes(h + b, toCopy) = Bytes(h, b + toCopy)
      BY <1>4, <2>2, BytesConcat
    <2>4. ctx.blk \o SubSeq(piece, 1, toCopy) = Bytes(h, mid - h)
      BY <1>3, <1>4, <1>10, <2>2, <2>3
    <2>5. b # 0 => h < mid /\ (mid - h) % Block = 0
      BY <1>2, <1>3, <1>4, <1>8, <1>9, <2>2
    <2>6. Bytes(h, mid - h) \in Seq(Nat)
      BY <1>4, <1>9, <2>2, BytesType, SMTT(40)
    <2> QED
      BY <2>1, <2>4, <2>5, <2>6 DEF Blocks
  <1>16. full # 0 => /\ Blocks(SubSeq(piece, toCopy + 1, toCopy + full), mid, end)
                     /\ SubSeq(piece, toCopy + 1, toCopy + full) \in Seq(Nat)
    <2>1. end - mid = full /\ (full # 0 => mid < end)
      BY <1>3, <1>9
    <2> QED
      BY <2>1, <1>8, <1>9, <1>11, BytesType DEF Blocks
  <1>17. ctx.blk = <<>> => h = mid /\ full # 0
    <2>1. ctx.blk = <<>> => b = 0
      BY DEF b
    <2>2. b = 0 => toCopy = 0
      BY <1>6
    <2> QED
      BY <2>1, <2>2, <1>3, <1>4, <1>8
  <1> HIDE DEF mid, end, piece
  <1>18. todo' \in Seq(Seq(Nat)) /\ Pieces(todo', h, end)
    <2>1. CASE ctx.blk = <<>>
      <3> DEFINE d == SubSeq(piece, toCopy + 1, toCopy + full)
      <3>1. todo' = <<>> \o <<d>> /\ Blocks(d, h, end) /\ d \in Seq(Nat)
        BY <2>1, <1>1, <1>16, <1>17
      <3> HIDE DEF d
      <3>2. todo' = <<d>>
        BY <3>1
      <3> QED
        BY <3>1, <3>2 DEF Pieces
    <2>2. CASE ctx.blk # <<>> /\ full = 0
      <3> DEFINE d == ctx.blk \o SubSeq(piece, 1, toCopy)
      <3>1. todo' = <<d>> \o <<>> /\ Blocks(d, h, mid) /\ d \in Seq(Nat)
        BY <2>2, <1>1, <1>15
      <3>2. mid = end
        BY <2>2, <1>3, <1>9 DEF mid, end
      <3> HIDE DEF d
      <3>3. todo' = <<d>>
        BY <3>1
      <3> QED
        BY <3>1, <3>2, <3>3 DEF Pieces
    <2>3. CASE ctx.blk # <<>> /\ full # 0
      <3> DEFINE d == ctx.blk \o SubSeq(piece, 1, toCopy)
                 e == SubSeq(piece, toCopy + 1, toCopy + full)
      <3>1. todo' = <<d>> \o <<e>> /\ Blocks(d, h, mid) /\ Blocks(e, mid, end) /\ d \in Seq(Nat) /\ e \in Seq(Nat)
        BY <2>3, <1>1, <1>15, <1>16
      <3> HIDE DEF d, e
      <3>2. todo' = <<d, e>>
        BY <3>1, PairConcat
      <3>3. todo' \in Seq(Seq(Nat)) /\ Len(todo') = 2 /\ todo'[1] = d /\ todo'[2] = e
        BY <3>1, <3>2
      <3>4. mid \in Nat
        BY <1>9 DEF mid
      <3> QED
        BY <3>1, <3>3, <3>4 DEF Pieces
    <2> QED
      BY <2>1, <2>2, <2>3
  <1>19. StartFlags = (IF packets = <<>> THEN {"HASH_INIT"} ELSE {}) /\ StartFlags \in SUBSET Flags
    BY <1>2 DEF StartFlags, Between, Flags
  <1>21. ctx' \in Contexts /\ ctx'.state = "HashUpdate" /\ ctx'.blk = ctx.blk /\ ctx'.ctrl0 = StartFlags
    BY <1>1, <1>3, <1>19 DEF Contexts
  <1>22. HashTypes'
    BY <1>1, <1>2, <1>13, <1>14, <1>18, <1>21 DEF HashTypes, DCP_HASH_BLOCK_SIZE
  <1>23. RestIsKept'
    BY <1>13, <1>14, <1>21 DEF RestIsKept
  <1>24. Open(packets') /\ Handed(packets') = h /\ h \in Nat
    BY <1>1, <1>2, <1>4 DEF Between, h
  <1>25. Updating'
    BY <1>1, <1>14, <1>18, <1>19, <1>21, <1>23, <1>24 DEF Updating
  <1> QED
    BY <1>1, <1>22, <1>25 DEF HashInv

\* DCP_HASH_Finish() hands over what is in the buffer.
LEMMA FinishStep ==
  ASSUME HashInv, DCP_HASH_Finish
  PROVE  HashInv'
  <1> DEFINE f == {"HASH_TERM"} \cup IF ctx.state = "HashInit" THEN {"HASH_INIT"} ELSE ctx.ctrl0
  <1>1. /\ hpc = "idle" /\ ctx' = [ctx EXCEPT !.ctrl0 = f]
        /\ todo' = <<ctx.blk>> /\ rest' = <<>> /\ hpc' = "finish"
        /\ size' = size /\ channel' = channel /\ packets' = packets
    BY DEF DCP_HASH_Finish
  <1>2. HashTypes /\ Between
    BY <1>1 DEF HashInv
  <1>3. ctx \in Contexts /\ ctx.blk \in Seq(Nat)
    BY <1>2 DEF HashTypes, Contexts
  <1>4. f = ({"HASH_TERM"} \cup IF packets = <<>> THEN {"HASH_INIT"} ELSE {}) /\ f \in SUBSET Flags
    BY <1>2 DEF Between, Flags
  <1> HIDE DEF f
  <1>5. ctx' = WithFlags(ctx, f)
    BY <1>1 DEF WithFlags
  <1>6. ctx' \in Contexts /\ ctx'.blk = ctx.blk /\ ctx'.ctrl0 = f
    BY <1>3, <1>4, <1>5, ContextUpdates
  <1>7. todo' \in Seq(Seq(Nat)) /\ Len(todo') = 1 /\ todo'[1] = ctx.blk
    BY <1>1, <1>3
  <1>8. rest' \in Seq(Nat) /\ Len(rest') < Block
    BY <1>1, HashAssumption
  <1>9. HashTypes'
    BY <1>1, <1>2, <1>6, <1>7, <1>8 DEF HashTypes, DCP_HASH_BLOCK_SIZE
  <1>10. Finishing'
    BY <1>1, <1>2, <1>4, <1>6, <1>7 DEF Finishing, Between
  <1> QED
    BY <1>1, <1>9, <1>10 DEF HashInv

\* dcp_schedule_work() of the next packet.
LEMMA ScheduleStep ==
  ASSUME HashInv, dcp_schedule_work
  PROVE  HashInv'
  <1> DEFINE x == [data |-> Head(todo), flags |-> ctx.ctrl0]
             h == Handed(packets)
  <1>1. /\ hpc \in {"update", "finish"} /\ todo # <<>> /\ channel' = "active"
        /\ packets' = Append(packets, x)
        /\ hpc' = IF hpc = "update" THEN "wait" ELSE "wait_finish"
        /\ ctx' = ctx /\ size' = size /\ todo' = todo /\ rest' = rest
    BY DEF dcp_schedule_work
  <1>2. HashTypes
    BY DEF HashInv
  <1>3. /\ todo \in Seq(Seq(Nat)) /\ ctx \in Contexts /\ packets \in Seq(Packets) /\ size \in Nat
        /\ rest \in Seq(Nat) /\ Len(rest) \in Nat
    BY <1>2 DEF HashTypes
  <1>4. Head(todo) = todo[1] /\ todo[1] \in Seq(Nat) /\ ctx.ctrl0 \in SUBSET Flags
    BY <1>1, <1>3 DEF Contexts
  <1>5. x \in Packets /\ x.data = todo[1] /\ x.flags = ctx.ctrl0
    BY <1>4 DEF Packets
  <1> HIDE DEF x, h
  <1>6. CASE hpc = "update"
    <2>1. Updating
      BY <1>6 DEF HashInv
    <2>2. /\ Open(packets) /\ RestIsKept /\ h \in Nat /\ Pieces(todo, h, size - Len(rest))
          /\ ctx.ctrl0 = IF packets = <<>> THEN {"HASH_INIT"} ELSE {}
      BY <2>1 DEF Updating, h
    <2>3. PICK to \in Nat : /\ Blocks(todo[1], h, to)
                            /\ \/ Len(todo) = 1 /\ to = size - Len(rest)
                               \/ Len(todo) = 2 /\ Blocks(todo[2], to, size - Len(rest))
      <3>1. size - Len(rest) \in Nat
        BY <2>2, <1>3 DEF RestIsKept
      <3> QED
        BY <2>2, <3>1 DEF Pieces
    <2>4. to - h \in Nat /\ to - h # 0 /\ (to - h) % Block = 0 /\ todo[1] = Bytes(h, to - h) /\ h + (to - h) = to
      BY <2>2, <2>3 DEF Blocks
    <2>5. x.data = Bytes(h, Len(x.data)) /\ Len(x.data) = to - h
      <3>1. x.data = Bytes(h, to - h) /\ h \in Nat /\ to - h \in Nat
        BY <1>5, <2>2, <2>4
      <3> QED
        <4>1. Len(Bytes(h, to - h)) = to - h
          BY <3>1, BytesType
        <4> QED
          BY <3>1, <4>1
    <2>6. "HASH_INIT" \in x.flags <=> packets = <<>>
      BY <1>5, <2>2
    <2>7. Continues(x)
      BY <1>5, <2>2, <2>4, <2>5 DEF Continues
    <2>8. /\ packets' \in Seq(Packets) /\ packets' # <<>> /\ Open(packets')
          /\ Handed(packets') = h + Len(x.data)
      BY <1>1, <1>3, <1>5, <2>2, <2>5, <2>6, <2>7, AppendOpen DEF h
    <2>9. Handed(packets') = to
      BY <2>4, <2>5, <2>8
    <2>10. HashTypes'
      BY <1>1, <1>2, <1>6, <2>8 DEF HashTypes, DCP_HASH_BLOCK_SIZE
    <2>11. RestIsKept'
      BY <1>1, <2>2 DEF RestIsKept
    <2>12. Waiting'
      BY <1>1, <2>3, <2>8, <2>9, <2>11 DEF Waiting
    <2> QED
      BY <1>1, <1>6, <2>10, <2>12 DEF HashInv
  <1>7. CASE hpc = "finish"
    <2>1. Finishing
      BY <1>7 DEF HashInv
    <2>2. /\ Open(packets) /\ h \in 0..size /\ rest = <<>> /\ Len(todo) = 1 /\ todo[1] = Bytes(h, size - h)
          /\ ctx.ctrl0 = {"HASH_TERM"} \cup IF packets = <<>> THEN {"HASH_INIT"} ELSE {}
      BY <2>1 DEF Finishing, h
    <2>3. h \in Nat /\ size - h \in Nat /\ h + (size - h) = size
      BY <1>3, <2>2
    <2>4. x.data = Bytes(h, Len(x.data)) /\ Len(x.data) = size - h
      BY <1>5, <2>2, <2>3, BytesType
    <2>5. ("HASH_INIT" \in x.flags <=> packets = <<>>) /\ "HASH_TERM" \in x.flags
      BY <1>5, <2>2
    <2>6. packets' \in Seq(Packets) /\ Ended(packets', h + Len(x.data))
      BY <1>1, <1>3, <1>5, <2>2, <2>3, <2>4, <2>5, AppendLast DEF h
    <2>7. h + Len(x.data) = size
      BY <2>3, <2>4
    <2>8. HashTypes'
      BY <1>1, <1>2, <1>7, <2>6 DEF HashTypes, DCP_HASH_BLOCK_SIZE
    <2>9. WaitingForEnd'
      BY <1>1, <2>2, <2>6, <2>7 DEF WaitingForEnd
    <2> QED
      BY <1>1, <1>7, <2>8, <2>9 DEF HashInv
  <1> QED
    BY <1>1, <1>6, <1>7

\* The packet has been worked on.
LEMMA PacketEndsStep ==
  ASSUME HashInv, PacketEnds
  PROVE  HashInv'
  <1>1. /\ hpc \in {"wait", "wait_finish"} /\ channel' = "idle" /\ todo' = Tail(todo)
        /\ ctx' = [state |-> ctx.state, blk |-> IF todo' = <<>> THEN rest ELSE ctx.blk, ctrl0 |-> {}]
        /\ todo' # <<>> => hpc' = "update"
        /\ todo' = <<>> /\ hpc = "wait" => hpc' = "idle"
        /\ todo' = <<>> /\ hpc = "wait_finish" => hpc' = "done"
        /\ size' = size /\ rest' = rest /\ packets' = packets
    <2>1. PacketEnds
      OBVIOUS
    <2>2. hpc = "wait" => hpc # "wait_finish"
      OBVIOUS
    <2> QED
      BY <2>1, <2>2 DEF PacketEnds
  <1>2. HashTypes
    BY DEF HashInv
  <1>3. /\ todo \in Seq(Seq(Nat)) /\ ctx \in Contexts /\ packets \in Seq(Packets) /\ size \in Nat
        /\ rest \in Seq(Nat) /\ Len(rest) \in Nat /\ Len(ctx.blk) <= 2 * Block /\ Len(rest) < Block
        /\ ctx.blk \in Seq(Nat) /\ ctx.state \in {"none", "HashInit", "HashUpdate"}
        /\ Block \in Nat
    BY <1>2, HashAssumption DEF HashTypes, Contexts, DCP_HASH_BLOCK_SIZE
  <1>4. ctx' \in Contexts /\ ctx'.state = ctx.state /\ ctx'.ctrl0 = {}
        /\ (todo' = <<>> => ctx'.blk = rest) /\ (todo' # <<>> => ctx'.blk = ctx.blk)
    BY <1>1, <1>3 DEF Contexts, Flags
  <1>5. Len(ctx'.blk) <= 2 * Block
    BY <1>3, <1>4
  <1>6. /\ Len(todo) = 1 => todo' = <<>>
        /\ Len(todo) = 2 => todo' # <<>> /\ Len(todo') = 1 /\ todo'[1] = todo[2]
        /\ Len(todo) # 0 => todo' \in Seq(Seq(Nat))
    <2> DEFINE t == Tail(todo)
    <2>1. todo # <<>> => /\ t \in Seq(Seq(Nat)) /\ Len(t) = Len(todo) - 1
                         /\ \A i \in 1..Len(t) : t[i] = todo[i + 1]
      BY <1>3, HeadTailProperties
    <2>2. Len(todo) \in Nat /\ (todo = <<>> <=> Len(todo) = 0) /\ todo' = t
      BY <1>1, <1>3
    <2> HIDE DEF t
    <2>3. todo # <<>> => (t = <<>> <=> Len(t) = 0)
      BY <2>1
    <2>4. Len(todo) = 2 => Len(t) = 1
      BY <2>1, <2>2
    <2>5. Len(todo) = 2 => t[1] = todo[1 + 1]
      BY <2>1, <2>2, <2>4
    <2>6. Len(todo) = 1 => Len(t) = 0
      BY <2>1, <2>2
    <2> QED
      BY <2>1, <2>2, <2>3, <2>4, <2>5, <2>6
  <1>7. CASE hpc = "wait"
    <2>1. /\ Open(packets) /\ packets # <<>> /\ RestIsKept /\ Handed(packets) \in Nat
          /\ \/ Len(todo) = 1 /\ Handed(packets) = size - Len(rest)
             \/ Len(todo) = 2 /\ Blocks(todo[2], Handed(packets), size - Len(rest))
      BY <1>7 DEF HashInv, Waiting
    <2>2. hpc' \in {"idle", "update"} /\ todo' \in Seq(Seq(Nat))
      <3>1. Len(todo) # 0
        BY <2>1
      <3> QED
        BY <1>1, <1>6, <1>7, <3>1
    <2>3. HashTypes'
      BY <1>1, <1>3, <1>4, <1>5, <2>2 DEF HashTypes, DCP_HASH_BLOCK_SIZE
    <2>4. CASE Len(todo) = 1
      <3>1. todo' = <<>> /\ hpc' = "idle" /\ ctx'.blk = rest /\ Handed(packets) = size - Len(rest)
        BY <2>1, <2>4, <1>1, <1>4, <1>6, <1>7
      <3>2. rest = Bytes(size - Len(rest), Len(rest)) /\ Len(rest) <= size /\ ctx.state = "HashUpdate"
        BY <2>1 DEF RestIsKept
      <3>3. Handed(packets) \in 0..size /\ Len(rest) = size - Handed(packets)
        BY <3>1, <3>2, <1>3
      <3>4. Between'
        BY <1>1, <1>4, <2>1, <3>1, <3>2, <3>3 DEF Between
      <3> QED
        BY <2>3, <3>1, <3>4 DEF HashInv
    <2>5. CASE Len(todo) = 2
      <3>1. todo' # <<>> /\ hpc' = "update" /\ Len(todo') = 1 /\ todo'[1] = todo[2]
            /\ Blocks(todo[2], Handed(packets), size - Len(rest))
        BY <2>1, <2>5, <1>1, <1>6
      <3>2. Pieces(todo', Handed(packets'), size' - Len(rest'))
        BY <3>1, <1>1 DEF Pieces
      <3>3. RestIsKept'
        BY <2>1, <1>1, <1>4 DEF RestIsKept
      <3>4. Updating'
        BY <1>1, <1>4, <2>1, <3>2, <3>3 DEF Updating
      <3> QED
        BY <2>3, <3>1, <3>4 DEF HashInv
    <2> QED
      BY <2>1, <2>4, <2>5
  <1>8. CASE hpc = "wait_finish"
    <2>1. Ended(packets, size) /\ Len(todo) = 1 /\ rest = <<>>
      BY <1>8 DEF HashInv, WaitingForEnd
    <2>2. todo' = <<>> /\ hpc' = "done" /\ todo' \in Seq(Seq(Nat))
      BY <1>1, <1>6, <1>8, <2>1
    <2>3. HashTypes'
      BY <1>1, <1>3, <1>4, <1>5, <2>2 DEF HashTypes, DCP_HASH_BLOCK_SIZE
    <2>4. Done'
      BY <1>1, <2>1, <2>2 DEF Done
    <2> QED
      BY <2>2, <2>3, <2>4 DEF HashInv
  <1> QED
    BY <1>1, <1>7, <1>8

\* The DCP is done with a packet, or has failed.
LEMMA ChannelStep ==
  ASSUME HashInv, NEW ok \in BOOLEAN, ChannelCompletes(ok)
  PROVE  HashInv'
  <1>1. channel' \in {"idle", "active", "error"} /\ ctx' = ctx /\ size' = size /\ todo' = todo /\ rest' = rest
        /\ hpc' = hpc /\ packets' = packets
    BY DEF ChannelCompletes
  <1> QED
    BY <1>1 DEF HashInv, HashTypes, Between, RestIsKept, Updating, Waiting, Finishing, WaitingForEnd, Done, DCP_HASH_BLOCK_SIZE

\* DCP_HASH_Init(), DCP_HASH_Update() and DCP_HASH_Finish(): for every block size, every way
\* to cut a message into pieces, and whatever the DCP does with a packet, the buffer is never
\* exceeded, and the packets of a hash are the message, in order and once, in whole blocks,
\* with the start of the hash in the first and its end in the last.
THEOREM HashesAreRight == HSpec => []HashIsRight
  <1>1. HInit => HashInv
    <2> SUFFICES ASSUME HInit PROVE HashInv
      OBVIOUS
    <2>1. /\ ctx = [state |-> "none", blk |-> <<>>, ctrl0 |-> {}]
          /\ size = 0 /\ todo = <<>> /\ rest = <<>> /\ hpc = "done" /\ channel = "idle" /\ packets = <<>>
      BY DEF HInit
    <2>2. ctx \in Contexts /\ Len(ctx.blk) = 0
      BY <2>1 DEF Contexts
    <2>3. HashTypes
      BY <2>1, <2>2, HashAssumption DEF HashTypes, DCP_HASH_BLOCK_SIZE
    <2> QED
      BY <2>1, <2>3 DEF HashInv, Done
  <1>2. HashInv /\ [HProgram \/ HCaller]_hVars => HashInv'
    <2> SUFFICES ASSUME HashInv, [HProgram \/ HCaller]_hVars PROVE HashInv'
      OBVIOUS
    <2>1. CASE HProgram
      BY <2>1, ScheduleStep, PacketEndsStep, ChannelStep DEF HProgram
    <2>2. CASE HCaller
      BY <2>2, HashInitStep, UpdateBuffersStep, UpdateProcessesStep, FinishStep DEF HCaller
    <2>3. CASE UNCHANGED hVars
      BY <2>3 DEF hVars, HashInv, HashTypes, Between, RestIsKept, Updating, Waiting, Finishing, WaitingForEnd, Done, DCP_HASH_BLOCK_SIZE
    <2> QED
      BY <2>1, <2>2, <2>3
  <1>3. HashInv => HashIsRight
    <2> SUFFICES ASSUME HashInv PROVE HashIsRight
      OBVIOUS
    <2>1. HTypeOK
      <3>1. ctx.state \in {"none", "HashInit", "HashUpdate"} /\ ctx.ctrl0 \subseteq Flags
        BY SMTT(40) DEF HashInv, HashTypes, Contexts
      <3> QED
        BY <3>1 DEF HashInv, HashTypes, HTypeOK
    <2>2. HashCoversMessage
      <3> SUFFICES ASSUME hpc = "done", packets # <<>>
                   PROVE  /\ Before(packets, Len(packets)) + Len(packets[Len(packets)].data) = size
                          /\ \A i \in DOMAIN packets :
                               /\ packets[i].data = Bytes(Before(packets, i), Len(packets[i].data))
                               /\ "HASH_INIT" \in packets[i].flags <=> i = 1
                               /\ "HASH_TERM" \in packets[i].flags <=> i = Len(packets)
                               /\ i < Len(packets) => packets[i].data # <<>> /\ Len(packets[i].data) % Block = 0
        BY DEF HashCoversMessage
      <3>1. Ended(packets, size)
        BY DEF HashInv, Done
      <3>2. DOMAIN packets = 1..Len(packets) /\ Len(packets) \in Nat
        BY SMTT(40) DEF HashInv, HashTypes
      <3>3. \A i \in 1..Len(packets) : i = Len(packets) \/ (i < Len(packets) /\ i \in 1..(Len(packets) - 1))
        <4>1. \A n \in Nat : \A i \in 1..n : i = n \/ (i < n /\ i \in 1..(n - 1))
          BY SMTT(40)
        <4> QED
          BY <3>2, <4>1
      <3>4. \A i \in 1..Len(packets) : i < Len(packets) => i # Len(packets)
        <4>1. \A n \in Nat : \A i \in 1..n : i < n => i # n
          OBVIOUS
        <4> QED
          BY <3>2, <4>1
      <3> QED
        BY <3>1, <3>2, <3>3, <3>4, ZenonT(40) DEF Ended, Ordered, Continues
    <2> QED
      BY <2>1, <2>2 DEF HashIsRight
  <1> QED
    BY <1>1, <1>2, <1>3, PTL DEF HSpec

-----------------------------------------------------------------------------
(* Sampling of traditional runs: SamplingIsSafe *)

RunRequests == [channels : Nat, optime : Nat]
Plans == [sleep : Nat, time : Nat, num : Nat, left : Nat]

\* Microseconds of one sample, and of all of them with what is left
Period == plan.time + plan.sleep
Planned == plan.num * Period + plan.left

\* The plan of a run that samples
PlanIsKept ==
  /\ Planned <= request.optime /\ request.optime - Planned < MaxNumSamples
  /\ plan.num = 0 => Planned = request.optime

\* The readings of the samples that have been taken are in their places.
SamplesAreInPlace ==
  \A row \in 0..(sample - 1), col \in 0..(request.channels - 1) :
    col < NUM_CHANNELS => buffer[Entry(row, col)] = {<<row, col>>}

\* A run that has a buffer
Sampling ==
  allocated > 0 =>
    /\ dpc \in {"op"} \cup Sending /\ request.channels > 0
    /\ allocated = plan.num * request.channels + NUM_CHANNELS
    /\ PlanIsKept /\ SamplesAreInPlace
    /\ dpc = "op" => spent = sample * Period
    /\ dpc \in Sending => sample = plan.num /\ spent = Planned

\* Types of the state of a run
DataTypes ==
  /\ request \in RunRequests /\ plan \in Plans /\ plan.num <= MaxNumSamples
  /\ sample \in Nat /\ sample <= plan.num /\ spent \in Nat /\ allocated \in Nat
  /\ buffer \in [1..allocated -> SUBSET Readings]
  /\ dpc \in Sending \cup {"idle", "op", "DONE", "ERROR"}

\* What the ADC of the streaming acquisition can read: 14 bits
MaxRaw == 16383
RawReadings == 0..MaxRaw

\* The index of the table for the reading that was looked up
TableIsUsed == reading.raw \in RawReadings /\ reading.index = raw_to_normalized(reading.raw)

\* The inductive invariant of the data of a run
DataInv ==
  /\ DataTypes /\ Sampling /\ TableIsUsed
  /\ dpc \in Sending => allocated > 0
  /\ dpc = "op" /\ allocated = 0 => sample = 0
  /\ dpc \in {"DONE", "ERROR"} => OpTimeIsKept

\* The members of a range that starts at 0.
LEMMA RangeMembers ==
  ASSUME NEW m \in Int
  PROVE  \A r : r \in 0..m <=> r \in Int /\ 0 <= r /\ r <= m
  OBVIOUS

\* The readings of the converter have 14 bits.
LEMMA RawsAreReadings ==
  /\ Raws \subseteq RawReadings /\ 0 \in RawReadings
  /\ \A r \in RawReadings : r \in Int /\ 0 <= r /\ r <= 16383
  <1>1. MaxRaw = 16383
    BY DEF MaxRaw
  <1>2. MaxRaw \in Int /\ 0 <= MaxRaw
    BY <1>1
  <1>3. \A r \in Raws : r \in Int /\ 0 <= r /\ r <= MaxRaw
    BY <1>1, RawsAssumption
  <1>4. \A r : r \in RawReadings <=> r \in Int /\ 0 <= r /\ r <= MaxRaw
    BY <1>2, RangeMembers, Zenon DEF RawReadings
  <1> QED
    BY <1>1, <1>2, <1>3, <1>4

\* Before the first reading the table was not looked up.
LEMMA NoReading ==
  ASSUME NEW r, r = [raw |-> 0, index |-> 0]
  PROVE  r.raw \in RawReadings /\ r.index = raw_to_normalized(r.raw)
  <1>1. r.raw = 0 /\ r.index = 0
    OBVIOUS
  <1>2. raw_to_normalized(0) = 0
    BY DEF raw_to_normalized
  <1>3. 0 \in RawReadings
    BY RawsAreReadings
  <1>4. r.raw \in RawReadings
    BY <1>1, <1>3, Zenon
  <1>5. raw_to_normalized(r.raw) = raw_to_normalized(0)
    BY <1>1, ZenonT(40)
  <1> QED
    BY <1>1, <1>2, <1>4, <1>5, Zenon

\* Products, as far as the provers need to know of them.
LEMMA Products ==
  ASSUME NEW a \in Nat, NEW b \in Nat
  PROVE  /\ a * b \in Nat /\ (a + 1) * b = a * b + b
         /\ \A c \in Nat : a <= c => a * b <= c * b /\ b * a <= b * c
  OBVIOUS

\* Quotient and remainder.
LEMMA Quotients ==
  ASSUME NEW n \in Nat, NEW d \in Nat \ {0}
  PROVE  /\ n \div d \in Nat /\ n % d \in Nat /\ n % d < d
         /\ n = (n \div d) * d + (n % d)
         /\ (n \div d) * d <= n /\ n - (n \div d) * d < d
  OBVIOUS

\* The plan of a run: samples and the remaining time make up the OP time, but for less than a
\* microsecond per sample when the number of samples is cut.
LEMMA PlanKeepsTime ==
  ASSUME NEW optime \in Nat, NEW time \in Nat \ {0}, NEW per,
         per = SamplingSleep(optime, time) + time,
         NEW num, num = (IF optime \div per > MaxNumSamples THEN MaxNumSamples ELSE optime \div per)
  PROVE  /\ SamplingSleep(optime, time) \in Nat /\ per \in Nat \ {0} /\ num \in 0..MaxNumSamples
         /\ optime % per \in Nat
         /\ num * per + (optime % per) <= optime
         /\ optime - (num * per + (optime % per)) < MaxNumSamples
         /\ num = 0 => num * per + (optime % per) = optime
  <1> DEFINE M == MaxNumSamples
             total == optime \div M
  <1>1. M \in Nat \ {0}
    BY RunDataAssumption
  <1>2. total \in Nat /\ total * M <= optime /\ optime - total * M < M
    BY <1>1, Quotients
  <1>3. SamplingSleep(optime, time) \in Nat /\ per = (IF total < time THEN time ELSE total)
    <2>1. SamplingSleep(optime, time) = IF total < time THEN 0 ELSE total - time
      BY DEF SamplingSleep
    <2> HIDE DEF total
    <2> QED
      BY <1>2, <2>1
  <1> HIDE DEF M, total
  <1>4. per \in Nat \ {0} /\ per >= total
    BY <1>2, <1>3
  <1> DEFINE q == optime \div per
             r == optime % per
  <1>5. q \in Nat /\ r \in Nat /\ r < per /\ optime = q * per + r
    BY <1>4, Quotients
  <1>6. num = IF q > M THEN M ELSE q
    BY DEF M
  <1> HIDE DEF q, r
  <1>7. CASE ~(q > M)
    <2>1. num = q /\ num \in 0..M
      BY <1>1, <1>5, <1>6, <1>7
    <2>2. num * per + r = optime
      BY <1>5, <2>1
    <2>3. num * per + r <= optime /\ optime - (num * per + r) < M
      BY <1>1, <2>2
    <2> QED
      BY <1>1, <1>3, <1>4, <1>5, <2>1, <2>2, <2>3 DEF M, q, r
  <1>8. CASE q > M
    <2>1. num = M /\ num \in 0..M /\ num # 0
      BY <1>1, <1>6, <1>8
    <2>2. M * per <= q * per /\ M * per \in Nat /\ q * per \in Nat
      BY <1>1, <1>4, <1>5, <1>8, Products
    <2>3. M * per + r <= optime
      BY <1>5, <2>2
    <2>4. M * total <= M * per /\ M * total = total * M /\ M * total \in Nat
      BY <1>1, <1>2, <1>4, Products
    <2>5. optime - (M * per + r) < M
      BY <1>1, <1>2, <1>5, <2>2, <2>4
    <2> QED
      BY <1>1, <1>3, <1>4, <1>5, <2>1, <2>3, <2>5 DEF M, q, r
  <1> QED
    BY <1>7, <1>8

\* What a run asks for, and what is measured, are numbers.
LEMMA InputTypes ==
  ASSUME NEW channels \in ChannelCounts, NEW optime \in OpTimes, NEW time \in SamplingTimes \cup {0}
  PROVE  channels \in Nat /\ optime \in Nat /\ time \in Nat
  <1>1. time = 0 \/ time \in SamplingTimes
    OBVIOUS
  <1>2. time \in SamplingTimes => time \in Nat
    BY RunDataAssumption
  <1>3. channels \in Nat /\ optime \in Nat
    BY RunDataAssumption
  <1> QED
    BY <1>1, <1>2, <1>3

\* A run begins: the plan, and a buffer with room for all samples or none.
LEMMA BeginStep ==
  ASSUME DataInv, NEW channels \in ChannelCounts, NEW optime \in OpTimes, NEW time \in SamplingTimes \cup {0},
         Begin(channels, optime, time)
  PROVE  DataInv'
  <1>1. channels \in Nat /\ optime \in Nat /\ time \in Nat /\ (channels > 0 => time \in Nat \ {0})
    <2>1. (time = 0) = (channels = 0)
      BY DEF Begin
    <2>2. channels \in Nat /\ optime \in Nat /\ time \in Nat
      BY InputTypes
    <2> QED
      BY <2>1, <2>2
  <1> DEFINE sleep == SamplingSleep(optime, time)
             per == sleep + time
  <1>2. PICK q \in Divisions(optime, per), given \in BOOLEAN :
          LET num == IF q[1] > MaxNumSamples THEN MaxNumSamples ELSE q[1]
              entries == IF channels > 0 /\ given THEN WithPadding(num * channels) ELSE 0
          IN /\ plan' = [sleep |-> sleep, time |-> time, num |-> num, left |-> q[2]]
             /\ allocated' = entries /\ buffer' = [i \in 1..entries |-> {Unwritten}]
    BY DEF Begin
  <1>3. /\ request' = [channels |-> channels, optime |-> optime]
        /\ sample' = 0 /\ spent' = 0 /\ dpc' = "op" /\ reading' = [raw |-> 0, index |-> 0]
    BY DEF Begin
  <1> DEFINE num == IF q[1] > MaxNumSamples THEN MaxNumSamples ELSE q[1]
             entries == IF channels > 0 /\ given THEN WithPadding(num * channels) ELSE 0
  <1>4. /\ plan' = [sleep |-> sleep, time |-> time, num |-> num, left |-> q[2]]
        /\ allocated' = entries /\ buffer' = [i \in 1..entries |-> {Unwritten}]
    BY <1>2
  <1>5. sleep \in Nat
    <2>1. MaxNumSamples \in Nat \ {0}
      BY RunDataAssumption
    <2>2. optime \div MaxNumSamples \in Nat
      BY <1>1, <2>1, Quotients
    <2>3. \A a, b \in Nat : ~(a < b) => a - b \in Nat
      OBVIOUS
    <2> QED
      BY <1>1, <2>2, <2>3 DEF SamplingSleep
  <1> HIDE DEF sleep
  <1>6. per \in Nat
    BY <1>1, <1>5
  <1> HIDE DEF per
  <1>7. q[1] \in Nat /\ q[2] \in Nat
    <2>1. CASE per = 0
      BY <1>1, <1>2, <2>1 DEF Divisions
    <2>2. CASE per # 0
      <3>1. optime \div per \in Nat /\ optime % per \in Nat
        BY <1>1, <1>6, <2>2, Quotients
      <3>2. q = <<optime \div per, optime % per>>
        BY <1>2, <2>2 DEF Divisions
      <3> QED
        BY <3>1, <3>2
    <2> QED
      BY <2>1, <2>2
  <1>8. num \in Nat /\ num <= MaxNumSamples
    <2>1. MaxNumSamples \in Nat
      BY RunDataAssumption
    <2> QED
      BY <1>7, <2>1
  <1>9. channels > 0 => /\ num * per + q[2] <= optime
                        /\ optime - (num * per + q[2]) < MaxNumSamples
                        /\ num = 0 => num * per + q[2] = optime
    <2> SUFFICES ASSUME channels > 0
                 PROVE  /\ num * per + q[2] <= optime
                        /\ optime - (num * per + q[2]) < MaxNumSamples
                        /\ num = 0 => num * per + q[2] = optime
      OBVIOUS
    <2>1. per = SamplingSleep(optime, time) + time /\ time \in Nat \ {0}
      BY <1>1 DEF per, sleep
    <2>2. per # 0
      BY <2>1, <1>1, PlanKeepsTime
    <2>3. q = <<optime \div per, optime % per>>
      BY <1>2, <2>2 DEF Divisions
    <2>4. q[1] = optime \div per /\ q[2] = optime % per
      BY <2>3
    <2>5. num = (IF optime \div per > MaxNumSamples THEN MaxNumSamples ELSE optime \div per)
      BY <2>4
    <2> HIDE DEF num
    <2> QED
      BY <1>1, <2>1, <2>4, <2>5, PlanKeepsTime
  <1> HIDE DEF num
  <1>10. NUM_CHANNELS \in Nat \ {0} /\ MaxNumSamples \in Nat
    BY RunDataAssumption
  <1>11. num * channels \in Nat
    BY <1>1, <1>8, Products
  <1>12. entries \in Nat /\ (entries > 0 => channels > 0 /\ entries = num * channels + NUM_CHANNELS)
    BY <1>10, <1>11 DEF WithPadding
  <1> HIDE DEF entries
  <1>13. /\ request' \in RunRequests /\ request'.channels = channels /\ request'.optime = optime
         /\ plan' \in Plans /\ plan'.num = num /\ plan'.left = q[2] /\ plan'.time = time /\ plan'.sleep = sleep
    BY <1>1, <1>3, <1>4, <1>5, <1>7, <1>8 DEF RunRequests, Plans
  <1>14. {Unwritten} \in SUBSET Readings
    <2>1. -1 \in -1..NUM_CHANNELS
      BY <1>10
    <2> QED
      BY <2>1 DEF Unwritten, Readings
  <1>15. buffer' \in [1..allocated' -> SUBSET Readings]
    BY <1>4, <1>14
  <1>16. DataTypes'
    BY <1>3, <1>4, <1>8, <1>12, <1>13, <1>15 DEF DataTypes, Sending
  <1>17. Period' = per
    BY <1>1, <1>5, <1>13 DEF Period, per
  <1>18. Planned' = num * per + q[2]
    BY <1>13, <1>17 DEF Planned
  <1>19. channels > 0 => PlanIsKept'
    BY <1>9, <1>13, <1>18 DEF PlanIsKept
  <1>20. SamplesAreInPlace'
    BY <1>3 DEF SamplesAreInPlace
  <1>21. spent' = sample' * Period'
    BY <1>3, <1>6, <1>17
  <1>22. Sampling'
    BY <1>3, <1>4, <1>12, <1>13, <1>19, <1>20, <1>21 DEF Sampling, Sending
  <1>23. TableIsUsed'
    BY <1>3, NoReading DEF TableIsUsed
  <1> QED
    BY <1>3, <1>16, <1>22, <1>23 DEF DataInv, Sending

\* One sample writes the places of its own channels and of later ones only.
LEMMA SampleStep ==
  ASSUME DataInv, TakeSample
  PROVE  DataInv'
  <1> DEFINE ch == request.channels
             base == sample * ch
             into == Entry(sample, 0)..Entry(sample, NUM_CHANNELS - 1)
  <1>1. /\ dpc = "op" /\ allocated > 0 /\ sample < plan.num
        /\ buffer' = [i \in DOMAIN buffer \cup into |->
             IF i \in into THEN Cleared(IF i \in DOMAIN buffer THEN buffer[i] ELSE {}, <<sample, i - Entry(sample, 0)>>)
             ELSE buffer[i]]
        /\ sample' = sample + 1 /\ spent' = spent + plan.time + plan.sleep
        /\ request' = request /\ plan' = plan /\ allocated' = allocated /\ reading' = reading /\ dpc' = dpc
    BY DEF TakeSample
  <1>2. /\ DataTypes /\ ch \in Nat /\ request.optime \in Nat /\ plan.num \in Nat /\ plan.time \in Nat /\ plan.sleep \in Nat
        /\ sample \in Nat /\ spent \in Nat /\ plan.num <= MaxNumSamples /\ allocated \in Nat
        /\ buffer \in [1..allocated -> SUBSET Readings]
    BY DEF DataInv, DataTypes, RunRequests, Plans, Sending
  <1>3. /\ ch > 0 /\ allocated = plan.num * ch + NUM_CHANNELS
        /\ PlanIsKept /\ SamplesAreInPlace /\ spent = sample * Period
    BY <1>1 DEF DataInv, Sampling, Sending
  <1>4. NUM_CHANNELS \in Nat \ {0} /\ MaxNumSamples \in Nat
    BY RunDataAssumption
  <1>5. base \in Nat /\ base <= plan.num * ch /\ plan.num * ch \in Nat
    <2>1. sample \in Nat /\ plan.num \in Nat /\ sample <= plan.num /\ ch \in Nat
      BY <1>1, <1>2
    <2> HIDE DEF ch
    <2> QED
      BY <2>1, Products
  <1>6. Entry(sample, 0) = base + 1 /\ Entry(sample, NUM_CHANNELS - 1) = base + NUM_CHANNELS
    BY <1>2, <1>4, <1>5 DEF Entry
  <1> HIDE DEF ch, base
  <1>7. into = (base + 1)..(base + NUM_CHANNELS)
    BY <1>6
  <1> HIDE DEF into
  <1>8. into \subseteq 1..allocated /\ DOMAIN buffer \cup into = 1..allocated
    <2>1. DOMAIN buffer = 1..allocated
      BY <1>2
    <2>2. base + NUM_CHANNELS <= allocated /\ base + 1 >= 1 /\ base \in Nat /\ allocated \in Nat
      BY <1>2, <1>3, <1>4, <1>5
    <2>3. into \subseteq 1..allocated
      BY <1>4, <1>7, <2>2
    <2> QED
      BY <2>1, <2>3
  <1>9. buffer' = [i \in 1..allocated |-> IF i \in into THEN {<<sample, i - (base + 1)>>} ELSE buffer[i]]
    BY <1>1, <1>6, <1>8 DEF Cleared
  <1>10. \A i \in 1..allocated : i \in into => i - (base + 1) \in 0..(NUM_CHANNELS - 1)
    BY <1>4, <1>5, <1>7
  <1>11. \A i \in 1..allocated : i \in into => {<<sample, i - (base + 1)>>} \in SUBSET Readings
    <2>1. sample \in {-1} \cup 0..MaxNumSamples
      BY <1>1, <1>2, <1>4
    <2>2. 0..(NUM_CHANNELS - 1) \subseteq -1..NUM_CHANNELS
      BY <1>4
    <2> QED
      BY <1>10, <2>1, <2>2 DEF Readings
  <1>12. buffer' \in [1..allocated' -> SUBSET Readings]
    BY <1>1, <1>2, <1>9, <1>11
  <1>13. Period \in Nat /\ sample * Period \in Nat /\ (sample + 1) * Period = sample * Period + Period
    BY <1>2, Products, SMTT(40) DEF Period
  <1>14. spent' = sample' * Period' /\ spent' \in Nat
    <2>1. spent' = spent + Period
      BY <1>1, <1>2 DEF Period
    <2>2. Period' = Period
      BY <1>1 DEF Period
    <2> QED
      <3>1. sample' * Period' = sample * Period + Period
        BY <1>1, <1>13, <2>2
      <3>2. spent' = sample * Period + Period
        BY <1>3, <2>1
      <3> QED
        BY <1>13, <3>1, <3>2
  <1>15. DataTypes'
    BY <1>1, <1>2, <1>12, <1>14, SMTT(40) DEF DataTypes, Sending
  <1>16. PlanIsKept'
    BY <1>1, <1>3 DEF PlanIsKept, Planned, Period
  <1>17. SamplesAreInPlace'
    <2> SUFFICES ASSUME NEW row \in 0..sample, NEW col \in 0..(ch - 1), col < NUM_CHANNELS
                 PROVE  buffer'[row * ch + col + 1] = {<<row, col>>}
      <3>1. 0..(sample' - 1) = 0..sample /\ request'.channels = ch
        BY <1>1, <1>2 DEF ch
      <3> QED
        BY <3>1 DEF SamplesAreInPlace, Entry
    <2>1. CASE row = sample
      <3>1. row * ch + col + 1 = base + col + 1 /\ col \in Nat
        BY <1>2, <1>4, <2>1 DEF base
      <3>2. base + col + 1 \in into /\ (base + col + 1) - (base + 1) = col
        BY <1>4, <1>5, <1>7, <3>1
      <3> QED
        BY <1>8, <1>9, <2>1, <3>1, <3>2
    <2>2. CASE row # sample
      <3>1. row \in Nat /\ row + 1 <= sample /\ row \in 0..(sample - 1) /\ col \in Nat /\ col + 1 <= ch
        BY <1>2, <2>2
      <3>2. row * ch \in Nat /\ (row + 1) * ch = row * ch + ch /\ (row + 1) * ch <= base
        BY <1>2, <3>1, Products DEF base
      <3> DEFINE e == row * ch + col + 1
      <3>3. e \in Nat /\ e <= base /\ e >= 1
        BY <1>2, <1>5, <3>1, <3>2
      <3>4. buffer[e] = {<<row, col>>}
        BY <1>3, <3>1 DEF SamplesAreInPlace, Entry, ch
      <3> HIDE DEF e
      <3>5. e \notin into /\ e \in 1..allocated
        BY <1>3, <1>4, <1>5, <1>7, <3>3
      <3>6. buffer'[e] = buffer[e]
        BY <1>9, <3>5
      <3> QED
        BY <3>4, <3>6 DEF e
    <2> QED
      BY <2>1, <2>2
  <1>18. Sampling'
    BY <1>1, <1>3, <1>14, <1>16, <1>17 DEF Sampling, ch, Sending
  <1>19. TableIsUsed'
    <2>1. TableIsUsed
      BY DEF DataInv, Sending
    <2> QED
      BY <1>1, <2>1, Zenon DEF TableIsUsed
  <1> QED
    BY <1>1, <1>15, <1>18, <1>19 DEF DataInv, Sending

\* The rest of the OP time.
LEMMA WaitStep ==
  ASSUME DataInv, Wait
  PROVE  DataInv'
  <1>1. /\ dpc = "op" /\ (allocated > 0 => sample = plan.num)
        /\ spent' = IF allocated > 0 THEN spent + plan.left
                    ELSE IF request.optime > LongDelay THEN (request.optime \div Milli) * Milli ELSE request.optime
        /\ dpc' = IF allocated > 0 THEN "send" ELSE IF request.channels > 0 THEN "ERROR" ELSE "DONE"
        /\ request' = request /\ plan' = plan /\ buffer' = buffer /\ allocated' = allocated
        /\ sample' = sample /\ reading' = reading
    BY DEF Wait
  <1>2. /\ DataTypes /\ request.optime \in Nat /\ plan.num \in Nat /\ plan.left \in Nat /\ plan.time \in Nat /\ plan.sleep \in Nat
        /\ sample \in Nat /\ spent \in Nat /\ allocated \in Nat
    BY DEF DataInv, DataTypes, RunRequests, Plans, Sending
  <1>3. TableIsUsed'
    <2>1. TableIsUsed
      BY DEF DataInv, Sending
    <2> QED
      BY <1>1, <2>1, Zenon DEF TableIsUsed
  <1>4. CASE allocated > 0
    <2>1. /\ spent' = spent + plan.left /\ dpc' = "send" /\ sample = plan.num
      BY <1>1, <1>4
    <2>2. Sampling /\ spent = sample * Period
      BY <1>1, <1>4 DEF DataInv, Sampling, Sending
    <2>3. spent' = Planned' /\ spent' \in Nat
      <3>1. Planned' = plan.num * Period + plan.left
        BY <1>1 DEF Planned, Period
      <3> QED
        BY <1>2, <2>1, <2>2, <3>1
    <2>4. DataTypes'
      BY <1>1, <1>2, <2>1, <2>3 DEF DataTypes, Sending
    <2>5. Sampling'
      <3>1. PlanIsKept /\ SamplesAreInPlace
        BY <1>4, <2>2 DEF Sampling, Sending
      <3>2. PlanIsKept'
        BY <1>1, <3>1 DEF PlanIsKept, Planned, Period
      <3>3. SamplesAreInPlace'
        BY <1>1, <3>1 DEF SamplesAreInPlace, Entry
      <3> QED
        BY <1>1, <1>4, <2>1, <2>2, <2>3, <3>2, <3>3 DEF Sampling, Sending
    <2> QED
      BY <1>1, <1>3, <1>4, <2>1, <2>4, <2>5 DEF DataInv, Sending
  <1>5. CASE ~(allocated > 0)
    <2>1. allocated = 0 /\ sample = 0
      BY <1>1, <1>2, <1>5 DEF DataInv, Sending
    <2>2. spent' \in Nat /\ spent' <= request.optime /\ request.optime - spent' < Milli
      <3>1. Milli \in Nat \ {0}
        BY RunDataAssumption
      <3> DEFINE m == (request.optime \div Milli) * Milli
      <3>2. m \in Nat /\ m <= request.optime /\ request.optime - m < Milli
        <4>1. request.optime \div Milli \in Nat /\ m <= request.optime /\ request.optime - m < Milli
          BY <1>2, <3>1, Quotients
        <4> QED
          BY <3>1, <4>1, Products
      <3>3. spent' = m \/ spent' = request.optime
        BY <1>1, <1>5
      <3> HIDE DEF m
      <3> QED
        BY <1>2, <3>1, <3>2, <3>3
    <2>3. dpc' \in {"DONE", "ERROR"}
      BY <1>1, <1>5
    <2>4. DataTypes'
      BY <1>1, <1>2, <2>2, <2>3 DEF DataTypes, Sending
    <2>5. Sampling'
      BY <1>1, <2>1 DEF Sampling, Sending
    <2>6. OpTimeIsKept'
      BY <1>1, <2>1, <2>2, <2>3 DEF OpTimeIsKept, Sending
    <2> QED
      BY <1>3, <2>3, <2>4, <2>5, <2>6 DEF DataInv, Sending
  <1> QED
    BY <1>4, <1>5

\* While the message is written the data stay as they are.
LEMMA SendingStep ==
  ASSUME DataInv, SendHead \/ BeginRow \/ SendReading \/ EndRow
  PROVE  DataInv'
  <1>1. /\ dpc \in Sending /\ dpc' \in Sending
        /\ request' = request /\ plan' = plan /\ buffer' = buffer /\ allocated' = allocated
        /\ sample' = sample /\ spent' = spent /\ reading' = reading
    BY DEF SendHead, BeginRow, SendReading, EndRow, Sending
  <1>2. TableIsUsed'
    <2>1. TableIsUsed
      BY DEF DataInv, Sending
    <2> QED
      BY <1>1, <2>1, Zenon DEF TableIsUsed
  <1>3. DataTypes'
    BY <1>1 DEF DataInv, DataTypes, Sending
  <1>4. allocated > 0
    BY <1>1 DEF DataInv, Sending
  <1>5. Sampling'
    <2>1. PlanIsKept' /\ SamplesAreInPlace'
      BY <1>1, <1>4 DEF DataInv, Sampling, PlanIsKept, Planned, Period, SamplesAreInPlace, Entry, Sending
    <2>2. Planned' = Planned
      BY <1>1 DEF Planned, Period
    <2> QED
      BY <1>1, <1>4, <2>1, <2>2 DEF DataInv, Sampling, Sending
  <1> QED
    BY <1>1, <1>2, <1>3, <1>4, <1>5 DEF DataInv, Sending

\* The message ends, and the buffer is freed.
LEMMA SendStep ==
  ASSUME DataInv, SendEnd
  PROVE  DataInv'
  <1>1. /\ dpc \in Sending /\ buffer' = <<>> /\ allocated' = 0 /\ dpc' = "DONE"
        /\ request' = request /\ plan' = plan /\ sample' = sample /\ spent' = spent /\ reading' = reading
    BY DEF SendEnd, Sending
  <1>2. DataTypes
    BY DEF DataInv, Sending
  <1>3. TableIsUsed'
    <2>1. TableIsUsed
      BY DEF DataInv, Sending
    <2> QED
      BY <1>1, <2>1, Zenon DEF TableIsUsed
  <1>4. buffer' \in [1..allocated' -> SUBSET Readings]
    <2>1. 1..0 = {}
      OBVIOUS
    <2>2. <<>> \in [{} -> SUBSET Readings]
      OBVIOUS
    <2> QED
      BY <1>1, <2>1, <2>2
  <1>5. DataTypes'
    BY <1>1, <1>2, <1>4 DEF DataTypes, Sending
  <1>6. Sampling'
    BY <1>1 DEF Sampling, Sending
  <1>7. PlanIsKept /\ sample = plan.num /\ spent = Planned
    BY <1>1 DEF DataInv, Sampling, Sending
  <1>8. OpTimeIsKept'
    <2>1. /\ spent <= request.optime /\ request.optime - spent < MaxNumSamples
          /\ sample = 0 => spent = request.optime
      BY <1>7 DEF PlanIsKept
    <2>2. sample \in Nat /\ spent \in Nat /\ Milli \in Nat \ {0} /\ request.optime \in Nat
      BY <1>2, RunDataAssumption DEF DataTypes, RunRequests, Sending
    <2>3. sample = 0 => request.optime - spent < Milli
      BY <2>1, <2>2
    <2> QED
      BY <1>1, <2>1, <2>2, <2>3 DEF OpTimeIsKept, Sending
  <1> QED
    BY <1>1, <1>3, <1>5, <1>6, <1>8 DEF DataInv, Sending

\* run_next_traditional() returns.
LEMMA ReturnStep ==
  ASSUME DataInv, Return
  PROVE  DataInv'
  <1>1. /\ dpc \in {"DONE", "ERROR"} /\ dpc' = "idle"
        /\ request' = NoRequest /\ plan' = NoPlan /\ buffer' = <<>> /\ sample' = 0 /\ spent' = 0
        /\ allocated' = allocated /\ reading' = reading
    BY DEF Return
  <1>2. allocated = 0
    BY <1>1 DEF DataInv, Sampling, DataTypes, Sending
  <1>3. TableIsUsed'
    <2>1. TableIsUsed
      BY DEF DataInv, Sending
    <2> QED
      BY <1>1, <2>1, Zenon DEF TableIsUsed
  <1>4. buffer' \in [1..allocated' -> SUBSET Readings]
    <2>1. 1..0 = {}
      OBVIOUS
    <2>2. <<>> \in [{} -> SUBSET Readings]
      OBVIOUS
    <2> QED
      BY <1>1, <1>2, <2>1, <2>2
  <1>5. MaxNumSamples \in Nat
    BY RunDataAssumption
  <1>6. DataTypes'
    BY <1>1, <1>2, <1>4, <1>5 DEF DataTypes, NoRequest, NoPlan, RunRequests, Plans, Sending
  <1>7. Sampling'
    BY <1>1, <1>2 DEF Sampling, Sending
  <1> QED
    BY <1>1, <1>3, <1>6, <1>7 DEF DataInv, Sending

\* A reading is looked up in the table.
LEMMA LookUpStep ==
  ASSUME DataInv, NEW raw \in Raws, LookUp(raw)
  PROVE  DataInv'
  <1>1. /\ reading' = [raw |-> raw, index |-> raw_to_normalized(raw)]
        /\ request' = request /\ plan' = plan /\ buffer' = buffer /\ allocated' = allocated /\ sample' = sample
        /\ spent' = spent /\ dpc' = dpc
    BY DEF LookUp
  <1>2. raw \in RawReadings
    BY RawsAreReadings
  <1>3. TableIsUsed'
    BY <1>1, <1>2 DEF TableIsUsed
  <1>4. DataTypes'
    BY <1>1 DEF DataInv, DataTypes, Sending
  <1>5. Sampling'
    BY <1>1 DEF DataInv, Sampling, PlanIsKept, Planned, Period, SamplesAreInPlace, Entry, Sending
  <1>6. dpc' \in {"DONE", "ERROR"} => OpTimeIsKept'
    BY <1>1 DEF DataInv, OpTimeIsKept, Sending
  <1> QED
    BY <1>1, <1>3, <1>4, <1>5, <1>6 DEF DataInv, Sending

LEMMA DataIsSafe == DSpec => []DataInv
  <1>1. DInit => DataInv
    <2> SUFFICES ASSUME DInit PROVE DataInv
      OBVIOUS
    <2>1. /\ request = NoRequest /\ plan = NoPlan /\ buffer = <<>> /\ allocated = 0 /\ sample = 0 /\ spent = 0
          /\ reading = [raw |-> 0, index |-> 0] /\ dpc = "idle"
      BY DEF DInit
    <2>2. buffer \in [1..allocated -> SUBSET Readings]
      <3>1. 1..0 = {}
        OBVIOUS
      <3>2. <<>> \in [{} -> SUBSET Readings]
        OBVIOUS
      <3> QED
        BY <2>1, <3>1, <3>2
    <2>3. MaxNumSamples \in Nat
      BY RunDataAssumption
    <2>4. DataTypes
      BY <2>1, <2>2, <2>3 DEF DataTypes, NoRequest, NoPlan, RunRequests, Plans, Sending
    <2>5. TableIsUsed
      BY <2>1, NoReading DEF TableIsUsed
    <2> QED
      BY <2>1, <2>4, <2>5 DEF DataInv, Sampling, Sending
  <1>2. DataInv /\ [DNext]_dVars => DataInv'
    <2> SUFFICES ASSUME DataInv, [DNext]_dVars PROVE DataInv'
      OBVIOUS
    <2>1. CASE DNext
      BY <2>1, BeginStep, SampleStep, WaitStep, SendingStep, SendStep, ReturnStep, LookUpStep DEF DNext
    <2>2. CASE UNCHANGED dVars
      <3>1. /\ reading' = reading /\ request' = request /\ plan' = plan /\ buffer' = buffer /\ allocated' = allocated
            /\ sample' = sample /\ spent' = spent /\ dpc' = dpc
        BY <2>2 DEF dVars
      <3>2. TableIsUsed'
        <4>1. TableIsUsed
          BY DEF DataInv, Sending
        <4> QED
          BY <3>1, <4>1, Zenon DEF TableIsUsed
      <3>3. DataTypes'
        BY <3>1 DEF DataInv, DataTypes, Sending
      <3>4. Sampling'
        BY <3>1 DEF DataInv, Sampling, PlanIsKept, Planned, Period, SamplesAreInPlace, Entry, Sending
      <3>5. dpc' \in {"DONE", "ERROR"} => OpTimeIsKept'
        BY <3>1 DEF DataInv, OpTimeIsKept, Sending
      <3> QED
        BY <3>1, <3>2, <3>3, <3>4, <3>5 DEF DataInv, Sending
    <2> QED
      BY <2>1, <2>2
  <1> QED
    BY <1>1, <1>2, PTL DEF DSpec

\* run_next_traditional() and raw_to_str(): for every number of channels of the ADC and of the
\* run, every limit of samples, OP time and measured sampling time, the OP time is kept, no
\* sample is written outside of the buffer, every reading is in its place when OP has ended,
\* and the table is right.
THEOREM SamplingSafe == DSpec => []SamplingIsSafe
  <1>1. DataInv => SamplingIsSafe
    <2> SUFFICES ASSUME DataInv PROVE SamplingIsSafe
      OBVIOUS
    <2>1. DataTypes /\ Sampling /\ TableIsUsed
      BY DEF DataInv, Sending
    <2>2. DTypeOK
      <3>1. request.channels \in Nat /\ request.optime \in Nat /\ plan.num \in Nat
        BY <2>1 DEF DataTypes, RunRequests, Plans, Sending
      <3>2. plan.num \in 0..MaxNumSamples /\ sample \in 0..plan.num
        BY <2>1, <3>1, RunDataAssumption DEF DataTypes, Sending
      <3>3. DOMAIN buffer = 1..allocated /\ \A i \in 1..allocated : buffer[i] \subseteq Readings
        BY <2>1 DEF DataTypes, Sending
      <3> QED
        BY <2>1, <3>1, <3>2, <3>3 DEF DTypeOK, DataTypes, Sending
    <2>3. OpTimeIsKept
      <3>1. CASE dpc \in Sending
        <4>1. PlanIsKept /\ spent = Planned
          BY <3>1, <2>1 DEF DataInv, Sampling, Sending
        <4> QED
          BY <3>1, <4>1 DEF OpTimeIsKept, PlanIsKept, Sending
      <3>2. CASE dpc \in {"DONE", "ERROR"}
        BY <3>2 DEF DataInv, Sending
      <3>3. CASE dpc \notin Sending \cup {"DONE", "ERROR"}
        BY <3>3 DEF OpTimeIsKept, Sending
      <3> QED
        BY <3>1, <3>2, <3>3
    <2>4. BufferHoldsSamples
      <3>1. dpc \in Sending => SamplesAreInPlace /\ sample = plan.num
        BY <2>1 DEF DataInv, Sampling, Sending
      <3> QED
        BY <3>1 DEF BufferHoldsSamples, SamplesAreInPlace, Sending
    <2>5. TableFitsFloat
      <3> DEFINE raw == reading.raw
                 n == raw * 1527
                 i == n \div 10000
                 error == reading.index * 16383 - 2500 * raw
      <3>0. raw \in RawReadings /\ reading.index = raw_to_normalized(raw)
        BY <2>1, Zenon DEF TableIsUsed
      <3> HIDE DEF raw
      <3>1. raw \in Int /\ 0 <= raw /\ raw <= 16383
        BY <3>0, RawsAreReadings
      <3>i. reading.index = IF i < 2500 THEN i ELSE 2500
        BY <3>0, SMTT(40) DEF raw_to_normalized
      <3>2. n \in Nat
        BY <3>1
      <3> HIDE DEF n
      <3>3. i \in Nat /\ i * 10000 <= n /\ n - i * 10000 < 10000
        BY <3>2, Quotients
      <3> HIDE DEF i
      <3>4. reading.index \in Nat /\ reading.index <= 2500
        BY <3>i, <3>3
      <3>5. error <= 2 * 16383 /\ -error <= 2 * 16383
        BY <3>1, <3>i, <3>3, <3>4 DEF n
      <3> HIDE DEF error
      <3> QED
        BY <3>4, <3>5 DEF TableFitsFloat, raw, error
    <2> QED
      BY <2>2, <2>3, <2>4, <2>5 DEF SamplingIsSafe
  <1> QED
    BY <1>1, DataIsSafe, PTL

-----------------------------------------------------------------------------
(* The message of traditional runs: DataIsSent *)

\* A document in which all tokens so far had their places
Doc(comma, last, open, values) == [comma |-> comma, last |-> last, open |-> open, ok |-> TRUE, values |-> values]

\* The brackets that are open: in the envelope, in the message, in a list of it, and in a row
InEnvelope == <<"dict">>
InMessage == <<"dict", "dict">>
InData == <<"dict", "dict", "list">>
InRow == <<"dict", "dict", "list", "list">>

\* The readings written so far are the first ones of the buffer, in its order.
Copied ==
  /\ message.values \in Seq(SUBSET Readings)
  /\ Len(message.values) = at.row * request.channels + at.channel
  /\ \A i \in 1..Len(message.values) : message.values[i] = buffer[i]

\* The document where the data begin, after the comma behind a row, and after the last row;
\* where a row begins, and after a reading; at the end
DataBegin(values) == Doc(FALSE, "list", InData, values)
RowNext(values) == Doc(FALSE, "comma", InData, values)
RowsDone(values) == Doc(TRUE, "end_list", InData, values)
RowBegin(values) == Doc(FALSE, "list", InRow, values)
RowGoesOn(values) == Doc(TRUE, "value", InRow, values)
Complete(values) == Doc(TRUE, "end_dict", <<>>, values)

\* The document between two rows, and within a row
BetweenRows ==
  /\ at.row <= plan.num /\ at.channel = 0
  /\ \/ at.row = 0 /\ message = DataBegin(message.values)
     \/ at.row # 0 /\ at.row < plan.num /\ message = RowNext(message.values)
     \/ at.row # 0 /\ at.row = plan.num /\ message = RowsDone(message.values)
WithinRow ==
  /\ at.row < plan.num /\ at.channel <= request.channels
  /\ \/ at.channel = 0 /\ message = RowBegin(message.values)
     \/ at.channel # 0 /\ message = RowGoesOn(message.values)

\* The inductive invariant of the message
DocInv ==
  /\ at \in [row : Nat, channel : Nat]
  /\ dpc \in {"idle", "op", "send", "ERROR"} => message = NoMessage
  /\ dpc = "rows" => BetweenRows /\ Copied
  /\ dpc = "row" => WithinRow /\ Copied
  /\ dpc = "DONE" => SampledIsSent /\ (message = NoMessage \/ message = Complete(message.values))

\* The tokens after which a value comes first, and the kinds of brackets
Starts == {"key", "list"}
Kinds == {"dict", "list"}

\* A sequence and one with one more element at its end
LEMMA OneMore ==
  ASSUME NEW S, NEW s \in Seq(S), NEW t \in Seq(S), NEW x \in S,
         Len(t) = Len(s) + 1, t[Len(t)] = x, \A i \in 1..Len(s) : t[i] = s[i]
  PROVE  Append(s, x) = t /\ SubSeq(t, 1, Len(t) - 1) = s
<1> DEFINE u == Append(s, x)
           w == SubSeq(t, 1, Len(t) - 1)
<1>1. Len(s) \in Nat /\ Len(t) - 1 = Len(s)
  OBVIOUS
<1>2. u \in Seq(S) /\ Len(u) = Len(s) + 1 /\ u[Len(s) + 1] = x /\ \A i \in 1..Len(s) : u[i] = s[i]
  OBVIOUS
<1>3. w \in Seq(S) /\ Len(w) = Len(s) /\ \A i \in 1..Len(s) : w[i] = t[i]
  BY <1>1
<1> HIDE DEF u, w
<1>4. \A i \in 1..Len(u) : u[i] = t[i]
  BY <1>1, <1>2
<1>5. u = t
  BY <1>2, <1>4, SeqEqual
<1>6. w = s
  BY <1>3, SeqEqual
<1> QED BY <1>5, <1>6 DEF u, w

\* Brackets are opened and closed one within the other.
LEMMA Brackets ==
  /\ Innermost(InEnvelope) = "dict" /\ Innermost(InMessage) = "dict"
  /\ Innermost(InData) = "list" /\ Innermost(InRow) = "list"
  /\ OpenAfter(<<>>, "dict") = InEnvelope /\ OpenAfter(InEnvelope, "dict") = InMessage
  /\ OpenAfter(InMessage, "list") = InData /\ OpenAfter(InData, "list") = InRow
  /\ OpenAfter(InRow, "end_list") = InData /\ OpenAfter(InData, "end_list") = InMessage
  /\ OpenAfter(InMessage, "end_dict") = InEnvelope /\ OpenAfter(InEnvelope, "end_dict") = <<>>
<1>1. Innermost(InEnvelope) = "dict" /\ Innermost(InMessage) = "dict"
  BY DEF Innermost, InEnvelope, InMessage
<1>2. Innermost(InData) = "list" /\ Innermost(InRow) = "list"
  BY DEF Innermost, InData, InRow
<1> DEFINE S == {"dict", "list"}
<1>3. /\ \A o : OpenAfter(o, "dict") = Append(o, "dict") /\ OpenAfter(o, "list") = Append(o, "list")
      /\ \A o : o # <<>> => OpenAfter(o, "end_list") = SubSeq(o, 1, Len(o) - 1) /\ OpenAfter(o, "end_dict") = SubSeq(o, 1, Len(o) - 1)
  BY DEF OpenAfter
<1>4. OpenAfter(<<>>, "dict") = InEnvelope /\ OpenAfter(InEnvelope, "end_dict") = <<>>
  <2>1. <<>> \in Seq(S) /\ InEnvelope \in Seq(S) /\ Len(InEnvelope) = Len(<<>>) + 1 /\ "dict" \in S
    BY DEF InEnvelope
  <2>2. InEnvelope[Len(InEnvelope)] = "dict" /\ (\A i \in 1..Len(<<>>) : InEnvelope[i] = <<>>[i]) /\ InEnvelope # <<>>
    BY DEF InEnvelope
  <2>3. Append(<<>>, "dict") = InEnvelope /\ SubSeq(InEnvelope, 1, Len(InEnvelope) - 1) = <<>>
    <3> HIDE DEF S
    <3> QED BY <2>1, <2>2, OneMore
  <2> QED BY <1>3, <2>2, <2>3
<1>5. OpenAfter(InEnvelope, "dict") = InMessage /\ OpenAfter(InMessage, "end_dict") = InEnvelope
  <2>1. InEnvelope \in Seq(S) /\ InMessage \in Seq(S) /\ Len(InMessage) = Len(InEnvelope) + 1 /\ "dict" \in S
    BY DEF InEnvelope, InMessage
  <2>2. InMessage[Len(InMessage)] = "dict" /\ (\A i \in 1..Len(InEnvelope) : InMessage[i] = InEnvelope[i]) /\ InMessage # <<>>
    BY DEF InEnvelope, InMessage
  <2>3. Append(InEnvelope, "dict") = InMessage /\ SubSeq(InMessage, 1, Len(InMessage) - 1) = InEnvelope
    <3> HIDE DEF S
    <3> QED BY <2>1, <2>2, OneMore
  <2> QED BY <1>3, <2>2, <2>3
<1>6. OpenAfter(InMessage, "list") = InData /\ OpenAfter(InData, "end_list") = InMessage
  <2>1. InMessage \in Seq(S) /\ InData \in Seq(S) /\ Len(InData) = Len(InMessage) + 1 /\ "list" \in S
    BY DEF InMessage, InData
  <2>2. InData[Len(InData)] = "list" /\ (\A i \in 1..Len(InMessage) : InData[i] = InMessage[i]) /\ InData # <<>>
    BY DEF InMessage, InData
  <2>3. Append(InMessage, "list") = InData /\ SubSeq(InData, 1, Len(InData) - 1) = InMessage
    <3> HIDE DEF S
    <3> QED BY <2>1, <2>2, OneMore
  <2> QED BY <1>3, <2>2, <2>3
<1>7. OpenAfter(InData, "list") = InRow /\ OpenAfter(InRow, "end_list") = InData
  <2>1. InData \in Seq(S) /\ InRow \in Seq(S) /\ Len(InRow) = Len(InData) + 1 /\ "list" \in S
    BY DEF InData, InRow
  <2>2. InRow[Len(InRow)] = "list" /\ (\A i \in 1..Len(InData) : InRow[i] = InData[i]) /\ InRow # <<>>
    BY DEF InData, InRow
  <2>3. Append(InData, "list") = InRow /\ SubSeq(InRow, 1, Len(InRow) - 1) = InData
    <3> HIDE DEF S
    <3> QED BY <2>1, <2>2, OneMore
  <2> QED BY <1>3, <2>2, <2>3
<1> QED BY <1>1, <1>2, <1>4, <1>5, <1>6, <1>7

\* Keys, commas and values leave the brackets as they are.
LEMMA SameBrackets ==
  ASSUME NEW o
  PROVE  OpenAfter(o, "key") = o /\ OpenAfter(o, "comma") = o /\ OpenAfter(o, "value") = o
  BY DEF OpenAfter

\* Which tokens have a place where
LEMMA Places ==
  ASSUME NEW c, NEW l, NEW o, NEW v
  PROVE  /\ Innermost(o) = "dict" /\ l \in {"dict", "comma"} => HasPlace(Doc(c, l, o, v), "key")
         /\ Innermost(o) \in {"dict", "list"} /\ l \in Ends => HasPlace(Doc(c, l, o, v), "comma")
         /\ Innermost(o) = "list" /\ l \in Ends \cup {"list"} => HasPlace(Doc(c, l, o, v), "end_list")
         /\ Innermost(o) = "dict" /\ l \in Ends => HasPlace(Doc(c, l, o, v), "end_dict")
         /\ l \in {"none", "key", "list"} \/ (l = "comma" /\ Innermost(o) = "list") =>
              /\ HasPlace(Doc(c, l, o, v), "value")
              /\ HasPlace(Doc(c, l, o, v), "list")
              /\ HasPlace(Doc(c, l, o, v), "dict")
<1>1. Doc(c, l, o, v).open = o /\ Doc(c, l, o, v).last = l
  BY DEF Doc
<1> QED BY <1>1 DEF HasPlace, Ends

\* The calls of StreamingJson, where they have their places
LEMMA NoComma ==
  ASSUME NEW l, NEW o, NEW v
  PROVE  check_comma(Doc(FALSE, l, o, v)) = Doc(FALSE, l, o, v)
  BY DEF check_comma, Doc

LEMMA CommaAfterEnd ==
  ASSUME NEW l, NEW o, NEW v, Innermost(o) \in Kinds, l \in Ends
  PROVE  check_comma(Doc(TRUE, l, o, v)) = Doc(FALSE, "comma", o, v)
<1>1. check_comma(Doc(TRUE, l, o, v)) = Out(Doc(TRUE, l, o, v), "comma", FALSE)
  BY DEF check_comma, Doc
<1>2. HasPlace(Doc(TRUE, l, o, v), "comma")
  BY Places DEF Kinds
<1>3. Out(Doc(TRUE, l, o, v), "comma", FALSE) = Doc(FALSE, "comma", OpenAfter(o, "comma"), v)
  BY <1>2 DEF Out, Doc
<1>4. OpenAfter(o, "comma") = o
  BY SameBrackets
<1> QED BY <1>1, <1>3, <1>4, Zenon

LEMMA KeyAfterEnd ==
  ASSUME NEW l, NEW o, NEW v, Innermost(o) = "dict", l \in Ends
  PROVE  key(Doc(TRUE, l, o, v)) = Doc(FALSE, "key", o, v)
<1>1. key(Doc(TRUE, l, o, v)) = Out(Doc(FALSE, "comma", o, v), "key", FALSE)
  <2>1. check_comma(Doc(TRUE, l, o, v)) = Doc(FALSE, "comma", o, v)
    <3>1. Innermost(o) \in Kinds
      BY DEF Kinds
    <3> QED BY <3>1, CommaAfterEnd
  <2> QED BY <2>1, Zenon DEF key
<1>2. HasPlace(Doc(FALSE, "comma", o, v), "key")
  BY Places
<1>3. Out(Doc(FALSE, "comma", o, v), "key", FALSE) = Doc(FALSE, "key", OpenAfter(o, "key"), v)
  BY <1>2 DEF Out, Doc
<1>4. OpenAfter(o, "key") = o
  BY SameBrackets
<1> QED BY <1>1, <1>3, <1>4, Zenon

LEMMA KeyFirst ==
  ASSUME NEW o, NEW v, Innermost(o) = "dict"
  PROVE  key(Doc(FALSE, "dict", o, v)) = Doc(FALSE, "key", o, v)
<1>1. key(Doc(FALSE, "dict", o, v)) = Out(Doc(FALSE, "dict", o, v), "key", FALSE)
  BY DEF key, check_comma, Doc
<1>2. HasPlace(Doc(FALSE, "dict", o, v), "key")
  BY Places
<1>3. Out(Doc(FALSE, "dict", o, v), "key", FALSE) = Doc(FALSE, "key", OpenAfter(o, "key"), v)
  BY <1>2 DEF Out, Doc
<1>4. OpenAfter(o, "key") = o
  BY SameBrackets
<1> QED BY <1>1, <1>3, <1>4, Zenon

LEMMA ValFirst ==
  ASSUME NEW l, NEW o, NEW v, l \in Starts
  PROVE  val(Doc(FALSE, l, o, v)) = Doc(TRUE, "value", o, v)
<1>1. val(Doc(FALSE, l, o, v)) = Out(Doc(FALSE, l, o, v), "value", TRUE)
  BY NoComma DEF val
<1>2. HasPlace(Doc(FALSE, l, o, v), "value")
  BY Places DEF Starts
<1>3. Out(Doc(FALSE, l, o, v), "value", TRUE) = Doc(TRUE, "value", OpenAfter(o, "value"), v)
  BY <1>2 DEF Out, Doc
<1>4. OpenAfter(o, "value") = o
  BY SameBrackets
<1> QED BY <1>1, <1>3, <1>4, Zenon

LEMMA ValNext ==
  ASSUME NEW l, NEW o, NEW v, Innermost(o) = "list", l \in Ends
  PROVE  val(Doc(TRUE, l, o, v)) = Doc(TRUE, "value", o, v)
<1>1. val(Doc(TRUE, l, o, v)) = Out(Doc(FALSE, "comma", o, v), "value", TRUE)
  <2>1. check_comma(Doc(TRUE, l, o, v)) = Doc(FALSE, "comma", o, v)
    <3>1. Innermost(o) \in Kinds
      BY DEF Kinds
    <3> QED BY <3>1, CommaAfterEnd
  <2> QED BY <2>1, Zenon DEF val
<1>2. HasPlace(Doc(FALSE, "comma", o, v), "value")
  BY Places
<1>3. Out(Doc(FALSE, "comma", o, v), "value", TRUE) = Doc(TRUE, "value", OpenAfter(o, "value"), v)
  BY <1>2 DEF Out, Doc
<1>4. OpenAfter(o, "value") = o
  BY SameBrackets
<1> QED BY <1>1, <1>3, <1>4, Zenon

\* Brackets, where they have their places
LEMMA BracketCalls ==
  ASSUME NEW c, NEW l, NEW v
  PROVE  /\ begin_dict(Doc(FALSE, "none", <<>>, v)) = Doc(FALSE, "dict", InEnvelope, v)
         /\ begin_dict(Doc(FALSE, "key", InEnvelope, v)) = Doc(FALSE, "dict", InMessage, v)
         /\ begin_list(Doc(FALSE, "key", InMessage, v)) = Doc(FALSE, "list", InData, v)
         /\ l \in {"list", "comma"} => begin_list(Doc(FALSE, l, InData, v)) = Doc(FALSE, "list", InRow, v)
         /\ l \in Ends \cup {"list"} => end_list(Doc(c, l, InRow, v)) = Doc(TRUE, "end_list", InData, v)
         /\ l \in Ends \cup {"list"} => end_list(Doc(c, l, InData, v)) = Doc(TRUE, "end_list", InMessage, v)
         /\ end_dict(Doc(TRUE, "end_list", InMessage, v)) = Doc(TRUE, "end_dict", InEnvelope, v)
         /\ end_dict(Doc(TRUE, "end_dict", InEnvelope, v)) = Doc(TRUE, "end_dict", <<>>, v)
<1>1. begin_dict(Doc(FALSE, "none", <<>>, v)) = Doc(FALSE, "dict", InEnvelope, v)
  <2>1. HasPlace(Doc(FALSE, "none", <<>>, v), "dict")
    BY Brackets, Places DEF Ends
  <2>2. Out(Doc(FALSE, "none", <<>>, v), "dict", FALSE) = Doc(FALSE, "dict", OpenAfter(<<>>, "dict"), v)
    BY <2>1 DEF Out, Doc
  <2>3. OpenAfter(<<>>, "dict") = InEnvelope
    BY Brackets
  <2> QED BY <2>2, <2>3, Zenon DEF begin_dict
<1>2. begin_dict(Doc(FALSE, "key", InEnvelope, v)) = Doc(FALSE, "dict", InMessage, v)
  <2>1. HasPlace(Doc(FALSE, "key", InEnvelope, v), "dict")
    BY Brackets, Places DEF Ends
  <2>2. Out(Doc(FALSE, "key", InEnvelope, v), "dict", FALSE) = Doc(FALSE, "dict", OpenAfter(InEnvelope, "dict"), v)
    BY <2>1 DEF Out, Doc
  <2>3. OpenAfter(InEnvelope, "dict") = InMessage
    BY Brackets
  <2> QED BY <2>2, <2>3, Zenon DEF begin_dict
<1>3. begin_list(Doc(FALSE, "key", InMessage, v)) = Doc(FALSE, "list", InData, v)
  <2>1. HasPlace(Doc(FALSE, "key", InMessage, v), "list")
    BY Brackets, Places DEF Ends
  <2>2. Out(Doc(FALSE, "key", InMessage, v), "list", FALSE) = Doc(FALSE, "list", OpenAfter(InMessage, "list"), v)
    BY <2>1 DEF Out, Doc
  <2>3. OpenAfter(InMessage, "list") = InData
    BY Brackets
  <2> QED BY <2>2, <2>3, Zenon DEF begin_list
<1>4. ASSUME l \in {"list", "comma"} PROVE begin_list(Doc(FALSE, l, InData, v)) = Doc(FALSE, "list", InRow, v)
  <2>1. HasPlace(Doc(FALSE, l, InData, v), "list")
    BY <1>4, Brackets, Places DEF Ends
  <2>2. Out(Doc(FALSE, l, InData, v), "list", FALSE) = Doc(FALSE, "list", OpenAfter(InData, "list"), v)
    BY <2>1 DEF Out, Doc
  <2>3. OpenAfter(InData, "list") = InRow
    BY Brackets
  <2> QED BY <2>2, <2>3, Zenon DEF begin_list
<1>5. ASSUME l \in Ends \cup {"list"} PROVE end_list(Doc(c, l, InRow, v)) = Doc(TRUE, "end_list", InData, v)
  <2>1. HasPlace(Doc(c, l, InRow, v), "end_list")
    BY <1>5, Brackets, Places DEF Ends
  <2>2. Out(Doc(c, l, InRow, v), "end_list", TRUE) = Doc(TRUE, "end_list", OpenAfter(InRow, "end_list"), v)
    BY <2>1 DEF Out, Doc
  <2>3. OpenAfter(InRow, "end_list") = InData
    BY Brackets
  <2> QED BY <2>2, <2>3, Zenon DEF end_list
<1>6. ASSUME l \in Ends \cup {"list"} PROVE end_list(Doc(c, l, InData, v)) = Doc(TRUE, "end_list", InMessage, v)
  <2>1. HasPlace(Doc(c, l, InData, v), "end_list")
    BY <1>6, Brackets, Places DEF Ends
  <2>2. Out(Doc(c, l, InData, v), "end_list", TRUE) = Doc(TRUE, "end_list", OpenAfter(InData, "end_list"), v)
    BY <2>1 DEF Out, Doc
  <2>3. OpenAfter(InData, "end_list") = InMessage
    BY Brackets
  <2> QED BY <2>2, <2>3, Zenon DEF end_list
<1>7. end_dict(Doc(TRUE, "end_list", InMessage, v)) = Doc(TRUE, "end_dict", InEnvelope, v)
  <2>1. HasPlace(Doc(TRUE, "end_list", InMessage, v), "end_dict")
    BY Brackets, Places DEF Ends
  <2>2. Out(Doc(TRUE, "end_list", InMessage, v), "end_dict", TRUE) = Doc(TRUE, "end_dict", OpenAfter(InMessage, "end_dict"), v)
    BY <2>1 DEF Out, Doc
  <2>3. OpenAfter(InMessage, "end_dict") = InEnvelope
    BY Brackets
  <2> QED BY <2>2, <2>3, Zenon DEF end_dict
<1>8. end_dict(Doc(TRUE, "end_dict", InEnvelope, v)) = Doc(TRUE, "end_dict", <<>>, v)
  <2>1. HasPlace(Doc(TRUE, "end_dict", InEnvelope, v), "end_dict")
    BY Brackets, Places DEF Ends
  <2>2. Out(Doc(TRUE, "end_dict", InEnvelope, v), "end_dict", TRUE) = Doc(TRUE, "end_dict", OpenAfter(InEnvelope, "end_dict"), v)
    BY <2>1 DEF Out, Doc
  <2>3. OpenAfter(InEnvelope, "end_dict") = <<>>
    BY Brackets
  <2> QED BY <2>2, <2>3, Zenon DEF end_dict
<1> QED BY <1>1, <1>2, <1>3, <1>4, <1>5, <1>6, <1>7, <1>8

\* The calls of the rows
LEMMA RowCalls ==
  ASSUME NEW v
  PROVE  /\ begin_list(DataBegin(v)) = RowBegin(v) /\ begin_list(RowNext(v)) = RowBegin(v)
         /\ val(RowBegin(v)) = RowGoesOn(v) /\ val(RowGoesOn(v)) = RowGoesOn(v)
         /\ end_list(RowBegin(v)) = RowsDone(v) /\ end_list(RowGoesOn(v)) = RowsDone(v)
         /\ check_comma(RowsDone(v)) = RowNext(v)
         /\ end_dict(end_dict(end_list(DataBegin(v)))) = Complete(v)
         /\ end_dict(end_dict(end_list(RowsDone(v)))) = Complete(v)
         /\ DataBegin(v).values = v /\ RowNext(v).values = v /\ RowsDone(v).values = v
         /\ RowBegin(v).values = v /\ RowGoesOn(v).values = v /\ Complete(v).values = v
<1>1. /\ "list" \in {"list", "comma"} /\ "comma" \in {"list", "comma"} /\ "list" \in Starts
      /\ "list" \in Ends \cup {"list"} /\ "value" \in Ends \cup {"list"} /\ "end_list" \in Ends \cup {"list"}
      /\ "value" \in Ends /\ "end_list" \in Ends
  BY DEF Starts, Ends
<1>2. Innermost(InRow) = "list" /\ Innermost(InData) \in Kinds
  BY Brackets DEF Kinds
<1>3. begin_list(DataBegin(v)) = RowBegin(v) /\ begin_list(RowNext(v)) = RowBegin(v)
  BY <1>1, BracketCalls, Zenon DEF DataBegin, RowBegin, RowNext
<1>4. val(RowBegin(v)) = RowGoesOn(v)
  BY <1>1, ValFirst DEF RowBegin, RowGoesOn
<1>5. val(RowGoesOn(v)) = RowGoesOn(v)
  BY <1>1, <1>2, ValNext DEF RowGoesOn
<1>6. end_list(RowBegin(v)) = RowsDone(v) /\ end_list(RowGoesOn(v)) = RowsDone(v)
  BY <1>1, BracketCalls, ZenonT(40) DEF RowBegin, RowGoesOn, RowsDone
<1>7. check_comma(RowsDone(v)) = RowNext(v)
  BY <1>1, <1>2, CommaAfterEnd DEF RowsDone, RowNext
<1>8. /\ end_list(DataBegin(v)) = Doc(TRUE, "end_list", InMessage, v)
      /\ end_list(RowsDone(v)) = Doc(TRUE, "end_list", InMessage, v)
  BY <1>1, BracketCalls, ZenonT(40) DEF DataBegin, RowsDone
<1>9. end_dict(end_dict(Doc(TRUE, "end_list", InMessage, v))) = Complete(v)
  BY BracketCalls, Zenon DEF Complete
<1>10. /\ DataBegin(v).values = v /\ RowNext(v).values = v /\ RowsDone(v).values = v
       /\ RowBegin(v).values = v /\ RowGoesOn(v).values = v /\ Complete(v).values = v
  BY DEF Complete, DataBegin, RowNext, RowsDone, RowBegin, RowGoesOn, Doc
<1> QED BY <1>3, <1>4, <1>5, <1>6, <1>7, <1>8, <1>9, <1>10, Zenon

\* Up to the data
LEMMA HeadStep ==
  ASSUME SendHead
  PROVE  message' = DataBegin(<<>>)
<1>1. /\ "value" \in Ends /\ "end_list" \in Ends /\ "value" \in Ends \cup {"list"}
       /\ "key" \in Starts /\ "list" \in Starts
  BY DEF Ends, Starts
<1>2. Innermost(InEnvelope) = "dict" /\ Innermost(InMessage) = "dict" /\ Innermost(InData) = "list"
  BY Brackets
<1>3. begin_dict(NoMessage) = Doc(FALSE, "dict", InEnvelope, <<>>)
  <2>1. NoMessage = Doc(FALSE, "none", <<>>, <<>>)
    BY DEF NoMessage, Doc
  <2> QED BY <2>1, BracketCalls, ZenonT(40)
<1>4. key(Doc(FALSE, "dict", InEnvelope, <<>>)) = Doc(FALSE, "key", InEnvelope, <<>>)
  BY <1>1, <1>2, KeyFirst
<1>5. val(Doc(FALSE, "key", InEnvelope, <<>>)) = Doc(TRUE, "value", InEnvelope, <<>>)
  BY <1>1, <1>2, ValFirst
<1>6. key(Doc(TRUE, "value", InEnvelope, <<>>)) = Doc(FALSE, "key", InEnvelope, <<>>)
  BY <1>1, <1>2, KeyAfterEnd
<1>7. begin_dict(Doc(FALSE, "key", InEnvelope, <<>>)) = Doc(FALSE, "dict", InMessage, <<>>)
  BY <1>1, BracketCalls, ZenonT(40)
<1>8. key(Doc(FALSE, "dict", InMessage, <<>>)) = Doc(FALSE, "key", InMessage, <<>>)
  BY <1>1, <1>2, KeyFirst
<1>9. val(Doc(FALSE, "key", InMessage, <<>>)) = Doc(TRUE, "value", InMessage, <<>>)
  BY <1>1, <1>2, ValFirst
<1>10. key(Doc(TRUE, "value", InMessage, <<>>)) = Doc(FALSE, "key", InMessage, <<>>)
  BY <1>1, <1>2, KeyAfterEnd
<1>11. begin_list(Doc(FALSE, "key", InMessage, <<>>)) = Doc(FALSE, "list", InData, <<>>)
  BY <1>1, BracketCalls, ZenonT(40)
<1>12. val(Doc(FALSE, "list", InData, <<>>)) = Doc(TRUE, "value", InData, <<>>)
  BY <1>1, <1>2, ValFirst
<1>13. val(Doc(TRUE, "value", InData, <<>>)) = Doc(TRUE, "value", InData, <<>>)
  BY <1>1, <1>2, ValNext
<1>14. end_list(Doc(TRUE, "value", InData, <<>>)) = Doc(TRUE, "end_list", InMessage, <<>>)
  BY <1>1, BracketCalls, ZenonT(40)
<1>15. key(Doc(TRUE, "end_list", InMessage, <<>>)) = Doc(FALSE, "key", InMessage, <<>>)
  BY <1>1, <1>2, KeyAfterEnd
<1> DEFINE envelope == begin_dict(key(kv(begin_dict(NoMessage))))
           entity == end_list(val(val(begin_list(key(kv(envelope))))))
<1>16. envelope = Doc(FALSE, "dict", InMessage, <<>>)
  BY <1>3, <1>4, <1>5, <1>6, <1>7, Zenon DEF kv
<1> HIDE DEF envelope
<1>17. entity = Doc(TRUE, "end_list", InMessage, <<>>)
  BY <1>7, <1>8, <1>9, <1>10, <1>11, <1>12, <1>13, <1>14, <1>15, <1>16, Zenon DEF kv
<1> HIDE DEF entity
<1>18. message' = begin_list(key(entity))
  BY Zenon DEF SendHead, envelope, entity
<1> QED BY <1>11, <1>12, <1>13, <1>14, <1>15, <1>16, <1>17, <1>18, Zenon DEF DataBegin

\* The first rounds of handle(): no reading is written yet.
LEMMA SendHeadStep ==
  ASSUME DataInv, DocInv, SendHead
  PROVE  DocInv'
<1>1. dpc' = "rows" /\ at' = FirstPlace /\ plan' = plan /\ request' = request
  BY DEF SendHead
<1>2. message' = DataBegin(<<>>) /\ message'.values = <<>>
  BY HeadStep, RowCalls
<1>3. at' \in [row : Nat, channel : Nat] /\ at'.row = 0 /\ at'.channel = 0
  BY <1>1 DEF FirstPlace
<1>4. plan.num \in Nat /\ request.channels \in Nat
  BY DEF DataInv, DataTypes, Plans, RunRequests
<1>5. BetweenRows'
  <2>1. message' = DataBegin(message'.values)
    BY <1>2, Zenon
  <2> QED BY <1>1, <1>3, <1>4, <2>1 DEF BetweenRows
<1>6. Copied'
  <2>1. <<>> \in Seq(SUBSET Readings) /\ Len(<<>>) = 0
    OBVIOUS
  <2>2. at'.row * request'.channels + at'.channel = 0
    BY <1>1, <1>3, <1>4
  <2>3. message'.values \in Seq(SUBSET Readings) /\ Len(message'.values) = 0
    BY <1>2, <2>1, Zenon
  <2> QED BY <2>2, <2>3 DEF Copied
<1> QED BY <1>1, <1>3, <1>5, <1>6 DEF DocInv

LEMMA BeginRowStep ==
  ASSUME DataInv, DocInv, BeginRow
  PROVE  DocInv'
<1>1. /\ dpc = "rows" /\ at.row < plan.num /\ dpc' = "row" /\ message' = begin_list(message)
      /\ at' = at /\ plan' = plan /\ request' = request /\ buffer' = buffer
  BY DEF BeginRow
<1>2. BetweenRows /\ Copied /\ at \in [row : Nat, channel : Nat]
  BY <1>1 DEF DocInv
<1>3. plan.num \in Nat /\ request.channels \in Nat
  BY DEF DataInv, DataTypes, Plans, RunRequests
<1>4. message' = RowBegin(message.values)
  <2>1. \/ message = DataBegin(message.values)
        \/ message = RowNext(message.values)
    BY <1>1, <1>2, <1>3 DEF BetweenRows
  <2>2. /\ begin_list(DataBegin(message.values)) = RowBegin(message.values)
        /\ begin_list(RowNext(message.values)) = RowBegin(message.values)
    BY RowCalls
  <2> QED BY <1>1, <2>1, <2>2, Zenon
<1>5. message'.values = message.values
  BY <1>4, RowCalls
<1>6. WithinRow'
  <2>1. message' = RowBegin(message'.values)
    BY <1>4, <1>5, Zenon
  <2> QED BY <1>1, <1>2, <1>3, <2>1 DEF BetweenRows, WithinRow
<1>7. Copied'
  BY <1>1, <1>2, <1>5 DEF Copied
<1> QED BY <1>1, <1>2, <1>6, <1>7 DEF DocInv

LEMMA SendReadingStep ==
  ASSUME DataInv, DocInv, SendReading
  PROVE  DocInv'
<1> DEFINE v == message.values
           x == buffer[Entry(at.row, at.channel)]
           ch == request.channels
<1>1. /\ dpc = "row" /\ at.channel < ch /\ dpc' = "row" /\ message' = print_reading(message, x)
      /\ at' = [at EXCEPT !.channel = @ + 1] /\ plan' = plan /\ request' = request /\ buffer' = buffer
  BY DEF SendReading
<1>2. WithinRow /\ Copied /\ at \in [row : Nat, channel : Nat]
  BY <1>1 DEF DocInv
<1>3. /\ plan.num \in Nat /\ ch \in Nat /\ buffer \in [1..allocated -> SUBSET Readings] /\ allocated \in Nat
      /\ allocated = plan.num * ch + NUM_CHANNELS /\ NUM_CHANNELS \in Nat
  <2>1. dpc \in Sending
    BY <1>1 DEF Sending
  <2> QED BY <2>1, RunDataAssumption DEF DataInv, Sampling, DataTypes, Plans, RunRequests
<1>4. /\ at' \in [row : Nat, channel : Nat] /\ at'.row = at.row /\ at'.channel = at.channel + 1
      /\ at.row \in Nat /\ at.channel \in Nat /\ at.row < plan.num
  BY <1>1, <1>2 DEF WithinRow
<1>5. Len(v) \in Nat /\ Len(v) = at.row * ch + at.channel /\ Entry(at.row, at.channel) = Len(v) + 1
  BY <1>2, <1>3, <1>4 DEF Copied, Entry
<1>6. Len(v) + 1 \in 1..allocated
  <2>1. at.row * ch \in Nat /\ plan.num * ch \in Nat /\ at.row * ch + ch <= plan.num * ch
    <3>1. at.row + 1 \in Nat /\ at.row + 1 <= plan.num
      BY <1>3, <1>4
    <3>2. (at.row + 1) * ch <= plan.num * ch /\ plan.num * ch \in Nat
      BY <1>3, <3>1, Products
    <3>3. at.row * ch \in Nat /\ (at.row + 1) * ch = at.row * ch + ch
      BY <1>3, <1>4, Products
    <3> QED BY <3>2, <3>3
  <2> DEFINE before == at.row * ch
             all == plan.num * ch
  <2>2. /\ before \in Nat /\ all \in Nat /\ before + ch <= all /\ Len(v) = before + at.channel
        /\ allocated = all + NUM_CHANNELS /\ NUM_CHANNELS \in Nat
        /\ at.channel \in Nat /\ ch \in Nat /\ at.channel < ch /\ Len(v) \in Nat
    BY <1>1, <1>3, <1>4, <1>5, <2>1
  <2> HIDE DEF before, all, v, ch
  <2> QED BY <2>2
<1>7. x \in SUBSET Readings /\ x = buffer[Len(v) + 1] /\ v \in Seq(SUBSET Readings)
  BY <1>2, <1>3, <1>5, <1>6 DEF Copied
<1>8. message' = RowGoesOn(Append(v, x))
  <2>1. message = RowBegin(v) \/ message = RowGoesOn(v)
    BY <1>2 DEF WithinRow
  <2>2. val(message) = RowGoesOn(v)
    BY <2>1, RowCalls
  <2>3. [RowGoesOn(v) EXCEPT !.values = Append(@, x)] = RowGoesOn(Append(v, x))
    <3> DEFINE y == Append(v, x)
    <3> HIDE DEF v, x
    <3>1. RowGoesOn(v).values = v
      BY RowCalls
    <3>2. [RowGoesOn(v) EXCEPT !.values = Append(@, x)] = [RowGoesOn(v) EXCEPT !.values = y]
      BY <3>1
    <3> HIDE DEF y
    <3>3. [RowGoesOn(v) EXCEPT !.values = y] = RowGoesOn(y)
      <4> DEFINE yes == TRUE
      <4>1. /\ RowGoesOn(v) = [comma |-> yes, last |-> "value", open |-> InRow, ok |-> yes, values |-> v]
            /\ RowGoesOn(y) = [comma |-> yes, last |-> "value", open |-> InRow, ok |-> yes, values |-> y]
        BY DEF RowGoesOn, Doc
      <4> HIDE DEF yes
      <4> QED BY <4>1
    <3> QED BY <3>2, <3>3 DEF y
  <2>4. message' = [val(message) EXCEPT !.values = Append(@, x)]
    BY <1>1 DEF print_reading
  <2> QED BY <2>2, <2>3, <2>4
<1>9. message'.values = Append(v, x)
  BY <1>8, RowCalls
<1>10. WithinRow'
  <2>1. message' = RowGoesOn(message'.values)
    BY <1>8, <1>9
  <2> QED BY <1>1, <1>3, <1>4, <2>1 DEF WithinRow
<1>11. Copied'
  <2>1. \A i \in 1..Len(v) : v[i] = buffer[i]
    BY <1>2 DEF Copied
  <2> HIDE DEF v, x
  <2>2. /\ Append(v, x) \in Seq(SUBSET Readings) /\ Len(Append(v, x)) = Len(v) + 1
        /\ Append(v, x)[Len(v) + 1] = x /\ \A i \in 1..Len(v) : Append(v, x)[i] = v[i]
    BY <1>7
  <2> DEFINE w == Append(v, x)
  <2> HIDE DEF w
  <2>3. /\ w \in Seq(SUBSET Readings) /\ Len(w) = Len(v) + 1 /\ w[Len(v) + 1] = x /\ \A i \in 1..Len(v) : w[i] = v[i]
    BY <2>2 DEF w
  <2>4. \A i \in 1..Len(w) : w[i] = buffer[i]
    BY <1>5, <1>7, <2>1, <2>3
  <2>5. Len(w) = at'.row * request'.channels + at'.channel
    <3>1. request'.channels = ch
      BY <1>1
    <3>2. at.row * ch \in Nat
      BY <1>3, <1>4
    <3> HIDE DEF ch
    <3> QED BY <1>4, <1>5, <2>3, <3>1, <3>2
  <2>6. message'.values = w /\ buffer' = buffer
    BY <1>1, <1>9 DEF w
  <2> QED BY <2>3, <2>4, <2>5, <2>6 DEF Copied
<1> QED BY <1>1, <1>4, <1>10, <1>11 DEF DocInv

LEMMA EndRowStep ==
  ASSUME DataInv, DocInv, EndRow
  PROVE  DocInv'
<1> DEFINE v == message.values
           ch == request.channels
<1>1. /\ dpc = "row" /\ at.channel = ch /\ dpc' = "rows" /\ message' = Separated(end_list(message), at.row)
      /\ at' = [row |-> at.row + 1, channel |-> 0] /\ plan' = plan /\ request' = request /\ buffer' = buffer
  BY DEF EndRow
<1>2. WithinRow /\ Copied /\ at \in [row : Nat, channel : Nat]
  BY <1>1 DEF DocInv
<1>3. plan.num \in Nat /\ ch \in Nat
  BY DEF DataInv, DataTypes, Plans, RunRequests
<1>4. /\ at' \in [row : Nat, channel : Nat] /\ at'.row = at.row + 1 /\ at'.channel = 0
      /\ at.row \in Nat /\ at.channel \in Nat /\ at.row < plan.num
  BY <1>1, <1>2 DEF WithinRow
<1>5. end_list(message) = RowsDone(v)
  <2>1. message = RowBegin(v) \/ message = RowGoesOn(v)
    BY <1>2 DEF WithinRow
  <2> QED BY <2>1, RowCalls
<1>6. message' = IF at.row # plan.num - 1 THEN RowNext(v) ELSE RowsDone(v)
  BY <1>1, <1>5, RowCalls DEF Separated
<1>7. message'.values = v
  BY <1>6, RowCalls
<1>8. BetweenRows'
  <2>1. CASE at.row # plan.num - 1
    <3>1. at.row + 1 < plan.num /\ at.row + 1 # 0
      BY <1>3, <1>4, <2>1
    <3>2. message' = RowNext(message'.values)
      BY <1>6, <1>7, <2>1
    <3> QED BY <1>1, <1>3, <1>4, <3>1, <3>2 DEF BetweenRows
  <2>2. CASE at.row = plan.num - 1
    <3>1. at.row + 1 = plan.num /\ at.row + 1 # 0
      BY <1>3, <1>4, <2>2
    <3>2. message' = RowsDone(message'.values)
      BY <1>6, <1>7, <2>2
    <3> QED BY <1>1, <1>3, <1>4, <3>1, <3>2 DEF BetweenRows
  <2> QED BY <2>1, <2>2
<1>9. Copied'
  <2>1. at'.row * request'.channels + at'.channel = at.row * ch + at.channel
    <3>1. at.row * ch \in Nat /\ (at.row + 1) * ch = at.row * ch + ch
      BY <1>3, <1>4, Products
    <3>2. request'.channels = ch /\ at.channel = ch
      BY <1>1
    <3> HIDE DEF ch
    <3> QED BY <1>3, <1>4, <3>1, <3>2
  <2> QED BY <1>1, <1>2, <1>7, <2>1 DEF Copied
<1> QED BY <1>1, <1>4, <1>8, <1>9 DEF DocInv

LEMMA SendEndStep ==
  ASSUME DataInv, DocInv, SendEnd
  PROVE  DocInv'
<1> DEFINE v == message.values
           ch == request.channels
<1>1. /\ dpc = "rows" /\ at.row = plan.num /\ dpc' = "DONE" /\ message' = end_dict(end_dict(end_list(message)))
      /\ at' = at /\ plan' = plan /\ request' = request
  BY DEF SendEnd
<1>2. BetweenRows /\ Copied /\ at \in [row : Nat, channel : Nat]
  BY <1>1 DEF DocInv
<1>3. /\ plan.num \in Nat /\ ch \in Nat /\ sample = plan.num /\ SamplesAreInPlace
  <2>1. dpc \in Sending
    BY <1>1 DEF Sending
  <2> QED BY <2>1 DEF DataInv, Sampling, DataTypes, Plans, RunRequests
<1>4. message' = Complete(v)
  <2>1. message = DataBegin(v) \/ message = RowsDone(v)
    BY <1>1, <1>2, <1>3 DEF BetweenRows
  <2> QED BY <1>1, <2>1, RowCalls
<1>5. message'.values = v
  BY <1>4, RowCalls
<1>6. Len(v) = plan.num * ch
  BY <1>1, <1>2, <1>3 DEF Copied, BetweenRows
<1>7. ASSUME NEW row \in 0..(plan.num - 1), NEW col \in 0..(ch - 1), col < NUM_CHANNELS
      PROVE  v[Entry(row, col)] = {<<row, col>>}
  <2>1. buffer[Entry(row, col)] = {<<row, col>>}
    BY <1>3, <1>7 DEF SamplesAreInPlace
  <2>2. row \in Nat /\ col \in Nat /\ col + 1 <= ch /\ row + 1 \in Nat /\ row + 1 <= plan.num
    BY <1>3
  <2> DEFINE before == row * ch
             all == plan.num * ch
  <2>3. before \in Nat /\ all \in Nat /\ before + ch <= all
    <3>1. (row + 1) * ch <= plan.num * ch /\ plan.num * ch \in Nat
      BY <1>3, <2>2, Products
    <3>2. row * ch \in Nat /\ (row + 1) * ch = row * ch + ch
      BY <1>3, <2>2, Products
    <3> QED BY <3>1, <3>2
  <2>4. Entry(row, col) = before + col + 1 /\ Len(v) = all
    BY <1>6 DEF Entry
  <2>5. Entry(row, col) \in 1..Len(v)
    <3> HIDE DEF before, all, v, ch
    <3> QED BY <1>3, <2>2, <2>3, <2>4
  <2> QED BY <1>2, <2>1, <2>5 DEF Copied
<1>8. SampledIsSent'
  <2>1. \A row, col : Entry(row, col)' = Entry(row, col)
    BY <1>1 DEF Entry
  <2> HIDE DEF v
  <2> QED BY <1>1, <1>5, <1>6, <1>7, <2>1 DEF SampledIsSent
<1> QED
  <2>1. message' = Complete(message'.values)
    BY <1>4, <1>5
  <2> QED BY <1>1, <1>2, <1>8, <2>1 DEF DocInv

\* The steps before and after a message is written
LEMMA BeginDocStep ==
  ASSUME NEW channels \in ChannelCounts, NEW optime \in OpTimes, NEW time \in SamplingTimes \cup {0},
         Begin(channels, optime, time)
  PROVE  DocInv'
  BY DEF Begin, DocInv, FirstPlace

LEMMA LookUpDocStep ==
  ASSUME DocInv, NEW raw \in Raws, LookUp(raw)
  PROVE  DocInv'
  BY DEF LookUp, DocInv

LEMMA EarlyDocStep ==
  ASSUME DocInv, TakeSample \/ Wait \/ Return
  PROVE  DocInv'
<1>1. at \in [row : Nat, channel : Nat] /\ FirstPlace \in [row : Nat, channel : Nat]
  BY DEF DocInv, FirstPlace
<1>2. ASSUME Return PROVE DocInv'
  <2>1. dpc' = "idle" /\ message' = NoMessage /\ at' = FirstPlace
    BY <1>2 DEF Return
  <2> QED BY <1>1, <2>1 DEF DocInv
<1>3. ASSUME TakeSample PROVE DocInv'
  <2>1. dpc' = "op" /\ dpc = "op" /\ message' = message /\ at' = at
    BY <1>3 DEF TakeSample
  <2> QED BY <1>1, <2>1 DEF DocInv
<1>4. ASSUME Wait PROVE DocInv'
  <2>1. /\ dpc = "op" /\ dpc' \in {"send", "ERROR", "DONE"} /\ message' = message /\ at' = at /\ request' = request
        /\ dpc' = "DONE" => ~(request.channels > 0)
    BY <1>4 DEF Wait
  <2>2. message' = NoMessage
    BY <2>1 DEF DocInv
  <2>3. dpc' = "DONE" => SampledIsSent'
    BY <2>1 DEF SampledIsSent
  <2> QED BY <1>1, <2>1, <2>2, <2>3 DEF DocInv
<1> QED BY <1>2, <1>3, <1>4

\* StreamingRunDataNotificationHandler::handle() sends all samples in their order, and what it
\* puts together by single calls is one JSON document, for every number of rows and channels.
THEOREM DataSent == DSpec => []DataIsSent
  <1>1. DInit => DocInv
    <2> SUFFICES ASSUME DInit PROVE DocInv
      OBVIOUS
    <2>1. message = NoMessage /\ at = FirstPlace /\ dpc = "idle"
      BY DEF DInit
    <2> QED
      BY <2>1 DEF DocInv, FirstPlace
  <1>2. DataInv /\ DocInv /\ [DNext]_dVars => DocInv'
    <2> SUFFICES ASSUME DataInv, DocInv, [DNext]_dVars PROVE DocInv'
      OBVIOUS
    <2>1. CASE DNext
      BY <2>1, BeginDocStep, EarlyDocStep, LookUpDocStep, SendHeadStep, BeginRowStep, SendReadingStep, EndRowStep, SendEndStep
         DEF DNext
    <2>2. CASE UNCHANGED dVars
      <3>1. /\ request' = request /\ plan' = plan /\ buffer' = buffer /\ message' = message /\ at' = at /\ dpc' = dpc
        BY <2>2 DEF dVars
      <3>2. BetweenRows' = BetweenRows /\ WithinRow' = WithinRow /\ Copied' = Copied /\ SampledIsSent' = SampledIsSent
        BY <3>1 DEF BetweenRows, WithinRow, Copied, SampledIsSent, Entry
      <3> QED
        BY <3>1, <3>2 DEF DocInv
    <2> QED
      BY <2>1, <2>2
  <1>3. DataInv /\ DocInv => DataIsSent
    <2> SUFFICES ASSUME DataInv, DocInv PROVE DataIsSent
      OBVIOUS
    <2>1. SampledIsSent
      BY DEF DocInv, SampledIsSent
    <2>2. dpc \in {"idle", "op", "send", "rows", "row", "DONE", "ERROR"}
      BY DEF DataInv, DataTypes, Sending
    <2>3. \/ message = NoMessage \/ message = Complete(message.values)
          \/ dpc # "DONE" /\ \E f \in {DataBegin(message.values), RowNext(message.values), RowsDone(message.values),
                                       RowBegin(message.values), RowGoesOn(message.values)} : message = f
      BY <2>2 DEF DocInv, BetweenRows, WithinRow
    <2>4. NoMessage.ok = TRUE /\ NoMessage.open = <<>>
      BY DEF NoMessage
    <2>5. Complete(message.values).ok = TRUE /\ Complete(message.values).open = <<>>
      BY DEF Complete, Doc
    <2>6. /\ DataBegin(message.values).ok = TRUE /\ RowNext(message.values).ok = TRUE /\ RowsDone(message.values).ok = TRUE
          /\ RowBegin(message.values).ok = TRUE /\ RowGoesOn(message.values).ok = TRUE
      BY DEF DataBegin, RowNext, RowsDone, RowBegin, RowGoesOn, Doc
    <2>7. MessageIsWellFormed
      BY <2>3, <2>4, <2>5, <2>6 DEF MessageIsWellFormed
    <2> QED
      BY <2>1, <2>7 DEF DataIsSent
  <1> QED
    BY <1>1, <1>2, <1>3, DataIsSafe, PTL DEF DSpec

-----------------------------------------------------------------------------
(* Persistent settings: SettingsAreKept *)

\* What a cell of a text, and of the EEPROM, may hold
CellValues == NetChoices \cup BOOLEAN \cup Nat
Keys == {"vendor", "net", "auth", "user", "end"}
Cells == [key : Keys, value : CellValues]
AllCells == Cells \cup {Blank, Garbled}

\* Cells that vendor data take
VendorCells(v) == IF v = "valid" THEN 2 ELSE 1

\* A cell is known by its key and its value.
LEMMA CellParts ==
  ASSUME NEW k, NEW v, NEW l, NEW w, Cell(k, v) = Cell(l, w)
  PROVE  k = l /\ v = w
  <1>1. Cell(k, v).key = k /\ Cell(k, v).value = v /\ Cell(l, w).key = l /\ Cell(l, w).value = w
    BY Zenon DEF Cell
  <1> QED
    BY <1>1

\* The cells of a text.
LEMMA CellType ==
  ASSUME NEW v \in CellValues
  PROVE  /\ Cell("vendor", v) \in Cells /\ Cell("net", v) \in Cells /\ Cell("auth", v) \in Cells
         /\ Cell("user", v) \in Cells /\ Cell("end", v) \in Cells
  BY DEF Cell, Cells, Keys

\* A text of four parts
Joined(S, t, a, b, c, d) ==
  /\ t \in Seq(S) /\ Len(t) = Len(a) + Len(b) + Len(c) + Len(d)
  /\ \A i \in 1..Len(a) : t[i] = a[i]
  /\ \A i \in 1..Len(b) : t[Len(a) + i] = b[i]
  /\ \A i \in 1..Len(c) : t[Len(a) + Len(b) + i] = c[i]
  /\ \A i \in 1..Len(d) : t[Len(a) + Len(b) + Len(c) + i] = d[i]

\* Four texts one after the other.
LEMMA FourParts ==
  ASSUME NEW S, NEW a \in Seq(S), NEW b \in Seq(S), NEW c \in Seq(S), NEW d \in Seq(S)
  PROVE  Joined(S, a \o b \o c \o d, a, b, c, d)
  <1>1. Len(a) \in Nat /\ Len(b) \in Nat /\ Len(c) \in Nat /\ Len(d) \in Nat
    OBVIOUS
  <1> DEFINE x == a \o b
             y == x \o c
             z == y \o d
  <1>2. x \in Seq(S) /\ Len(x) = Len(a) + Len(b)
    BY ConcatProperties
  <1>3. \A i \in 1..(Len(a) + Len(b)) : x[i] = IF i <= Len(a) THEN a[i] ELSE b[i - Len(a)]
    BY ConcatProperties
  <1> HIDE DEF x
  <1>4. y \in Seq(S) /\ Len(y) = Len(x) + Len(c)
    BY <1>2, ConcatProperties
  <1>5. \A i \in 1..(Len(x) + Len(c)) : y[i] = IF i <= Len(x) THEN x[i] ELSE c[i - Len(x)]
    BY <1>2, ConcatProperties
  <1> HIDE DEF y
  <1>6. z \in Seq(S) /\ Len(z) = Len(y) + Len(d)
    BY <1>4, ConcatProperties
  <1>7. \A i \in 1..(Len(y) + Len(d)) : z[i] = IF i <= Len(y) THEN y[i] ELSE d[i - Len(y)]
    BY <1>4, ConcatProperties
  <1> HIDE DEF z
  <1>a. \A m, n \in Nat : \A i \in 1..m : i \in 1..(m + n) /\ i <= m
    OBVIOUS
  <1>b. \A m, n \in Nat : \A i \in 1..n : m + i \in 1..(m + n) /\ ~(m + i <= m) /\ (m + i) - m = i
    OBVIOUS
  <1>c. Len(x) \in Nat /\ Len(y) \in Nat
    BY <1>2, <1>4
  <1>8. \A i \in 1..Len(y) : z[i] = y[i]
    BY <1>1, <1>7, <1>a, <1>c
  <1>9. \A i \in 1..Len(x) : y[i] = x[i]
    BY <1>1, <1>5, <1>a, <1>c
  <1>10. \A i \in 1..Len(x) : z[i] = x[i]
    <2>1. \A i \in 1..Len(x) : i \in 1..Len(y)
      BY <1>1, <1>4, <1>c
    <2> QED
      BY <1>8, <1>9, <2>1, Zenon
  <1>11. \A i \in 1..Len(a) : z[i] = a[i]
    BY <1>1, <1>2, <1>3, <1>10, SMTT(40)
  <1>12. \A i \in 1..Len(b) : z[Len(a) + i] = b[i]
    <2>1. \A i \in 1..Len(b) : x[Len(a) + i] = b[i]
      BY <1>1, <1>3
    <2> QED
      BY <1>1, <1>2, <1>10, <2>1
  <1>13. \A i \in 1..Len(c) : z[Len(a) + Len(b) + i] = c[i]
    <2>1. \A i \in 1..Len(c) : y[Len(x) + i] = c[i]
      BY <1>1, <1>2, <1>5, SMTT(40)
    <2> QED
      BY <1>1, <1>2, <1>4, <1>8, <2>1
  <1>14. \A i \in 1..Len(d) : z[Len(a) + Len(b) + Len(c) + i] = d[i]
    <2>1. \A i \in 1..Len(d) : z[Len(y) + i] = d[i]
      BY <1>1, <1>7, <1>b, <1>c
    <2> QED
      BY <1>1, <1>2, <1>4, <2>1
  <1> QED
    BY <1>1, <1>2, <1>4, <1>6, <1>11, <1>12, <1>13, <1>14 DEF x, y, z, Joined

\* The text of the vendor data.
LEMMA VendorTexts ==
  ASSUME NEW v \in Vendor
  PROVE  /\ VendorText(v) \in Seq(Cells) /\ Len(VendorText(v)) = VendorCells(v) /\ VendorCells(v) \in 1..2
         /\ v = "valid" => VendorText(v)[1] = Cell("vendor", 1) /\ VendorText(v)[2] = Cell("vendor", 2)
         /\ v # "valid" => VendorText(v)[1] = Cell("vendor", 0)
  <1>1. 0 \in CellValues /\ 1 \in CellValues /\ 2 \in CellValues
    BY DEF CellValues
  <1>2. Cell("vendor", 0) \in Cells /\ Cell("vendor", 1) \in Cells /\ Cell("vendor", 2) \in Cells
    BY <1>1, CellType
  <1> QED
    BY <1>2 DEF VendorText, VendorCells

\* The text of settings, cell by cell.
LEMMA TextCells ==
  ASSUME NEW s \in AllSettings
  PROVE  LET v == VendorCells(s.vendor)
         IN  /\ v \in 1..2 /\ s.users \in Nat
             /\ Text(s) \in Seq(Cells) /\ Len(Text(s)) = v + 3 + s.users
             /\ s.vendor = "valid" => Text(s)[1] = Cell("vendor", 1) /\ Text(s)[2] = Cell("vendor", 2)
             /\ s.vendor # "valid" => Text(s)[1] = Cell("vendor", 0)
             /\ Text(s)[v + 1] = Cell("net", s.net) /\ Text(s)[v + 2] = Cell("auth", s.auth)
             /\ \A i \in 1..s.users : Text(s)[v + 2 + i] = Cell("user", i)
             /\ Text(s)[v + 3 + s.users] = Cell("end", 0)
  <1> DEFINE v == VendorCells(s.vendor)
             a == VendorText(s.vendor)
             b == <<Cell("net", s.net), Cell("auth", s.auth)>>
             c == Entries(s.users)
             d == EndOfText
             t == a \o b \o c \o d
  <1>1. s.vendor \in Vendor /\ s.net \in NetChoices /\ s.auth \in BOOLEAN /\ s.users \in Nat
    BY DEF AllSettings
  <1>2. /\ a \in Seq(Cells) /\ Len(a) = v /\ v \in 1..2
        /\ s.vendor = "valid" => a[1] = Cell("vendor", 1) /\ a[2] = Cell("vendor", 2)
        /\ s.vendor # "valid" => a[1] = Cell("vendor", 0)
    BY <1>1, VendorTexts
  <1>3. Cell("net", s.net) \in Cells /\ Cell("auth", s.auth) \in Cells
    <2>1. s.net \in CellValues /\ s.auth \in CellValues
      BY <1>1, Zenon DEF CellValues
    <2> QED
      BY <2>1, CellType
  <1>4. b \in Seq(Cells) /\ Len(b) = 2 /\ b[1] = Cell("net", s.net) /\ b[2] = Cell("auth", s.auth)
    BY <1>3
  <1>5. c \in Seq(Cells) /\ Len(c) = s.users /\ \A i \in 1..s.users : c[i] = Cell("user", i)
    <2>1. \A i \in 1..s.users : i \in CellValues
      BY <1>1 DEF CellValues
    <2>2. \A i \in 1..s.users : Cell("user", i) \in Cells
      BY <2>1, CellType
    <2> QED
      BY <1>1, <2>2 DEF Entries
  <1>6. d \in Seq(Cells) /\ Len(d) = 1 /\ d[1] = Cell("end", 0)
    <2>1. 0 \in CellValues
      BY DEF CellValues
    <2>2. Cell("end", 0) \in Cells
      BY <2>1, CellType
    <2> QED
      BY <2>2 DEF EndOfText
  <1>7. Text(s) = t
    BY DEF Text
  <1> HIDE DEF v, a, b, c, d
  <1>8. /\ t \in Seq(Cells) /\ Len(t) = v + 2 + s.users + 1
        /\ \A i \in 1..v : t[i] = a[i]
        /\ \A i \in 1..2 : t[v + i] = b[i]
        /\ \A i \in 1..s.users : t[v + 2 + i] = c[i]
        /\ \A i \in 1..1 : t[v + 2 + s.users + i] = d[i]
    <2>1. a \in Seq(Cells) /\ b \in Seq(Cells) /\ c \in Seq(Cells) /\ d \in Seq(Cells)
      BY <1>2, <1>4, <1>5, <1>6
    <2>2. Len(a) = v /\ Len(b) = 2 /\ Len(c) = s.users /\ Len(d) = 1
      BY <1>2, <1>4, <1>5, <1>6
    <2>3. Joined(Cells, t, a, b, c, d)
      BY <2>1, FourParts
    <2> HIDE DEF t
    <2> QED
      BY <2>2, <2>3 DEF Joined
  <1> HIDE DEF t
  <1>9. Len(t) = v + 3 + s.users /\ v + 2 + s.users + 1 = v + 3 + s.users /\ 1 \in 1..v
    BY <1>1, <1>2, <1>8
  <1>10. t[v + 1] = Cell("net", s.net) /\ t[v + 2] = Cell("auth", s.auth)
    BY <1>4, <1>8
  <1>11. t[v + 3 + s.users] = Cell("end", 0)
    BY <1>6, <1>8, <1>9
  <1>12. \A i \in 1..s.users : t[v + 2 + i] = Cell("user", i)
    BY <1>5, <1>8
  <1>13. s.vendor = "valid" => t[1] = Cell("vendor", 1) /\ t[2] = Cell("vendor", 2)
    <2>1. s.vendor = "valid" => 1 \in 1..v /\ 2 \in 1..v
      BY DEF v, VendorCells
    <2> QED
      BY <1>2, <1>8, <2>1
  <1>14. s.vendor # "valid" => t[1] = Cell("vendor", 0)
    BY <1>2, <1>8, <1>9
  <1> QED
    BY <1>1, <1>2, <1>7, <1>8, <1>9, <1>10, <1>11, <1>12, <1>13, <1>14 DEF v

\* No cell of a text is garbled.
LEMMA NotGarbled ==
  ASSUME NEW x \in Cells
  PROVE  x # Garbled
  <1>1. x.key \in Keys
    BY DEF Cells
  <1>2. Garbled.key = "garbled"
    BY DEF Garbled
  <1> QED
    BY <1>1, <1>2 DEF Keys

\* Settings are known by their parts.
LEMMA SettingsParts ==
  ASSUME NEW s \in AllSettings, NEW d \in AllSettings,
         s.vendor = d.vendor, s.net = d.net, s.auth = d.auth, s.users = d.users
  PROVE  s = d
  BY DEF AllSettings

\* The EEPROM begins with this text.
Holds(e, t) == Len(t) <= Len(e) /\ \A i \in 1..Len(t) : e[i] = t[i]

\* It may be read as this text.
Reads(e, t) == Len(t) <= Len(e) /\ \A i \in 1..Len(t) : e[i] \in {t[i], Garbled}

\* A complete text is read as what was written, whatever is behind it.
LEMMA OneReading ==
  ASSUME NEW s \in AllSettings, NEW d \in AllSettings, NEW e, Holds(e, Text(s)), Reads(e, Text(d))
  PROVE  d = s
  <1> DEFINE v == VendorCells(s.vendor)
             w == VendorCells(d.vendor)
             t == Text(s)
             u == Text(d)
  <1>1. /\ v \in 1..2 /\ s.users \in Nat
        /\ t \in Seq(Cells) /\ Len(t) = v + 3 + s.users
        /\ s.vendor = "valid" => t[1] = Cell("vendor", 1) /\ t[2] = Cell("vendor", 2)
        /\ s.vendor # "valid" => t[1] = Cell("vendor", 0)
        /\ t[v + 1] = Cell("net", s.net) /\ t[v + 2] = Cell("auth", s.auth)
        /\ \A i \in 1..s.users : t[v + 2 + i] = Cell("user", i)
        /\ t[v + 3 + s.users] = Cell("end", 0)
    BY TextCells
  <1>2. /\ w \in 1..2 /\ d.users \in Nat
        /\ u \in Seq(Cells) /\ Len(u) = w + 3 + d.users
        /\ d.vendor = "valid" => u[1] = Cell("vendor", 1) /\ u[2] = Cell("vendor", 2)
        /\ d.vendor # "valid" => u[1] = Cell("vendor", 0)
        /\ u[w + 1] = Cell("net", d.net) /\ u[w + 2] = Cell("auth", d.auth)
        /\ \A i \in 1..d.users : u[w + 2 + i] = Cell("user", i)
        /\ u[w + 3 + d.users] = Cell("end", 0)
    BY TextCells
  <1>3. s.vendor \in Vendor /\ d.vendor \in Vendor
    BY DEF AllSettings
  <1>4. /\ \A i \in 1..Len(t) : e[i] = t[i]
        /\ \A i \in 1..Len(u) : e[i] \in {u[i], Garbled}
    BY DEF Holds, Reads
  <1> HIDE DEF t, u
  <1>5. \A i \in 1..Len(t) : t[i] # Garbled
    <2>1. \A i \in 1..Len(t) : t[i] \in Cells
      BY <1>1
    <2> QED
      BY <2>1, NotGarbled
  <1>6. \A i \in 1..Len(t) : i \in 1..Len(u) => t[i] = u[i]
    BY <1>4, <1>5
  <1>7. s.vendor = d.vendor
    <2>1. 1 \in 1..Len(t) /\ 1 \in 1..Len(u)
      <3> HIDE DEF v, w
      <3> QED
        BY <1>1, <1>2, SMTT(40)
    <2>2. t[1] = u[1]
      BY <1>6, <2>1
    <2>3. Cell("vendor", 1) # Cell("vendor", 0)
      <3>1. 1 # 0
        OBVIOUS
      <3> QED
        BY <3>1, CellParts
    <2> QED
      BY <1>1, <1>2, <1>3, <2>2, <2>3 DEF Vendor
  <1>8. v = w
    BY <1>7
  <1> HIDE DEF v, w
  <1>9. s.net = d.net /\ s.auth = d.auth
    <2>1. v + 1 \in 1..Len(t) /\ v + 2 \in 1..Len(t) /\ v + 1 \in 1..Len(u) /\ v + 2 \in 1..Len(u)
      BY <1>1, <1>2, <1>8, SMTT(40)
    <2>2. Cell("net", s.net) = Cell("net", d.net) /\ Cell("auth", s.auth) = Cell("auth", d.auth)
      BY <1>1, <1>2, <1>6, <1>8, <2>1
    <2> QED
      BY <2>2, CellParts
  <1>10. \A x, y : Cell("user", x) # Cell("end", y)
    BY CellParts
  <1>11. s.users = d.users
    <2>1. CASE d.users < s.users
      <3>1. d.users + 1 \in 1..s.users /\ v + 2 + (d.users + 1) = v + 3 + d.users
            /\ v + 3 + d.users \in 1..Len(t) /\ v + 3 + d.users \in 1..Len(u)
        BY <1>1, <1>2, <1>8, <2>1, SMTT(40)
      <3>2. t[v + 3 + d.users] = Cell("user", d.users + 1) /\ u[v + 3 + d.users] = Cell("end", 0)
        BY <1>1, <1>2, <1>8, <3>1
      <3> QED
        BY <1>6, <1>10, <3>1, <3>2
    <2>2. CASE s.users < d.users
      <3>1. s.users + 1 \in 1..d.users /\ v + 2 + (s.users + 1) = v + 3 + s.users
            /\ v + 3 + s.users \in 1..Len(t) /\ v + 3 + s.users \in 1..Len(u)
        BY <1>1, <1>2, <1>8, <2>2, SMTT(40)
      <3>2. u[v + 3 + s.users] = Cell("user", s.users + 1) /\ t[v + 3 + s.users] = Cell("end", 0)
        BY <1>1, <1>2, <1>8, <3>1
      <3> QED
        BY <1>6, <1>10, <3>1, <3>2
    <2> QED
      BY <1>1, <1>2, <2>1, <2>2
  <1> QED
    BY <1>7, <1>9, <1>11, SettingsParts

\* What is left of settings fits into the document that is written.
LEMMA FittingFits ==
  ASSUME NEW s \in AllSettings
  PROVE  /\ Fitting(s) \in Documents /\ Fitting(s) \in AllSettings
         /\ Fitting(s).vendor = s.vendor /\ Len(Text(Fitting(s))) <= WriteCapacity + 1
         /\ s.users <= 2 => Fitting(s) = s
  <1> DEFINE z == [s EXCEPT !.users = 0]
             v == VendorCells(s.vendor)
             room == WriteCapacity - Len(Text(z)) + 1
             n == IF s.users > room THEN room ELSE s.users
  <1>1. s.vendor \in Vendor /\ s.net \in NetChoices /\ s.auth \in BOOLEAN /\ s.users \in Nat
    BY DEF AllSettings
  <1>2. z \in AllSettings /\ z.vendor = s.vendor /\ z.users = 0
    BY DEF AllSettings
  <1> HIDE DEF z
  <1>3. Len(Text(z)) = v + 3 /\ v \in 1..2
    <2>1. Len(Text(z)) = VendorCells(z.vendor) + 3 + z.users /\ VendorCells(z.vendor) \in 1..2
      BY <1>2, TextCells
    <2> QED
      BY <1>2, <2>1
  <1>4. WriteCapacity \in Nat /\ WriteCapacity >= 6
    BY SettingsAssumption
  <1> HIDE DEF v
  <1>5. room \in Nat /\ room >= 2 /\ room + v + 2 = WriteCapacity
    BY <1>3, <1>4
  <1>6. Fitting(s) = [s EXCEPT !.users = n]
    BY DEF Fitting, z
  <1> HIDE DEF room
  <1>7. n \in Nat /\ n <= room /\ n <= s.users /\ (s.users <= 2 => n = s.users)
    BY <1>1, <1>5
  <1> HIDE DEF n
  <1>8. n \in 0..WriteCapacity
    BY <1>3, <1>4, <1>5, <1>7
  <1>9. /\ Fitting(s) \in AllSettings /\ Fitting(s) \in Documents
        /\ Fitting(s).vendor = s.vendor /\ Fitting(s).users = n
        /\ Fitting(s).net = s.net /\ Fitting(s).auth = s.auth
    BY <1>6, <1>7, <1>8 DEF AllSettings, Documents
  <1>10. Len(Text(Fitting(s))) = v + 3 + n
    BY <1>9, TextCells DEF v
  <1>11. Len(Text(Fitting(s))) <= WriteCapacity + 1
    BY <1>3, <1>4, <1>5, <1>7, <1>10
  <1>12. s.users <= 2 => Fitting(s) = s
    BY <1>7, <1>9, SettingsParts
  <1> QED
    BY <1>9, <1>11, <1>12

Phases == {"off", "setup", "servers", "running", "writing"}

\* Types of the settings and of the EEPROM
SettingsTypes ==
  /\ mem \in AllSettings /\ saved \in AllSettings
  /\ eeprom \in Seq(AllCells) /\ Len(eeprom) <= WriteCapacity + 1
  /\ written \in Nat /\ written <= WriteCapacity + 1 /\ phase \in Phases

\* Flags and what setup() has begun
SettingsFlags ==
  /\ userDoc \in BOOLEAN /\ intact \in BOOLEAN /\ readFailed \in BOOLEAN
  /\ listening \subseteq {"ip", "jsonl", "web"} /\ address \in {"none", "valid", "invalid"}

\* A write has got as far as it says ...
WriteInv ==
  phase = "writing" => written <= Len(NewText) /\ written <= Len(eeprom) /\ \A i \in 1..written : eeprom[i] = NewText[i]

\* ... what was saved and not cut off is there ...
SavedInv == intact /\ phase # "writing" => Holds(eeprom, Text(Fitting(saved)))

\* ... and vendor data stay in their place.
VendorInv ==
  ~readFailed => /\ mem.vendor = "valid" /\ Len(eeprom) >= 2
                 /\ eeprom[1] = Cell("vendor", 1) /\ eeprom[2] = Cell("vendor", 2)

\* The inductive invariant of the persistent settings
SettingsInv == SettingsTypes /\ SettingsFlags /\ WriteInv /\ SavedInv /\ VendorInv

\* Steps that leave the EEPROM and what was saved in it alone.
LEMMA EepromRests ==
  ASSUME SettingsInv, eeprom' = eeprom, saved' = saved, intact' = intact, phase # "writing", phase' # "writing"
  PROVE  WriteInv' /\ SavedInv'
  <1>1. WriteInv'
    BY DEF WriteInv
  <1>2. intact => Holds(eeprom, Text(Fitting(saved)))
    BY DEF SettingsInv, SavedInv
  <1>3. SavedInv'
    <2>1. Text(Fitting(saved))' = Text(Fitting(saved))
      BY DEF Text, Fitting
    <2> QED
      BY <1>2, <2>1, Zenon DEF SavedInv, Holds
  <1> QED
    BY <1>1, <1>3

\* Types of the network settings that begin_ip() makes legal.
LEMMA LegalType ==
  ASSUME NEW net \in NetChoices
  PROVE  LegalAddress(net) \in NetChoices /\ LegalAddress(net).ip = "valid"
  BY SettingsAssumption DEF LegalAddress

\* The settings after each change of a part.
LEMMA PartsChanged ==
  ASSUME NEW m \in AllSettings, NEW net \in NetChoices
  PROVE  /\ m.vendor \in Vendor /\ m.net \in NetChoices
         /\ [m EXCEPT !.net = net] \in AllSettings /\ [m EXCEPT !.net = net].vendor = m.vendor
         /\ [m EXCEPT !.net = net].net = net
  <1>1. m.vendor \in Vendor /\ m.net \in NetChoices
    BY DEF AllSettings
  <1>2. [m EXCEPT !.net = net] \in AllSettings /\ [m EXCEPT !.net = net].vendor = m.vendor
        /\ [m EXCEPT !.net = net].net = net
    BY DEF AllSettings
  <1> QED
    BY <1>1, <1>2

\* The settings after net_set.
LEMMA UpdatedType ==
  ASSUME NEW m \in AllSettings, NEW net \in NetChoices, NEW auth \in BOOLEAN, NEW users \in Nat
  PROVE  Updated(m, net, auth, users) \in AllSettings /\ Updated(m, net, auth, users).vendor = m.vendor
  <1>1. m.vendor \in Vendor
    BY DEF AllSettings
  <1> QED
    BY <1>1, Zenon DEF AllSettings, Updated

\* The defaults of a device that could not read its settings.
LEMMA DefaultTypes == Defaults(PowerUp) \in AllSettings
  <1>1. PowerUp.vendor = "invalid"
    BY DEF PowerUp
  <1>2. DefaultNet \in NetChoices /\ "invalid" \in Vendor /\ TRUE \in BOOLEAN
    BY SettingsAssumption DEF Vendor
  <1>3. (IF PowerUp.vendor = "valid" THEN 2 ELSE 0) \in Nat
    OBVIOUS
  <1> QED
    BY <1>1, <1>2, <1>3, Zenon DEF Defaults, AllSettings

\* read_from_eeprom() of a document.
LEMMA ReadStep ==
  ASSUME SettingsInv, NEW d \in Documents, ReadEeprom(d)
  PROVE  SettingsInv'
  <1>1. /\ phase = "off" /\ ReadAs(d) /\ mem' = d /\ phase' = "setup" /\ userDoc' = FALSE /\ listening' = {}
        /\ address' = "none" /\ eeprom' = eeprom /\ written' = written /\ saved' = saved /\ intact' = intact
        /\ readFailed' = readFailed
    BY DEF ReadEeprom, LoadedFrom
  <1>2. d \in AllSettings
    <2>1. WriteCapacity \in Nat
      BY SettingsAssumption
    <2>2. 0..WriteCapacity \subseteq Nat
      BY <2>1
    <2> QED
      BY <2>2 DEF Documents, AllSettings
  <1>3. SettingsTypes'
    BY <1>1, <1>2 DEF SettingsInv, SettingsTypes, Phases
  <1>4. SettingsFlags'
    BY <1>1, Zenon DEF SettingsInv, SettingsFlags
  <1>5. WriteInv' /\ SavedInv'
    BY <1>1, EepromRests
  <1>6. VendorInv'
    <2> SUFFICES ASSUME ~readFailed PROVE d.vendor = "valid"
      BY <1>1 DEF SettingsInv, VendorInv
    <2>1. eeprom[1] = Cell("vendor", 1)
      BY DEF SettingsInv, VendorInv
    <2>2. /\ Text(d) \in Seq(Cells) /\ Len(Text(d)) >= 1
          /\ d.vendor # "valid" => Text(d)[1] = Cell("vendor", 0)
      <3>1. /\ VendorCells(d.vendor) \in 1..2 /\ d.users \in Nat
            /\ Text(d) \in Seq(Cells) /\ Len(Text(d)) = VendorCells(d.vendor) + 3 + d.users
            /\ d.vendor # "valid" => Text(d)[1] = Cell("vendor", 0)
        BY <1>2, TextCells
      <3> QED
        BY <3>1
    <2>3. 1 \in DOMAIN Text(d)
      BY <2>2
    <2>4. Cell("vendor", 1) \in {Text(d)[1], Garbled}
      BY <1>1, <2>1, <2>3 DEF ReadAs
    <2>5. Cell("vendor", 1) \in Cells
      <3>1. 1 \in CellValues
        BY DEF CellValues
      <3> QED
        BY <3>1, CellType
    <2>6. Cell("vendor", 1) # Cell("vendor", 0)
      <3>1. 1 # 0
        OBVIOUS
      <3> QED
        BY <3>1, CellParts
    <2> QED
      BY <2>2, <2>4, <2>5, <2>6, NotGarbled
  <1> QED
    BY <1>3, <1>4, <1>5, <1>6 DEF SettingsInv

\* read_from_eeprom() fails.
LEMMA ReadFailsStep ==
  ASSUME SettingsInv, ReadEepromFails
  PROVE  SettingsInv'
  <1>1. /\ phase = "off" /\ mem' = Defaults(PowerUp) /\ phase' = "setup" /\ userDoc' = FALSE /\ listening' = {}
        /\ address' = "none" /\ eeprom' = eeprom /\ written' = written /\ saved' = saved /\ intact' = intact
        /\ readFailed' = TRUE
    BY DEF ReadEepromFails
  <1>2. SettingsTypes'
    BY <1>1, DefaultTypes DEF SettingsInv, SettingsTypes, Phases
  <1>3. SettingsFlags'
    BY <1>1, Zenon DEF SettingsInv, SettingsFlags
  <1>4. WriteInv' /\ SavedInv'
    BY <1>1, EepromRests
  <1>5. VendorInv'
    BY <1>1 DEF VendorInv
  <1> QED
    BY <1>2, <1>3, <1>4, <1>5 DEF SettingsInv

\* begin_ip() with DHCP, the servers, and a restart.
LEMMA SetupStep ==
  ASSUME SettingsInv, \/ \E ok \in BOOLEAN : BeginDhcp(ok)
                      \/ BeginServers \/ Restart
  PROVE  SettingsInv'
  <1>1. /\ phase # "writing" /\ phase' \in {"off", "servers", "running"}
        /\ mem' = mem /\ userDoc' = userDoc /\ address' = address /\ eeprom' = eeprom /\ written' = written
        /\ saved' = saved /\ intact' = intact /\ readFailed' = readFailed
    BY DEF BeginDhcp, BeginServers, Restart
  <1>2. listening' \subseteq {"ip", "jsonl", "web"}
    <2>1. listening \subseteq {"ip", "jsonl", "web"}
      BY DEF SettingsInv, SettingsFlags
    <2> QED
      BY <2>1 DEF BeginDhcp, BeginServers, Restart
  <1>3. SettingsTypes'
    BY <1>1 DEF SettingsInv, SettingsTypes, Phases
  <1>4. SettingsFlags'
    BY <1>1, <1>2, Zenon DEF SettingsInv, SettingsFlags
  <1>5. WriteInv' /\ SavedInv'
    BY <1>1, EepromRests
  <1>6. VendorInv'
    BY <1>1 DEF SettingsInv, VendorInv
  <1> QED
    BY <1>3, <1>4, <1>5, <1>6 DEF SettingsInv

\* begin_ip() with a static address, and net_reset.
LEMMA NetChangedStep ==
  ASSUME SettingsInv, \/ \E ok \in BOOLEAN : BeginStatic(ok)
                      \/ ResetNetworkSettings
  PROVE  SettingsInv'
  <1>1. mem \in AllSettings /\ mem.net \in NetChoices
    BY DEF SettingsInv, SettingsTypes, AllSettings
  <1>2. LegalAddress(mem.net) \in NetChoices /\ LegalAddress(mem.net).ip = "valid" /\ DefaultNet \in NetChoices
    BY <1>1, LegalType, SettingsAssumption
  <1>3. PICK net \in NetChoices : mem' = [mem EXCEPT !.net = net] /\ (net.ip = "valid" \/ address' = address)
    <2>1. CASE \E ok \in BOOLEAN : BeginStatic(ok)
      <3>1. mem' = [mem EXCEPT !.net = LegalAddress(mem.net)]
        BY <2>1, Zenon DEF BeginStatic
      <3> QED
        BY <3>1, <1>2
    <2>2. CASE ResetNetworkSettings
      <3>1. mem' = [mem EXCEPT !.net = DefaultNet] /\ address' = address
        BY <2>2, Zenon DEF ResetNetworkSettings
      <3> QED
        BY <3>1, <1>2
    <2> QED
      BY <2>1, <2>2
  <1>4. mem' \in AllSettings /\ mem'.vendor = mem.vendor /\ mem'.net = net
    BY <1>1, <1>3, PartsChanged
  <1>5. /\ phase # "writing" /\ phase' \in {"servers", "running"}
        /\ userDoc' = userDoc /\ eeprom' = eeprom /\ written' = written
        /\ saved' = saved /\ intact' = intact /\ readFailed' = readFailed
    BY DEF BeginStatic, ResetNetworkSettings
  <1>6. listening' \subseteq {"ip", "jsonl", "web"} /\ address' \in {"none", "valid", "invalid"}
    <2>1. listening \subseteq {"ip", "jsonl", "web"} /\ address \in {"none", "valid", "invalid"}
      BY DEF SettingsInv, SettingsFlags
    <2>2. CASE \E ok \in BOOLEAN : BeginStatic(ok)
      <3>1. address' = mem'.net.ip /\ listening' \subseteq {"ip"}
        BY <2>2 DEF BeginStatic
      <3>2. mem' = [mem EXCEPT !.net = LegalAddress(mem.net)]
        BY <2>2, Zenon DEF BeginStatic
      <3>3. mem'.net = LegalAddress(mem.net)
        BY <1>1, <1>2, <3>2, PartsChanged
      <3> QED
        BY <1>2, <3>1, <3>3
    <2>3. CASE ResetNetworkSettings
      BY <2>1, <2>3 DEF ResetNetworkSettings
    <2> QED
      BY <2>2, <2>3
  <1>7. SettingsTypes'
    BY <1>4, <1>5 DEF SettingsInv, SettingsTypes, Phases
  <1>8. SettingsFlags'
    BY <1>5, <1>6, Zenon DEF SettingsInv, SettingsFlags
  <1>9. WriteInv' /\ SavedInv'
    BY <1>5, EepromRests
  <1>10. VendorInv'
    BY <1>4, <1>5 DEF SettingsInv, VendorInv
  <1> QED
    BY <1>7, <1>8, <1>9, <1>10 DEF SettingsInv

\* The text that is written.
LEMMA NewTextCells ==
  ASSUME mem \in AllSettings
  PROVE  /\ NewText \in Seq(Cells) /\ Len(NewText) \in Nat /\ Len(NewText) >= 2 /\ Len(NewText) <= WriteCapacity + 1
         /\ mem.vendor = "valid" => NewText[1] = Cell("vendor", 1) /\ NewText[2] = Cell("vendor", 2)
  <1> DEFINE f == Fitting(mem)
  <1>1. f \in AllSettings /\ f.vendor = mem.vendor /\ Len(Text(f)) <= WriteCapacity + 1
    BY FittingFits
  <1> HIDE DEF f
  <1>2. /\ VendorCells(f.vendor) \in 1..2 /\ f.users \in Nat
        /\ Text(f) \in Seq(Cells) /\ Len(Text(f)) = VendorCells(f.vendor) + 3 + f.users
        /\ f.vendor = "valid" => Text(f)[1] = Cell("vendor", 1) /\ Text(f)[2] = Cell("vendor", 2)
    BY <1>1, TextCells
  <1>3. NewText = Text(f)
    BY DEF NewText, f
  <1>4. Len(Text(f)) \in Nat /\ Len(Text(f)) >= 2
    BY <1>2
  <1> QED
    BY <1>1, <1>2, <1>3, <1>4

\* net_set, with settings or with data of the user.
LEMMA SetStep ==
  ASSUME SettingsInv, \/ \E net \in NetChoices, auth \in BOOLEAN, users \in UserCounts, noWrite \in BOOLEAN :
                           SetSettings(net, auth, users, noWrite)
                      \/ SetUserData
  PROVE  SettingsInv'
  <1>1. mem \in AllSettings
    BY DEF SettingsInv, SettingsTypes
  <1>2. mem' \in AllSettings /\ mem'.vendor = mem.vendor
    <2>1. CASE SetUserData
      BY <1>1, <2>1 DEF SetUserData
    <2>2. ASSUME NEW net \in NetChoices, NEW auth \in BOOLEAN, NEW users \in UserCounts, NEW noWrite \in BOOLEAN,
                 SetSettings(net, auth, users, noWrite)
          PROVE  mem' \in AllSettings /\ mem'.vendor = mem.vendor
      <3>1. users \in Nat
        BY SettingsAssumption
      <3>2. mem' = Updated(mem, net, auth, users)
        BY <2>2 DEF SetSettings
      <3> QED
        BY <1>1, <3>1, <3>2, UpdatedType
    <2> QED
      BY <2>1, <2>2
  <1>3. /\ phase = "running" /\ phase' \in {"running", "writing"} /\ written' = 0
        /\ listening' = listening /\ address' = address /\ eeprom' = eeprom
        /\ saved' = saved /\ intact' = intact /\ readFailed' = readFailed
    BY DEF SetSettings, SetUserData
  <1>4. userDoc' \in BOOLEAN
    <2>1. userDoc \in BOOLEAN
      BY DEF SettingsInv, SettingsFlags
    <2> QED
      BY <2>1, Zenon DEF SetSettings, SetUserData
  <1>5. SettingsTypes'
    <2>1. WriteCapacity \in Nat
      BY SettingsAssumption
    <2> QED
      BY <1>2, <1>3, <2>1 DEF SettingsInv, SettingsTypes, Phases
  <1>6. SettingsFlags'
    BY <1>3, <1>4, Zenon DEF SettingsInv, SettingsFlags
  <1>7. WriteInv'
    <2>1. (mem \in AllSettings)' => (Len(NewText) \in Nat)'
      <3>1. \A m \in AllSettings : Len(Text(Fitting(m))) \in Nat
        <4> TAKE m \in AllSettings
        <4>1. Text(Fitting(m)) \in Seq(Cells)
          BY FittingFits, TextCells
        <4> QED
          BY <4>1
      <3>2. mem' \in AllSettings => Len(Text(Fitting(mem'))) \in Nat
        BY <3>1
      <3> QED
        BY <3>2 DEF NewText, Text, Fitting
    <2>2. Len(eeprom) \in Nat
      BY DEF SettingsInv, SettingsTypes
    <2>3. (Len(NewText) \in Nat)'
      BY <1>2, <2>1
    <2> DEFINE l == Len(NewText)'
    <2>4. l \in Nat
      BY <2>3
    <2> HIDE DEF l
    <2>5. 0 <= l /\ 0 <= Len(eeprom) /\ 1..0 = {}
      BY <2>2, <2>4
    <2> QED
      BY <1>3, <2>5 DEF WriteInv, l
  <1>8. SavedInv'
    <2>1. intact => Holds(eeprom, Text(Fitting(saved)))
      BY <1>3 DEF SettingsInv, SavedInv
    <2> QED
      BY <1>3, <2>1, SMTT(40) DEF SavedInv, Holds, Text, Fitting
  <1>9. VendorInv'
    BY <1>2, <1>3 DEF SettingsInv, VendorInv
  <1> QED
    BY <1>5, <1>6, <1>7, <1>8, <1>9 DEF SettingsInv

\* A function on 1..n is a sequence.
LEMMA SeqOfFcn ==
  ASSUME NEW S, NEW n \in Nat, NEW f \in [1..n -> S]
  PROVE  f \in Seq(S) /\ Len(f) = n
  OBVIOUS

\* The EEPROM with one cell rewritten
Rewritten(f, n, c) ==
  /\ f \in Seq(AllCells) /\ Len(f) = (IF n > Len(eeprom) THEN n ELSE Len(eeprom)) /\ f[n] = c
  /\ \A i \in 1..Len(eeprom) : i # n => f[i] = eeprom[i]
  /\ n <= Len(eeprom) => Grown(n)[n] = eeprom[n]

\* One cell of the EEPROM is written; it grows where it must.
LEMMA CellWritten ==
  ASSUME eeprom \in Seq(AllCells), NEW n \in Nat, n >= 1, NEW c \in AllCells
  PROVE  Rewritten([Grown(n) EXCEPT ![n] = c], n, c)
  <1> DEFINE l == IF n > Len(eeprom) THEN n ELSE Len(eeprom)
             g == Grown(n)
             f == [Grown(n) EXCEPT ![n] = c]
  <1>1. Len(eeprom) \in Nat /\ l \in Nat /\ n <= l /\ Len(eeprom) <= l
    OBVIOUS
  <1>2. Blank \in AllCells
    BY DEF AllCells
  <1>3. g = [i \in 1..l |-> IF i <= Len(eeprom) THEN eeprom[i] ELSE Blank]
    BY DEF Grown
  <1> HIDE DEF l
  <1>4. \A i \in 1..l : g[i] = IF i <= Len(eeprom) THEN eeprom[i] ELSE Blank
    BY <1>3, Zenon
  <1>5. \A i \in 1..l : g[i] \in AllCells
    <2> TAKE i \in 1..l
    <2>1. CASE i <= Len(eeprom)
      <3>1. i \in 1..Len(eeprom)
        BY <1>1, <2>1
      <3>2. eeprom[i] \in AllCells
        BY <3>1, ElementOfSeq
      <3> QED
        BY <1>4, <2>1, <3>2
    <2>2. CASE ~(i <= Len(eeprom))
      BY <1>2, <1>4, <2>2
    <2> QED
      BY <2>1, <2>2
  <1>6. DOMAIN g = 1..l
    BY <1>3
  <1> HIDE DEF g
  <1>7. f = [i \in 1..l |-> IF i = n THEN c ELSE g[i]]
    BY <1>6, Zenon DEF g
  <1> HIDE DEF f
  <1>8. f \in Seq(AllCells) /\ Len(f) = l
    <2>1. \A i \in 1..l : (IF i = n THEN c ELSE g[i]) \in AllCells
      BY <1>5
    <2>2. f \in [1..l -> AllCells]
      BY <1>7, <2>1, Zenon
    <2> QED
      BY <1>1, <2>2, SeqOfFcn
  <1>9. \A i \in 1..l : f[i] = IF i = n THEN c ELSE g[i]
    BY <1>7, Zenon
  <1>10. f[n] = c
    BY <1>1, <1>9
  <1>11. \A i \in 1..Len(eeprom) : i \in 1..l /\ i <= Len(eeprom)
    BY <1>1
  <1>12. \A i \in 1..Len(eeprom) : i # n => f[i] = eeprom[i]
    BY <1>4, <1>9, <1>11
  <1>13. n <= Len(eeprom) => g[n] = eeprom[n]
    BY <1>1, <1>4
  <1> QED
    BY <1>8, <1>10, <1>12, <1>13 DEF l, g, f, Rewritten

\* write_to_eeprom() writes a cell.
LEMMA WriteCellStep ==
  ASSUME SettingsInv, WriteCell
  PROVE  SettingsInv'
  <1> DEFINE n == written + 1
             t == NewText
             e == eeprom'
  <1>1. /\ phase = "writing" /\ written < Len(NewText) /\ eeprom' = [Grown(n) EXCEPT ![n] = NewText[n]]
        /\ written' = n /\ mem' = mem /\ userDoc' = userDoc /\ phase' = phase /\ listening' = listening
        /\ address' = address /\ saved' = saved /\ intact' = intact /\ readFailed' = readFailed
    BY DEF WriteCell
  <1>2. /\ mem \in AllSettings /\ eeprom \in Seq(AllCells) /\ Len(eeprom) \in Nat /\ Len(eeprom) <= WriteCapacity + 1
        /\ written \in Nat
    BY DEF SettingsInv, SettingsTypes
  <1>3. /\ t \in Seq(Cells) /\ Len(t) \in Nat /\ Len(t) <= WriteCapacity + 1
        /\ mem.vendor = "valid" => t[1] = Cell("vendor", 1) /\ t[2] = Cell("vendor", 2)
    BY <1>2, NewTextCells
  <1>4. written <= Len(eeprom) /\ \A i \in 1..written : eeprom[i] = t[i]
    BY <1>1 DEF SettingsInv, WriteInv
  <1>5. NewText' = NewText
    BY <1>1 DEF NewText, Text, Fitting
  <1> HIDE DEF t
  <1>6. n \in Nat /\ n >= 1 /\ n <= Len(t) /\ n <= WriteCapacity + 1 /\ \A i \in 1..n : i = n \/ i \in 1..written
    BY <1>1, <1>2, <1>3, SettingsAssumption DEF t
  <1> HIDE DEF n
  <1>7. t[n] \in AllCells
    <2>1. n \in 1..Len(t)
      BY <1>3, <1>6
    <2>2. t[n] \in Cells
      BY <1>3, <2>1, ElementOfSeq
    <2> QED
      BY <2>2 DEF AllCells
  <1>8. e = [Grown(n) EXCEPT ![n] = t[n]]
    BY <1>1 DEF t
  <1> HIDE DEF e
  <1>9. /\ e \in Seq(AllCells) /\ Len(e) = (IF n > Len(eeprom) THEN n ELSE Len(eeprom)) /\ e[n] = t[n]
        /\ \A i \in 1..Len(eeprom) : i # n => e[i] = eeprom[i]
    <2>1. Rewritten([Grown(n) EXCEPT ![n] = t[n]], n, t[n])
      BY <1>2, <1>6, <1>7, CellWritten
    <2>2. Rewritten(e, n, t[n])
      BY <1>8, <2>1, Zenon
    <2> QED
      BY <2>2 DEF Rewritten
  <1>10. Len(e) <= WriteCapacity + 1 /\ n <= Len(e) /\ Len(eeprom) <= Len(e)
    BY <1>2, <1>6, <1>9
  <1>11. SettingsTypes'
    BY <1>1, <1>6, <1>9, <1>10 DEF SettingsInv, SettingsTypes, e
  <1>12. SettingsFlags'
    BY <1>1, Zenon DEF SettingsInv, SettingsFlags
  <1>13. WriteInv'
    <2>1. \A i \in 1..n : e[i] = t[i]
      <3> TAKE i \in 1..n
      <3>1. CASE i = n
        BY <1>9, <3>1
      <3>2. CASE i # n
        <4>1. i \in 1..written /\ i \in 1..Len(eeprom)
          BY <1>2, <1>4, <1>6, <3>2
        <4> QED
          BY <1>4, <1>9, <3>2, <4>1
      <3> QED
        BY <3>1, <3>2
    <2> QED
      BY <1>1, <1>5, <1>6, <1>10, <2>1 DEF WriteInv, e, t
  <1>14. SavedInv'
    BY <1>1 DEF SavedInv
  <1>15. VendorInv'
    <2> SUFFICES ASSUME ~readFailed
                 PROVE  mem.vendor = "valid" /\ Len(e) >= 2 /\ e[1] = Cell("vendor", 1) /\ e[2] = Cell("vendor", 2)
      BY <1>1 DEF VendorInv, e
    <2>1. mem.vendor = "valid" /\ Len(eeprom) >= 2 /\ eeprom[1] = Cell("vendor", 1) /\ eeprom[2] = Cell("vendor", 2)
      BY DEF SettingsInv, VendorInv
    <2>2. 1 \in 1..Len(eeprom) /\ 2 \in 1..Len(eeprom)
      BY <1>2, <2>1
    <2>3. Len(e) >= 2
      BY <1>2, <1>6, <1>9, <2>1
    <2> QED
      BY <1>3, <1>9, <2>1, <2>2, <2>3
  <1> QED
    BY <1>11, <1>12, <1>13, <1>14, <1>15 DEF SettingsInv

\* write_to_eeprom() ends.
LEMMA WriteEndsStep ==
  ASSUME SettingsInv, WriteEnds
  PROVE  SettingsInv'
  <1>1. /\ phase = "writing" /\ written = Len(NewText) /\ phase' = "running" /\ saved' = mem /\ intact' = TRUE
        /\ eeprom' = eeprom /\ mem' = mem /\ userDoc' = userDoc /\ written' = written
        /\ listening' = listening /\ address' = address /\ readFailed' = readFailed
    BY DEF WriteEnds
  <1>2. Holds(eeprom, Text(Fitting(mem)))
    BY <1>1 DEF SettingsInv, WriteInv, Holds, NewText
  <1>3. SettingsTypes'
    BY <1>1 DEF SettingsInv, SettingsTypes, Phases
  <1>4. SettingsFlags'
    BY <1>1, Zenon DEF SettingsInv, SettingsFlags
  <1>5. WriteInv'
    BY <1>1 DEF WriteInv
  <1>6. SavedInv'
    <2>1. Holds(eeprom', Text(Fitting(saved')))
      BY <1>1, <1>2
    <2> QED
      BY <2>1 DEF SavedInv, Holds, Text, Fitting
  <1>7. VendorInv'
    BY <1>1 DEF SettingsInv, VendorInv
  <1> QED
    BY <1>3, <1>4, <1>5, <1>6, <1>7 DEF SettingsInv

\* A loss of power cuts a write off.
LEMMA CutOffStep ==
  ASSUME SettingsInv, NEW g \in BOOLEAN, CutOff(g)
  PROVE  SettingsInv'
  <1> DEFINE n == written + 1
             t == NewText
             e == eeprom'
  <1>1. /\ phase = "writing" /\ intact' = FALSE /\ phase' = "off"
        /\ mem' = mem /\ userDoc' = userDoc /\ written' = written
        /\ listening' = listening /\ address' = address /\ saved' = saved /\ readFailed' = readFailed
    BY DEF CutOff
  <1>2. /\ mem \in AllSettings /\ eeprom \in Seq(AllCells) /\ Len(eeprom) \in Nat /\ Len(eeprom) <= WriteCapacity + 1
        /\ written \in Nat
    BY DEF SettingsInv, SettingsTypes
  <1>3. /\ t \in Seq(Cells) /\ Len(t) \in Nat /\ Len(t) <= WriteCapacity + 1
        /\ mem.vendor = "valid" => t[1] = Cell("vendor", 1) /\ t[2] = Cell("vendor", 2)
    BY <1>2, NewTextCells
  <1>4. \/ e = eeprom
        \/ written < Len(t) /\ Grown(n)[n] # t[n] /\ e = [Grown(n) EXCEPT ![n] = Garbled]
    BY Zenon DEF CutOff
  <1> HIDE DEF t, e
  <1>5. SettingsFlags'
    BY <1>1, Zenon DEF SettingsInv, SettingsFlags
  <1>6. WriteInv' /\ SavedInv'
    BY <1>1 DEF WriteInv, SavedInv
  <1>7. CASE e = eeprom
    <2>1. SettingsTypes'
      BY <1>1, <1>7 DEF SettingsInv, SettingsTypes, Phases, e
    <2>2. VendorInv'
      BY <1>1, <1>7 DEF SettingsInv, VendorInv, e
    <2> QED
      BY <1>5, <1>6, <2>1, <2>2 DEF SettingsInv
  <1>8. CASE written < Len(t) /\ Grown(n)[n] # t[n] /\ e = [Grown(n) EXCEPT ![n] = Garbled]
    <2>1. n \in Nat /\ n >= 1 /\ n <= WriteCapacity + 1
      BY <1>2, <1>3, <1>8, SettingsAssumption
    <2> HIDE DEF n
    <2>2. Garbled \in AllCells
      BY DEF AllCells
    <2>3. /\ e \in Seq(AllCells) /\ Len(e) = (IF n > Len(eeprom) THEN n ELSE Len(eeprom))
          /\ \A i \in 1..Len(eeprom) : i # n => e[i] = eeprom[i]
          /\ n <= Len(eeprom) => Grown(n)[n] = eeprom[n]
      <3>1. Rewritten([Grown(n) EXCEPT ![n] = Garbled], n, Garbled)
        BY <1>2, <2>1, <2>2, CellWritten
      <3>2. Rewritten(e, n, Garbled)
        BY <1>8, <3>1, Zenon
      <3> QED
        BY <3>2 DEF Rewritten
    <2>4. Len(e) <= WriteCapacity + 1
      BY <1>2, <2>1, <2>3
    <2>5. SettingsTypes'
      BY <1>1, <2>3, <2>4 DEF SettingsInv, SettingsTypes, Phases, e
    <2>6. VendorInv'
      <3> SUFFICES ASSUME ~readFailed
                   PROVE  mem.vendor = "valid" /\ Len(e) >= 2 /\ e[1] = Cell("vendor", 1) /\ e[2] = Cell("vendor", 2)
        BY <1>1 DEF VendorInv, e
      <3>1. mem.vendor = "valid" /\ Len(eeprom) >= 2 /\ eeprom[1] = Cell("vendor", 1) /\ eeprom[2] = Cell("vendor", 2)
        BY DEF SettingsInv, VendorInv
      <3>2. 1 \in 1..Len(eeprom) /\ 2 \in 1..Len(eeprom)
        BY <1>2, <3>1
      <3>3. Len(e) >= 2
        BY <1>2, <2>1, <2>3, <3>1
      <3>4. n # 1 /\ n # 2
        BY <1>2, <1>3, <1>8, <2>3, <3>1
      <3> QED
        BY <2>3, <3>1, <3>2, <3>3, <3>4
    <2> QED
      BY <1>5, <1>6, <2>5, <2>6 DEF SettingsInv
  <1> QED
    BY <1>4, <1>7, <1>8

\* A new device.
LEMMA SettingsStart == SInit => SettingsInv
  <1> SUFFICES ASSUME SInit PROVE SettingsInv
    OBVIOUS
  <1>1. /\ mem = [vendor |-> "valid", net |-> DefaultNet, auth |-> TRUE, users |-> 2]
        /\ eeprom = Text(mem) /\ saved = mem /\ intact = TRUE
        /\ userDoc = FALSE /\ phase = "off" /\ written = 0 /\ readFailed = FALSE
        /\ listening = {} /\ address = "none"
    BY DEF SInit
  <1>2. mem \in AllSettings /\ mem.vendor = "valid" /\ mem.users = 2
    <2>1. DefaultNet \in NetChoices /\ "valid" \in Vendor /\ TRUE \in BOOLEAN /\ 2 \in Nat
      BY SettingsAssumption DEF Vendor
    <2>2. mem \in AllSettings
      BY <1>1, <2>1, Zenon DEF AllSettings
    <2>3. mem.vendor = "valid" /\ mem.users = 2
      BY <1>1, Zenon
    <2> QED
      BY <2>2, <2>3
  <1>3. Fitting(mem) = mem
    BY <1>2, FittingFits
  <1>4. /\ Text(mem) \in Seq(Cells) /\ Len(Text(mem)) \in Nat /\ Len(Text(mem)) >= 2
        /\ Len(Text(mem)) <= WriteCapacity + 1
        /\ Text(mem)[1] = Cell("vendor", 1) /\ Text(mem)[2] = Cell("vendor", 2)
    <2>1. NewText = Text(mem)
      BY <1>3 DEF NewText
    <2> QED
      BY <1>2, <2>1, NewTextCells
  <1>5. eeprom \in Seq(AllCells)
    <2>1. Cells \subseteq AllCells
      BY DEF AllCells
    <2>2. \A S, T : S \subseteq T => Seq(S) \subseteq Seq(T)
      OBVIOUS
    <2> QED
      BY <1>1, <1>4, <2>1, <2>2
  <1>6. SettingsTypes
    BY <1>1, <1>2, <1>4, <1>5, SettingsAssumption DEF SettingsTypes, Phases
  <1>7. SettingsFlags
    BY <1>1, Zenon DEF SettingsFlags
  <1>8. WriteInv
    BY <1>1 DEF WriteInv
  <1>9. SavedInv
    <2>1. eeprom = Text(Fitting(saved)) /\ Len(eeprom) \in Nat
      BY <1>1, <1>3, <1>4
    <2>2. Holds(eeprom, eeprom)
      BY <2>1 DEF Holds
    <2> QED
      BY <2>1, <2>2 DEF SavedInv
  <1>10. VendorInv
    BY <1>1, <1>2, <1>4 DEF VendorInv
  <1> QED
    BY <1>6, <1>7, <1>8, <1>9, <1>10 DEF SettingsInv

SettingsNext == Program \/ Client \/ Power

\* Every step keeps the invariant.
LEMMA SettingsStep ==
  ASSUME SettingsInv, [SettingsNext]_sVars
  PROVE  SettingsInv'
  <1>1. CASE \E d \in Documents : ReadEeprom(d)
    BY <1>1, ReadStep
  <1>2. CASE ReadEepromFails
    BY <1>2, ReadFailsStep
  <1>3. CASE (\E ok_ \in BOOLEAN : BeginDhcp(ok_)) \/ BeginServers \/ Restart
    BY <1>3, SetupStep
  <1>4. CASE (\E ok_ \in BOOLEAN : BeginStatic(ok_)) \/ ResetNetworkSettings
    BY <1>4, NetChangedStep
  <1>5. CASE \/ \E net \in NetChoices, auth \in BOOLEAN, users \in UserCounts, noWrite \in BOOLEAN :
                  SetSettings(net, auth, users, noWrite)
             \/ SetUserData
    BY <1>5, SetStep
  <1>6. CASE WriteCell
    BY <1>6, WriteCellStep
  <1>7. CASE WriteEnds
    BY <1>7, WriteEndsStep
  <1>8. CASE \E g \in BOOLEAN : CutOff(g)
    BY <1>8, CutOffStep
  <1>9. CASE UNCHANGED sVars
    <2>1. /\ eeprom' = eeprom /\ mem' = mem /\ userDoc' = userDoc /\ phase' = phase /\ written' = written
          /\ listening' = listening /\ address' = address /\ saved' = saved /\ intact' = intact
          /\ readFailed' = readFailed
      BY <1>9 DEF sVars
    <2>2. SettingsTypes'
      BY <2>1 DEF SettingsInv, SettingsTypes
    <2>3. SettingsFlags'
      BY <2>1, Zenon DEF SettingsInv, SettingsFlags
    <2>4. WriteInv'
      <3>1. NewText' = NewText
        BY <2>1 DEF NewText, Text, Fitting
      <3> QED
        BY <2>1, <3>1 DEF SettingsInv, WriteInv
    <2>5. SavedInv'
      <3>1. Text(Fitting(saved))' = Text(Fitting(saved))
        BY <2>1 DEF Text, Fitting
      <3>2. SavedInv
        BY DEF SettingsInv
      <3> QED
        BY <2>1, <3>1, <3>2, Zenon DEF SavedInv, Holds
    <2>6. VendorInv'
      BY <2>1 DEF SettingsInv, VendorInv
    <2> QED
      BY <2>2, <2>3, <2>4, <2>5, <2>6 DEF SettingsInv
  <1> QED
    BY <1>1, <1>2, <1>3, <1>4, <1>5, <1>6, <1>7, <1>8, <1>9, Zenon
    DEF SettingsNext, Program, Setup, Client, Power

\* The EEPROM, while nothing has been cut off, can be read as what was saved and as
\* nothing else, and no cell of it is garbled.
LEMMA SavedIsRead ==
  ASSUME SettingsInv, phase = "off", intact
  PROVE  /\ Fitting(saved) \in Documents /\ ReadAs(Fitting(saved))
         /\ \A d \in Documents : ReadAs(d) => d = Fitting(saved) /\ \A i \in DOMAIN Text(d) : eeprom[i] # Garbled
  <1> DEFINE s == Fitting(saved)
  <1>1. saved \in AllSettings /\ Holds(eeprom, Text(s))
    BY DEF SettingsInv, SettingsTypes, SavedInv
  <1>2. s \in Documents /\ s \in AllSettings
    BY <1>1, FittingFits
  <1> HIDE DEF s
  <1>3. Text(s) \in Seq(Cells)
    BY <1>2, TextCells
  <1>4. Documents \subseteq AllSettings
    <2>1. 0..WriteCapacity \subseteq Nat
      BY SettingsAssumption
    <2> QED
      BY <2>1 DEF Documents, AllSettings
  <1>5. ReadAs(s)
    BY <1>1, <1>3 DEF ReadAs, Holds
  <1>6. ASSUME NEW d \in Documents, ReadAs(d)
        PROVE  d = s /\ \A i \in DOMAIN Text(d) : eeprom[i] # Garbled
    <2>1. d \in AllSettings
      BY <1>4
    <2>2. Text(d) \in Seq(Cells)
      BY <2>1, TextCells
    <2>3. Reads(eeprom, Text(d))
      BY <1>6, <2>2 DEF ReadAs, Reads
    <2>4. d = s
      BY <1>1, <1>2, <2>1, <2>3, OneReading
    <2>5. \A i \in DOMAIN Text(s) : eeprom[i] = Text(s)[i] /\ Text(s)[i] \in Cells
      BY <1>1, <1>3 DEF Holds
    <2> QED
      BY <2>4, <2>5, NotGarbled
  <1> QED
    BY <1>2, <1>5, <1>6 DEF s

\* What a start makes of the EEPROM
StartRestores ==
  phase = "off" /\ phase' = "setup" /\ intact =>
    mem' = IF FitsReading(Fitting(saved)) THEN Fitting(saved) ELSE Defaults(PowerUp)

\* read_from_eeprom(): every start restores what was saved.
LEMMA RestoreStep ==
  ASSUME SettingsInv, [SettingsNext]_sVars
  PROVE  [StartRestores]_sVars
  <1> SUFFICES ASSUME SettingsNext, phase = "off", phase' = "setup", intact
               PROVE  mem' = IF FitsReading(Fitting(saved)) THEN Fitting(saved) ELSE Defaults(PowerUp)
    BY DEF StartRestores
  <1> DEFINE s == Fitting(saved)
  <1>1. /\ s \in Documents /\ ReadAs(s)
        /\ \A d \in Documents : ReadAs(d) => d = s /\ \A i \in DOMAIN Text(d) : eeprom[i] # Garbled
    BY SavedIsRead
  <1> HIDE DEF s
  <1>2. (\E d \in Documents : ReadEeprom(d)) \/ ReadEepromFails
    BY DEF SettingsNext, Program, Setup, Client, Power, BeginDhcp, BeginStatic, BeginServers, SetSettings,
           SetUserData, ResetNetworkSettings, WriteCell, WriteEnds, Restart, CutOff
  <1>3. ASSUME NEW d \in Documents, ReadEeprom(d)
        PROVE  FitsReading(s) /\ mem' = s
    <2>1. ReadAs(d) /\ FitsReading(d) /\ mem' = d
      BY <1>3, Zenon DEF ReadEeprom, LoadedFrom
    <2> QED
      BY <1>1, <2>1
  <1>4. CASE ReadEepromFails
    <2>1. ~FitsReading(s) /\ mem' = Defaults(PowerUp)
      BY <1>1, <1>4, Zenon DEF ReadEepromFails
    <2> QED
      BY <2>1 DEF s
  <1> QED
    BY <1>2, <1>3, <1>4 DEF s

\* The invariant says that vendor data are kept.
LEMMA VendorStays == SettingsInv => STypeOK /\ VendorIsKept
  <1> SUFFICES ASSUME SettingsInv PROVE STypeOK /\ VendorIsKept
    OBVIOUS
  <1>1. STypeOK
    <2>1. written \in 0..(WriteCapacity + 1)
      BY SettingsAssumption DEF SettingsInv, SettingsTypes
    <2>2. {userDoc, intact, readFailed} \subseteq BOOLEAN
      BY Zenon DEF SettingsInv, SettingsFlags
    <2> QED
      BY <2>1, <2>2, Zenon DEF SettingsInv, SettingsTypes, SettingsFlags, STypeOK, Phases
  <1>2. VendorIsKept
    <2> SUFFICES ASSUME ~readFailed PROVE mem.vendor = "valid" /\ SubSeq(eeprom, 1, 2) = VendorText("valid")
      BY DEF VendorIsKept
    <2>1. /\ mem.vendor = "valid" /\ Len(eeprom) >= 2 /\ eeprom[1] = Cell("vendor", 1) /\ eeprom[2] = Cell("vendor", 2)
          /\ eeprom \in Seq(AllCells)
      BY DEF SettingsInv, SettingsTypes, VendorInv
    <2>2. SubSeq(eeprom, 1, 2) = <<eeprom[1], eeprom[2]>>
      <3> DEFINE u == SubSeq(eeprom, 1, 2)
      <3>1. Len(eeprom) \in Nat /\ 1 \in 1..(Len(eeprom) + 1) /\ 2 \in 0..Len(eeprom)
        BY <2>1
      <3>2. u \in Seq(AllCells) /\ Len(u) = 2 /\ u[1] = eeprom[1] /\ u[2] = eeprom[2]
        BY <2>1, <3>1, SubSeqProperties
      <3> HIDE DEF u
      <3>3. u = <<u[1], u[2]>>
        BY <3>2
      <3> QED
        BY <3>2, <3>3 DEF u
    <2> QED
      BY <2>1, <2>2 DEF VendorText
  <1> QED
    BY <1>1, <1>2

\* read_from_eeprom(), write_to_eeprom(): whatever messages, restarts and losses of power
\* come, settings written completely are in force after the next start, and serial number
\* and default passwords are kept until a start fails to read them.
THEOREM SettingsKept == SSpec => SettingsAreKept
  <1>1. SInit => SettingsInv
    BY SettingsStart
  <1>2. SettingsInv /\ [SettingsNext]_sVars => SettingsInv'
    BY SettingsStep
  <1>3. SettingsInv /\ [SettingsNext]_sVars => [StartRestores]_sVars
    BY RestoreStep
  <1>4. SettingsInv => STypeOK /\ VendorIsKept
    BY VendorStays
  <1> QED
    BY <1>1, <1>2, <1>3, <1>4, PTL DEF SSpec, SettingsNext, SettingsAreKept, RestartRestores, StartRestores

-----------------------------------------------------------------------------
(* Plugins and base64: PluginIsAsSent *)

ByteValues == 0..255

\* Characters before the padding that n bytes take
SextetCount(n) == (n * 8 + 5) \div 6

\* The lengths of a text.
LEMMA TextLengths ==
  ASSUME NEW n \in Nat
  PROVE  LET s == SextetCount(n)
         IN  /\ s \in Nat /\ RoundUp4(s) \in Nat /\ s <= RoundUp4(s) /\ encode_size(n) = RoundUp4(s)
             /\ (s * 6) \div 8 = n /\ n <= (RoundUp4(s) \div 4) * 3
             /\ n > 0 => s >= 2 /\ (s - 1) - (s - 1) \div 4 <= n
             /\ n = 0 => s = 0
  <1> DEFINE q == n \div 3
             r == n % 3
  <1>1. q \in Nat /\ r \in 0..2 /\ n = 3 * q + r
    OBVIOUS
  <1> HIDE DEF q, r
  <1>2. CASE r = 0
    <2>1. n = 3 * q /\ n % 3 = 0
      BY <1>1, <1>2
    <2>2. SextetCount(n) = 4 * q
      BY <1>1, <2>1 DEF SextetCount
    <2>3. RoundUp4(4 * q) = 4 * q
      BY <1>1 DEF RoundUp4
    <2>4. encode_size(n) = 4 * q
      BY <1>1, <2>1 DEF encode_size
    <2>5. ((4 * q) * 6) \div 8 = 3 * q /\ (4 * q) \div 4 = q /\ (3 * q > 0 => 4 * q >= 2 /\ (4 * q - 1) \div 4 = q - 1)
      BY <1>1
    <2> QED
      BY <1>1, <2>1, <2>2, <2>3, <2>4, <2>5
  <1>3. CASE r = 1
    <2>1. n = 3 * q + 1 /\ n % 3 # 0
      BY <1>1, <1>3
    <2>2. SextetCount(n) = 4 * q + 2
      BY <1>1, <2>1 DEF SextetCount
    <2>3. RoundUp4(4 * q + 2) = 4 * q + 4
      BY <1>1 DEF RoundUp4
    <2>4. encode_size(n) = 4 * q + 4
      <3>1. (n * 8) \div 6 = 4 * q + 1
        BY <1>1, <2>1
      <3> QED
        BY <1>1, <2>1, <3>1 DEF encode_size, RoundUp4
    <2>5. ((4 * q + 2) * 6) \div 8 = 3 * q + 1 /\ (4 * q + 4) \div 4 = q + 1 /\ (4 * q + 1) \div 4 = q
      BY <1>1
    <2> QED
      BY <1>1, <2>1, <2>2, <2>3, <2>4, <2>5
  <1>4. CASE r = 2
    <2>1. n = 3 * q + 2 /\ n % 3 # 0
      BY <1>1, <1>4
    <2>2. SextetCount(n) = 4 * q + 3
      BY <1>1, <2>1 DEF SextetCount
    <2>3. RoundUp4(4 * q + 3) = 4 * q + 4
      BY <1>1 DEF RoundUp4
    <2>4. encode_size(n) = 4 * q + 4
      <3>1. (n * 8) \div 6 = 4 * q + 2
        BY <1>1, <2>1
      <3> QED
        BY <1>1, <2>1, <3>1 DEF encode_size, RoundUp4
    <2>5. ((4 * q + 3) * 6) \div 8 = 3 * q + 2 /\ (4 * q + 4) \div 4 = q + 1 /\ (4 * q + 2) \div 4 = q
      BY <1>1
    <2> QED
      BY <1>1, <2>1, <2>2, <2>3, <2>4, <2>5
  <1> QED
    BY <1>1, <1>2, <1>3, <1>4

\* The 64 characters: get_sextet_from_index() and get_index_from_sextet() invert each other,
\* and none of them is the padding.
LEMMA Characters ==
  ASSUME NEW d \in 0..63
  PROVE  /\ get_sextet_from_index(d) \in 43..122 /\ get_sextet_from_index(d) # padding
         /\ Known(get_sextet_from_index(d)) /\ get_index_from_sextet(get_sextet_from_index(d)) = d
         /\ d = 0 => get_sextet_from_index(d) = 65
  <1>1. CASE d \in 0..25
    BY <1>1, SMTT(40) DEF get_sextet_from_index, get_index_from_sextet, Known, padding
  <1>2. CASE d \in 26..51
    BY <1>2 DEF get_sextet_from_index, get_index_from_sextet, Known, padding
  <1>3. CASE d \in 52..61
    BY <1>3 DEF get_sextet_from_index, get_index_from_sextet, Known, padding
  <1>4. CASE d = 62
    BY <1>4 DEF get_sextet_from_index, get_index_from_sextet, Known, padding
  <1>5. CASE d = 63
    BY <1>5 DEF get_sextet_from_index, get_index_from_sextet, Known, padding
  <1> QED
    BY <1>1, <1>2, <1>3, <1>4, <1>5

\* A character of the alphabet is known by its index.
LEMMA OneCharacter ==
  ASSUME NEW d \in 0..63, NEW c \in 43..122, get_index_from_sextet(c) = d, d = 0 => c = 65
  PROVE  c = get_sextet_from_index(d)
  <1>1. CASE c \in 65..90
    <2>1. d = c - 65
      BY <1>1 DEF get_index_from_sextet
    <2> QED
      BY <1>1, <2>1 DEF get_sextet_from_index
  <1>2. CASE c \in 97..122
    <2>1. d = c - 97 + 26
      BY <1>2 DEF get_index_from_sextet
    <2> QED
      BY <1>2, <2>1 DEF get_sextet_from_index
  <1>3. CASE c \in 48..57
    <2>1. d = c - 48 + 52
      BY <1>3 DEF get_index_from_sextet
    <2> QED
      BY <1>3, <2>1 DEF get_sextet_from_index
  <1>4. CASE c = 43
    BY <1>4 DEF get_index_from_sextet, get_sextet_from_index
  <1>5. CASE c = 47
    BY <1>5 DEF get_index_from_sextet, get_sextet_from_index
  <1>6. CASE ~(c \in 65..90 \/ c \in 97..122 \/ c \in 48..57 \/ c = 43 \/ c = 47)
    <2>1. d = 0
      BY <1>6 DEF get_index_from_sextet
    <2> QED
      BY <1>6, <2>1
  <1> QED
    BY <1>1, <1>2, <1>3, <1>4, <1>5, <1>6

\* The alphabet of base64 is that of get_sextet_from_index().
LEMMA AlphabetIs ==
  ASSUME NEW d \in 0..63
  PROVE  Alphabet[d + 1] = get_sextet_from_index(d)
  <1> DEFINE P(c) == c # padding /\ get_index_from_sextet(c) = d /\ (d + 1 = 1 => c = 65)
             g == get_sextet_from_index(d)
  <1>1. d + 1 \in 1..64 /\ (d + 1) - 1 = d
    BY SMTT(40)
  <1>2. Alphabet[d + 1] = CHOOSE c \in 43..122 : P(c)
    BY <1>1 DEF Alphabet
  <1>3. \A c \in 43..122 : P(c) => c = g
    BY OneCharacter
  <1> HIDE DEF g
  <1>4. g \in 43..122 /\ g # padding /\ get_index_from_sextet(g) = d /\ (d = 0 => g = 65)
    BY Characters, Zenon DEF g
  <1>5. P(g)
    BY <1>4
  <1> HIDE DEF P
  <1> QED
    BY <1>2, <1>3, <1>4, <1>5 DEF g

\* What ByteAt() gives is a byte.
LEMMA ByteType ==
  ASSUME NEW bytes \in Seq(ByteValues), NEW j \in Nat
  PROVE  ByteAt(bytes, j) \in ByteValues
  <1>1. CASE j < Len(bytes)
    <2>1. j + 1 \in 1..Len(bytes)
      BY <1>1
    <2>2. bytes[j + 1] \in ByteValues
      BY <2>1, ElementOfSeq
    <2> QED
      BY <1>1, <2>2 DEF ByteAt
  <1>2. CASE ~(j < Len(bytes))
    BY <1>2 DEF ByteAt, ByteValues
  <1> QED
    BY <1>1, <1>2

\* The four sextets of three bytes.
LEMMA SextetsAre ==
  ASSUME NEW bytes, NEW q \in Nat
  PROVE  /\ Sextet(bytes, 4 * q) = ByteAt(bytes, 3 * q) \div 4
         /\ Sextet(bytes, 4 * q + 1) = (ByteAt(bytes, 3 * q) % 4) * 16 + ByteAt(bytes, 3 * q + 1) \div 16
         /\ Sextet(bytes, 4 * q + 2) = (ByteAt(bytes, 3 * q + 1) % 16) * 4 + ByteAt(bytes, 3 * q + 2) \div 64
         /\ Sextet(bytes, 4 * q + 3) = ByteAt(bytes, 3 * q + 2) % 64
  <1>1. /\ (4 * q) \div 4 = q /\ (4 * q + 1) \div 4 = q /\ (4 * q + 2) \div 4 = q /\ (4 * q + 3) \div 4 = q
        /\ (4 * q) % 4 = 0 /\ (4 * q + 1) % 4 = 1 /\ (4 * q + 2) % 4 = 2 /\ (4 * q + 3) % 4 = 3
        /\ q * 3 = 3 * q
    OBVIOUS
  <1>2. Sextet(bytes, 4 * q) = ByteAt(bytes, 3 * q) \div 4
    BY <1>1 DEF Sextet
  <1>3. Sextet(bytes, 4 * q + 1) = (ByteAt(bytes, 3 * q) % 4) * 16 + ByteAt(bytes, 3 * q + 1) \div 16
    BY <1>1 DEF Sextet
  <1>4. Sextet(bytes, 4 * q + 2) = (ByteAt(bytes, 3 * q + 1) % 16) * 4 + ByteAt(bytes, 3 * q + 2) \div 64
    BY <1>1 DEF Sextet
  <1>5. Sextet(bytes, 4 * q + 3) = ByteAt(bytes, 3 * q + 2) % 64
    BY <1>1 DEF Sextet
  <1> QED
    BY <1>2, <1>3, <1>4, <1>5

\* A sextet is one of four in a group.
LEMMA Groups ==
  ASSUME NEW k \in Nat
  PROVE  \E q \in Nat : k = 4 * q \/ k = 4 * q + 1 \/ k = 4 * q + 2 \/ k = 4 * q + 3
  <1>1. k \div 4 \in Nat /\ k % 4 \in 0..3 /\ k = 4 * (k \div 4) + (k % 4)
    OBVIOUS
  <1> QED
    BY <1>1

\* Sextets are below 64.
LEMMA SextetType ==
  ASSUME NEW bytes \in Seq(ByteValues), NEW k \in Nat
  PROVE  Sextet(bytes, k) \in 0..63
  <1>1. PICK q \in Nat : k = 4 * q \/ k = 4 * q + 1 \/ k = 4 * q + 2 \/ k = 4 * q + 3
    BY Groups
  <1> DEFINE a == ByteAt(bytes, 3 * q)
             b == ByteAt(bytes, 3 * q + 1)
             c == ByteAt(bytes, 3 * q + 2)
  <1>2. a \in ByteValues /\ b \in ByteValues /\ c \in ByteValues
    BY ByteType
  <1>3. /\ Sextet(bytes, 4 * q) = a \div 4
        /\ Sextet(bytes, 4 * q + 1) = (a % 4) * 16 + b \div 16
        /\ Sextet(bytes, 4 * q + 2) = (b % 16) * 4 + c \div 64
        /\ Sextet(bytes, 4 * q + 3) = c % 64
    BY SextetsAre
  <1> HIDE DEF a, b, c
  <1>4. /\ a \div 4 \in 0..63 /\ (a % 4) * 16 + b \div 16 \in 0..63
        /\ (b % 16) * 4 + c \div 64 \in 0..63 /\ c % 64 \in 0..63
    BY <1>2 DEF ByteValues
  <1> QED
    BY <1>1, <1>3, <1>4

\* The parts of a byte that sextets take, bit by bit.
LEMMA ByteParts ==
  ASSUME NEW a \in ByteValues
  PROVE  LET x(w) == (a \div w) % 2
         IN  /\ a \div 4 = x(128) * 32 + x(64) * 16 + x(32) * 8 + x(16) * 4 + x(8) * 2 + x(4)
             /\ a % 4 = x(2) * 2 + x(1)
             /\ a \div 16 = x(128) * 8 + x(64) * 4 + x(32) * 2 + x(16)
             /\ a % 16 = x(8) * 8 + x(4) * 4 + x(2) * 2 + x(1)
             /\ a \div 64 = x(128) * 2 + x(64)
             /\ a % 64 = x(32) * 32 + x(16) * 16 + x(8) * 8 + x(4) * 4 + x(2) * 2 + x(1)
  <1> DEFINE x(w) == (a \div w) % 2
  <1>1. /\ x(128) \in 0..1 /\ x(64) \in 0..1 /\ x(32) \in 0..1 /\ x(16) \in 0..1
        /\ x(8) \in 0..1 /\ x(4) \in 0..1 /\ x(2) \in 0..1 /\ x(1) \in 0..1
    BY DEF ByteValues
  <1>2. a = x(128) * 128 + x(64) * 64 + x(32) * 32 + x(16) * 16 + x(8) * 8 + x(4) * 4 + x(2) * 2 + x(1)
    <2> DEFINE d(w) == a \div w
    <2>1. d(64) = 2 * d(128) + x(64) /\ d(128) = x(128)
      BY DEF ByteValues
    <2>2. d(32) = 2 * d(64) + x(32) /\ d(16) = 2 * d(32) + x(16)
      BY DEF ByteValues
    <2>3. d(8) = 2 * d(16) + x(8) /\ d(4) = 2 * d(8) + x(4)
      BY DEF ByteValues
    <2>4. d(2) = 2 * d(4) + x(2) /\ a = 2 * d(2) + x(1)
      BY DEF ByteValues
    <2>5. /\ d(128) \in Int /\ d(64) \in Int /\ d(32) \in Int /\ d(16) \in Int
          /\ d(8) \in Int /\ d(4) \in Int /\ d(2) \in Int
      BY DEF ByteValues
    <2>7. \A y \in 0..1 : y \in Int
      OBVIOUS
    <2> HIDE DEF x, d
    <2>8. /\ x(128) \in Int /\ x(64) \in Int /\ x(32) \in Int /\ x(16) \in Int
          /\ x(8) \in Int /\ x(4) \in Int /\ x(2) \in Int /\ x(1) \in Int
      BY <1>1, <2>7, Zenon
    <2>9. 2 * d(2) + x(1) = x(128) * 128 + x(64) * 64 + x(32) * 32 + x(16) * 16 + x(8) * 8 + x(4) * 4 + x(2) * 2 + x(1)
      <3> DEFINE y1 == x(128)
                 y2 == x(64)
                 y3 == x(32)
                 y4 == x(16)
                 y5 == x(8)
                 y6 == x(4)
                 y7 == x(2)
                 y8 == x(1)
                 a1 == d(128)
                 a2 == d(64)
                 a3 == d(32)
                 a4 == d(16)
                 a5 == d(8)
                 a6 == d(4)
                 a7 == d(2)
      <3>1. /\ y1 \in Int /\ y2 \in Int /\ y3 \in Int /\ y4 \in Int /\ y5 \in Int /\ y6 \in Int /\ y7 \in Int /\ y8 \in Int
            /\ a1 \in Int /\ a2 \in Int /\ a3 \in Int /\ a4 \in Int /\ a5 \in Int /\ a6 \in Int /\ a7 \in Int
        BY <2>5, <2>8
      <3>2. /\ a1 = y1 /\ a2 = 2 * a1 + y2 /\ a3 = 2 * a2 + y3 /\ a4 = 2 * a3 + y4
            /\ a5 = 2 * a4 + y5 /\ a6 = 2 * a5 + y6 /\ a7 = 2 * a6 + y7
        BY <2>1, <2>2, <2>3, <2>4, Zenon
      <3> HIDE DEF y1, y2, y3, y4, y5, y6, y7, y8, a1, a2, a3, a4, a5, a6, a7
      <3>3. 2 * a7 + y8 = y1 * 128 + y2 * 64 + y3 * 32 + y4 * 16 + y5 * 8 + y6 * 4 + y7 * 2 + y8
        BY <3>1, <3>2
      <3> QED
        BY <3>3 DEF y1, y2, y3, y4, y5, y6, y7, y8, a1, a2, a3, a4, a5, a6, a7
    <2> QED
      BY <2>4, <2>9, Zenon
  <1> HIDE DEF x
  <1>3. \A x1, x2, x3, x4, x5, x6, x7, x8 \in 0..1 :
          LET y == x1 * 128 + x2 * 64 + x3 * 32 + x4 * 16 + x5 * 8 + x6 * 4 + x7 * 2 + x8
          IN  /\ y \div 4 = x1 * 32 + x2 * 16 + x3 * 8 + x4 * 4 + x5 * 2 + x6 /\ y % 4 = x7 * 2 + x8
              /\ y \div 16 = x1 * 8 + x2 * 4 + x3 * 2 + x4 /\ y % 16 = x5 * 8 + x6 * 4 + x7 * 2 + x8
              /\ y \div 64 = x1 * 2 + x2 /\ y % 64 = x3 * 32 + x4 * 16 + x5 * 8 + x6 * 4 + x7 * 2 + x8
    OBVIOUS
  <1> QED
    BY <1>1, <1>2, <1>3 DEF x

\* Bit j of a text of bytes, from 0; behind the last one, zero
BitAt(bytes, j) == IF j + 1 <= Len(Bits(bytes)) THEN Bits(bytes)[j + 1] ELSE 0

\* Bits are those of their byte.
LEMMA BitsAre ==
  ASSUME NEW bytes \in Seq(ByteValues), NEW m \in Nat, NEW p \in 0..7
  PROVE  BitAt(bytes, 8 * m + p) = (ByteAt(bytes, m) \div Weight[p + 1]) % 2
  <1> DEFINE n == Len(bytes)
  <1>1. n \in Nat
    OBVIOUS
  <1>2. Len(Bits(bytes)) = n * 8
    <2>1. n * 8 \in Nat
      BY <1>1
    <2> QED
      BY <2>1 DEF Bits
  <1>3. ((8 * m + p + 1) - 1) \div 8 = m /\ ((8 * m + p + 1) - 1) % 8 = p
    OBVIOUS
  <1>4. Weight[p + 1] \in {1, 2, 4, 8, 16, 32, 64, 128}
    BY DEF Weight
  <1>5. CASE m < n
    <2>1. 8 * m + p + 1 <= n * 8 /\ 8 * m + p + 1 \in 1..(n * 8)
      BY <1>1, <1>5
    <2>2. Bits(bytes)[8 * m + p + 1] = (bytes[m + 1] \div Weight[p + 1]) % 2
      BY <1>3, <2>1 DEF Bits
    <2> QED
      BY <1>2, <1>5, <2>1, <2>2 DEF BitAt, ByteAt
  <1>6. CASE ~(m < n)
    <2>1. ~(8 * m + p + 1 <= n * 8)
      BY <1>1, <1>6
    <2>2. \A w \in {1, 2, 4, 8, 16, 32, 64, 128} : (0 \div w) % 2 = 0
      OBVIOUS
    <2> QED
      BY <1>2, <1>4, <1>6, <2>1, <2>2 DEF BitAt, ByteAt
  <1> QED
    BY <1>5, <1>6

\* Six bits from bit j on, as a number
SixBits(bytes, j) ==
  BitAt(bytes, j) * 32 + BitAt(bytes, j + 1) * 16 + BitAt(bytes, j + 2) * 8
    + BitAt(bytes, j + 3) * 4 + BitAt(bytes, j + 4) * 2 + BitAt(bytes, j + 5)

\* A digit is six bits.
LEMMA DigitIs ==
  ASSUME NEW bytes \in Seq(ByteValues), NEW k \in Nat
  PROVE  DigitAt(Bits(bytes), k + 1) = SixBits(bytes, 6 * k)
  <1>1. \A i \in 1..6 : ((k + 1) - 1) * 6 + i = 6 * k + (i - 1) + 1
    OBVIOUS
  <1>2. /\ ((k + 1) - 1) * 6 + 1 = 6 * k + 1 /\ ((k + 1) - 1) * 6 + 2 = 6 * k + 1 + 1
        /\ ((k + 1) - 1) * 6 + 3 = 6 * k + 2 + 1 /\ ((k + 1) - 1) * 6 + 4 = 6 * k + 3 + 1
        /\ ((k + 1) - 1) * 6 + 5 = 6 * k + 4 + 1 /\ ((k + 1) - 1) * 6 + 6 = 6 * k + 5 + 1
    OBVIOUS
  <1> QED
    BY <1>2 DEF DigitAt, SixBits, BitAt

\* The bits of a byte from bit j on
BitsFrom(bytes, j, a) ==
  /\ BitAt(bytes, j) = (a \div 128) % 2 /\ BitAt(bytes, j + 1) = (a \div 64) % 2
  /\ BitAt(bytes, j + 2) = (a \div 32) % 2 /\ BitAt(bytes, j + 3) = (a \div 16) % 2
  /\ BitAt(bytes, j + 4) = (a \div 8) % 2 /\ BitAt(bytes, j + 5) = (a \div 4) % 2
  /\ BitAt(bytes, j + 6) = (a \div 2) % 2 /\ BitAt(bytes, j + 7) = (a \div 1) % 2

\* The bits of a byte by their places.
LEMMA BitsOfByte ==
  ASSUME NEW bytes \in Seq(ByteValues), NEW m \in Nat
  PROVE  BitsFrom(bytes, 8 * m, ByteAt(bytes, m))
  <1> DEFINE j == 8 * m
  <1>1. \A p \in 0..7 : BitAt(bytes, j + p) = (ByteAt(bytes, m) \div Weight[p + 1]) % 2
    BY BitsAre
  <1>2. /\ Weight[0 + 1] = 128 /\ Weight[1 + 1] = 64 /\ Weight[2 + 1] = 32 /\ Weight[3 + 1] = 16
        /\ Weight[4 + 1] = 8 /\ Weight[5 + 1] = 4 /\ Weight[6 + 1] = 2 /\ Weight[7 + 1] = 1
    BY DEF Weight
  <1>3. j + 0 = j
    OBVIOUS
  <1> HIDE DEF j
  <1>4. \A p \in 0..7 : p \in {0, 1, 2, 3, 4, 5, 6, 7}
    OBVIOUS
  <1>5. BitsFrom(bytes, j, ByteAt(bytes, m))
    BY <1>1, <1>2, <1>3 DEF BitsFrom
  <1> QED
    BY <1>5 DEF j

\* base64 by definition: a sextet is the six bits in its place.
LEMMA SextetIsBits ==
  ASSUME NEW bytes \in Seq(ByteValues), NEW k \in Nat
  PROVE  Sextet(bytes, k) = SixBits(bytes, 6 * k)
  <1>1. PICK q \in Nat : k = 4 * q \/ k = 4 * q + 1 \/ k = 4 * q + 2 \/ k = 4 * q + 3
    BY Groups
  <1> DEFINE a == ByteAt(bytes, 3 * q)
             b == ByteAt(bytes, 3 * q + 1)
             c == ByteAt(bytes, 3 * q + 2)
             j == 24 * q
             B(i) == BitAt(bytes, j + i)
  <1>2. a \in ByteValues /\ b \in ByteValues /\ c \in ByteValues
    BY ByteType
  <1>3. /\ Sextet(bytes, 4 * q) = a \div 4
        /\ Sextet(bytes, 4 * q + 1) = (a % 4) * 16 + b \div 16
        /\ Sextet(bytes, 4 * q + 2) = (b % 16) * 4 + c \div 64
        /\ Sextet(bytes, 4 * q + 3) = c % 64
    BY SextetsAre
  <1>4. /\ B(0) = (a \div 128) % 2 /\ B(1) = (a \div 64) % 2 /\ B(2) = (a \div 32) % 2 /\ B(3) = (a \div 16) % 2
        /\ B(4) = (a \div 8) % 2 /\ B(5) = (a \div 4) % 2 /\ B(6) = (a \div 2) % 2 /\ B(7) = (a \div 1) % 2
    <2>1. j = 8 * (3 * q) /\ 3 * q \in Nat /\ j + 0 = j
      OBVIOUS
    <2>2. BitsFrom(bytes, j, a)
      BY <2>1, BitsOfByte
    <2> HIDE DEF a, j
    <2> QED
      BY <2>1, <2>2 DEF BitsFrom
  <1>5. /\ B(8) = (b \div 128) % 2 /\ B(9) = (b \div 64) % 2 /\ B(10) = (b \div 32) % 2 /\ B(11) = (b \div 16) % 2
        /\ B(12) = (b \div 8) % 2 /\ B(13) = (b \div 4) % 2 /\ B(14) = (b \div 2) % 2 /\ B(15) = (b \div 1) % 2
    <2>1. j + 8 = 8 * (3 * q + 1) /\ 3 * q + 1 \in Nat
      OBVIOUS
    <2>3. BitsFrom(bytes, j + 8, b)
      BY <2>1, BitsOfByte
    <2>2. /\ (j + 8) + 1 = j + 9 /\ (j + 8) + 2 = j + 10 /\ (j + 8) + 3 = j + 11 /\ (j + 8) + 4 = j + 12
          /\ (j + 8) + 5 = j + 13 /\ (j + 8) + 6 = j + 14 /\ (j + 8) + 7 = j + 15
      OBVIOUS
    <2> HIDE DEF b, j
    <2> QED
      BY <2>2, <2>3 DEF BitsFrom
  <1>6. /\ B(16) = (c \div 128) % 2 /\ B(17) = (c \div 64) % 2 /\ B(18) = (c \div 32) % 2 /\ B(19) = (c \div 16) % 2
        /\ B(20) = (c \div 8) % 2 /\ B(21) = (c \div 4) % 2 /\ B(22) = (c \div 2) % 2 /\ B(23) = (c \div 1) % 2
    <2>1. j + 16 = 8 * (3 * q + 2) /\ 3 * q + 2 \in Nat
      OBVIOUS
    <2>3. BitsFrom(bytes, j + 16, c)
      BY <2>1, BitsOfByte
    <2>2. /\ (j + 16) + 1 = j + 17 /\ (j + 16) + 2 = j + 18 /\ (j + 16) + 3 = j + 19 /\ (j + 16) + 4 = j + 20
          /\ (j + 16) + 5 = j + 21 /\ (j + 16) + 6 = j + 22 /\ (j + 16) + 7 = j + 23
      OBVIOUS
    <2> HIDE DEF c, j
    <2> QED
      BY <2>2, <2>3 DEF BitsFrom
  <1>7. /\ SixBits(bytes, 6 * (4 * q)) = B(0) * 32 + B(1) * 16 + B(2) * 8 + B(3) * 4 + B(4) * 2 + B(5)
        /\ SixBits(bytes, 6 * (4 * q + 1)) = B(6) * 32 + B(7) * 16 + B(8) * 8 + B(9) * 4 + B(10) * 2 + B(11)
        /\ SixBits(bytes, 6 * (4 * q + 2)) = B(12) * 32 + B(13) * 16 + B(14) * 8 + B(15) * 4 + B(16) * 2 + B(17)
        /\ SixBits(bytes, 6 * (4 * q + 3)) = B(18) * 32 + B(19) * 16 + B(20) * 8 + B(21) * 4 + B(22) * 2 + B(23)
    <2>1. 6 * (4 * q) = j + 0 /\ 6 * (4 * q + 1) = j + 6 /\ 6 * (4 * q + 2) = j + 12 /\ 6 * (4 * q + 3) = j + 18
      OBVIOUS
    <2>2. \A i \in {0, 6, 12, 18} : /\ (j + i) + 1 = j + (i + 1) /\ (j + i) + 2 = j + (i + 2) /\ (j + i) + 3 = j + (i + 3)
                                    /\ (j + i) + 4 = j + (i + 4) /\ (j + i) + 5 = j + (i + 5)
      OBVIOUS
    <2> QED
      BY <2>1, <2>2 DEF SixBits
  <1> HIDE DEF a, b, c, j, B
  <1>8. /\ a \div 4 = B(0) * 32 + B(1) * 16 + B(2) * 8 + B(3) * 4 + B(4) * 2 + B(5) /\ a % 4 = B(6) * 2 + B(7)
    BY <1>2, <1>4, ByteParts
  <1>9. b \div 16 = B(8) * 8 + B(9) * 4 + B(10) * 2 + B(11) /\ b % 16 = B(12) * 8 + B(13) * 4 + B(14) * 2 + B(15)
    BY <1>2, <1>5, ByteParts
  <1>10. c \div 64 = B(16) * 2 + B(17) /\ c % 64 = B(18) * 32 + B(19) * 16 + B(20) * 8 + B(21) * 4 + B(22) * 2 + B(23)
    BY <1>2, <1>6, ByteParts
  <1>11. /\ B(6) \in Int /\ B(7) \in Int /\ B(8) \in Int /\ B(9) \in Int /\ B(10) \in Int /\ B(11) \in Int
         /\ B(12) \in Int /\ B(13) \in Int /\ B(14) \in Int /\ B(15) \in Int /\ B(16) \in Int /\ B(17) \in Int
    <2>1. \A y \in ByteValues : /\ (y \div 128) % 2 \in Int /\ (y \div 64) % 2 \in Int /\ (y \div 32) % 2 \in Int
                           /\ (y \div 16) % 2 \in Int /\ (y \div 8) % 2 \in Int /\ (y \div 4) % 2 \in Int
                           /\ (y \div 2) % 2 \in Int /\ (y \div 1) % 2 \in Int
      BY DEF ByteValues
    <2> QED
      BY <1>2, <1>4, <1>5, <1>6, <2>1, SMTT(40)
  <1>12. CASE k = 4 * q
    BY <1>3, <1>7, <1>8, <1>12
  <1>13. CASE k = 4 * q + 1
    <2>1. Sextet(bytes, k) = (B(6) * 2 + B(7)) * 16 + (B(8) * 8 + B(9) * 4 + B(10) * 2 + B(11))
      BY <1>3, <1>8, <1>9, <1>13, Zenon
    <2>2. (B(6) * 2 + B(7)) * 16 + (B(8) * 8 + B(9) * 4 + B(10) * 2 + B(11))
            = B(6) * 32 + B(7) * 16 + B(8) * 8 + B(9) * 4 + B(10) * 2 + B(11)
      <3> DEFINE y1 == B(6)
                 y2 == B(7)
                 y3 == B(8)
                 y4 == B(9)
                 y5 == B(10)
                 y6 == B(11)
      <3>1. y1 \in Int /\ y2 \in Int /\ y3 \in Int /\ y4 \in Int /\ y5 \in Int /\ y6 \in Int
        BY <1>11
      <3> HIDE DEF y1, y2, y3, y4, y5, y6
      <3>2. (y1 * 2 + y2) * 16 + (y3 * 8 + y4 * 4 + y5 * 2 + y6)
              = y1 * 32 + y2 * 16 + y3 * 8 + y4 * 4 + y5 * 2 + y6
        BY <3>1
      <3> QED
        BY <3>2 DEF y1, y2, y3, y4, y5, y6
    <2> QED
      BY <1>7, <1>13, <2>1, <2>2, Zenon
  <1>14. CASE k = 4 * q + 2
    <2>1. Sextet(bytes, k) = (B(12) * 8 + B(13) * 4 + B(14) * 2 + B(15)) * 4 + (B(16) * 2 + B(17))
      BY <1>3, <1>9, <1>10, <1>14, Zenon
    <2>2. (B(12) * 8 + B(13) * 4 + B(14) * 2 + B(15)) * 4 + (B(16) * 2 + B(17))
            = B(12) * 32 + B(13) * 16 + B(14) * 8 + B(15) * 4 + B(16) * 2 + B(17)
      <3> DEFINE y1 == B(12)
                 y2 == B(13)
                 y3 == B(14)
                 y4 == B(15)
                 y5 == B(16)
                 y6 == B(17)
      <3>1. y1 \in Int /\ y2 \in Int /\ y3 \in Int /\ y4 \in Int /\ y5 \in Int /\ y6 \in Int
        BY <1>11
      <3> HIDE DEF y1, y2, y3, y4, y5, y6
      <3>2. (y1 * 8 + y2 * 4 + y3 * 2 + y4) * 4 + (y5 * 2 + y6)
              = y1 * 32 + y2 * 16 + y3 * 8 + y4 * 4 + y5 * 2 + y6
        BY <3>1
      <3> QED
        BY <3>2 DEF y1, y2, y3, y4, y5, y6
    <2> QED
      BY <1>7, <1>14, <2>1, <2>2, Zenon
  <1>15. CASE k = 4 * q + 3
    BY <1>3, <1>7, <1>10, <1>15
  <1> QED
    BY <1>1, <1>12, <1>13, <1>14, <1>15


\* The text of some bytes, character by character.
LEMMA EncodeIs ==
  ASSUME NEW bytes \in Seq(ByteValues)
  PROVE  LET s == SextetCount(Len(bytes))
             t == encode(bytes)
         IN  /\ s \in Nat /\ t \in Seq(43..122) /\ Len(t) \in Nat /\ Len(t) = RoundUp4(s) /\ s <= Len(t)
             /\ \A k \in 1..s : t[k] = get_sextet_from_index(Sextet(bytes, k - 1)) /\ t[k] # padding
             /\ \A k \in 1..Len(t) : k > s => t[k] = padding
  <1> DEFINE n == Len(bytes)
             s == SextetCount(n)
             t == encode(bytes)
             ch(k) == IF k <= s THEN get_sextet_from_index(Sextet(bytes, k - 1)) ELSE padding
             l == RoundUp4(s)
  <1>1. n \in Nat
    OBVIOUS
  <1>2. s \in Nat /\ l \in Nat /\ s <= l /\ encode_size(n) = l
    BY <1>1, TextLengths
  <1>3. \A k \in 1..s : get_sextet_from_index(Sextet(bytes, k - 1)) \in 43..122
                        /\ get_sextet_from_index(Sextet(bytes, k - 1)) # padding
    <2> TAKE k \in 1..s
    <2>1. k - 1 \in Nat
      BY <1>2
    <2>2. Sextet(bytes, k - 1) \in 0..63
      BY <2>1, SextetType
    <2> QED
      BY <2>2, Characters
  <1>4. t = [k \in 1..l |-> ch(k)]
    BY <1>2 DEF encode, SextetCount
  <1> HIDE DEF n, s, l, t
  <1>5. \A k \in 1..l : ch(k) \in 43..122
    BY <1>2, <1>3 DEF padding
  <1> HIDE DEF ch
  <1>6. t \in Seq(43..122) /\ Len(t) = l /\ \A k \in 1..l : t[k] = ch(k)
    <2>1. t \in [1..l -> 43..122]
      BY <1>4, <1>5
    <2>2. \A k \in 1..l : t[k] = ch(k)
      BY <1>4
    <2> HIDE DEF t
    <2> QED
      BY <1>2, <2>1, <2>2
  <1>7. \A k \in 1..s : k \in 1..l
    BY <1>2
  <1>8. \A k \in 1..s : t[k] = get_sextet_from_index(Sextet(bytes, k - 1))
    BY <1>2, <1>6, <1>7 DEF ch
  <1>9. \A k \in 1..l : k > s => t[k] = padding
    BY <1>2, <1>6 DEF ch
  <1> QED
    BY <1>2, <1>3, <1>6, <1>8, <1>9 DEF n, s, l, t

\* What stands before the first padding is a text.
LEMMA SignificantType ==
  ASSUME NEW S, NEW t \in Seq(S)
  PROVE  Significant(t) \in Seq(S) /\ Len(Significant(t)) \in Nat
  <1> DEFINE I == {i \in DOMAIN t : \A j \in 1..i : t[j] # padding}
             c == Cardinality(I)
             n == Len(t)
  <1>1. n \in Nat /\ DOMAIN t = 1..n
    OBVIOUS
  <1>2. I \subseteq 1..n
    BY <1>1
  <1> HIDE DEF I
  <1>3. IsFiniteSet(1..n) /\ Cardinality(1..n) = n
    <2>1. 1 \in Int /\ n \in Int
      BY <1>1
    <2>2. IsFiniteSet(1..n) /\ Cardinality(1..n) = IF 1 > n THEN 0 ELSE n - 1 + 1
      BY <2>1, FS_Interval
    <2> QED
      BY <1>1, <2>2
  <1>4. c \in Nat /\ c <= n
    <2>1. IsFiniteSet(I) /\ Cardinality(I) <= Cardinality(1..n)
      BY <1>2, <1>3, FS_Subset
    <2> QED
      BY <1>3, <2>1, FS_CardinalityType
  <1> HIDE DEF c
  <1>5. \A i \in 1..c : t[i] \in S
    BY <1>1, <1>4
  <1>6. SubSeq(t, 1, c) \in Seq(S)
    BY <1>4, <1>5, SubSeqProperties
  <1>7. Significant(t) = SubSeq(t, 1, c)
    BY DEF Significant, I, c
  <1> QED
    BY <1>6, <1>7

\* The characters before the padding of a text that has it at its end only.
LEMMA SignificantIs ==
  ASSUME NEW S, NEW t \in Seq(S), NEW s \in Nat, s <= Len(t),
         \A k \in 1..s : t[k] # padding, \A k \in 1..Len(t) : k > s => t[k] = padding
  PROVE  Len(Significant(t)) = s /\ \A k \in 1..s : Significant(t)[k] = t[k]
  <1> DEFINE I == {i \in DOMAIN t : \A j \in 1..i : t[j] # padding}
  <1>1. Len(t) \in Nat /\ DOMAIN t = 1..Len(t)
    OBVIOUS
  <1>2. I = 1..s
    <2>1. ASSUME NEW i \in 1..s PROVE i \in I
      <3>1. i \in DOMAIN t /\ \A j \in 1..i : j \in 1..s
        BY <1>1
      <3> QED
        BY <3>1
    <2>2. ASSUME NEW i \in I PROVE i \in 1..s
      <3>1. i \in 1..Len(t) /\ i \in 1..i
        BY <1>1
      <3>2. t[i] # padding
        BY <3>1
      <3>3. ~(i > s)
        BY <3>1, <3>2
      <3> QED
        BY <3>1, <3>3
    <2> QED
      BY <2>1, <2>2
  <1> HIDE DEF I
  <1>3. Cardinality(I) = s
    <2>1. 1 \in Int /\ s \in Int
      OBVIOUS
    <2>2. Cardinality(1..s) = IF 1 > s THEN 0 ELSE s - 1 + 1
      BY <2>1, FS_Interval
    <2> QED
      BY <1>2, <2>2
  <1>4. Significant(t) = SubSeq(t, 1, s)
    BY <1>3 DEF Significant, I
  <1>5. \A i \in 1..s : t[i] \in S
    BY <1>1
  <1>6. /\ Len(SubSeq(t, 1, s)) = IF 1 <= s THEN s - 1 + 1 ELSE 0
        /\ \A i \in 1..(s - 1 + 1) : SubSeq(t, 1, s)[i] = t[1 + i - 1]
    BY <1>5, SubSeqProperties
  <1>7. s - 1 + 1 = s /\ \A i \in 1..s : 1 + i - 1 = i
    OBVIOUS
  <1>8. \A i \in 1..s : SubSeq(t, 1, s)[i] = t[i]
    BY <1>6, <1>7
  <1> QED
    BY <1>4, <1>6, <1>7, <1>8

\* An index is below 64, whatever the character.
LEMMA IndexType ==
  ASSUME NEW c
  PROVE  get_index_from_sextet(c) \in 0..63
  BY DEF get_index_from_sextet

\* The three octets of four characters.
LEMMA OctetsAre ==
  ASSUME NEW text, NEW q \in Nat
  PROVE  /\ Octet(text, 3 * q) = IndexAt(text, 4 * q) * 4 + IndexAt(text, 4 * q + 1) \div 16
         /\ Octet(text, 3 * q + 1) = (IndexAt(text, 4 * q + 1) % 16) * 16 + IndexAt(text, 4 * q + 2) \div 4
         /\ Octet(text, 3 * q + 2) = (IndexAt(text, 4 * q + 2) % 4) * 64 + IndexAt(text, 4 * q + 3)
  <1>1. /\ (3 * q) \div 3 = q /\ (3 * q + 1) \div 3 = q /\ (3 * q + 2) \div 3 = q
        /\ (3 * q) % 3 = 0 /\ (3 * q + 1) % 3 = 1 /\ (3 * q + 2) % 3 = 2 /\ q * 4 = 4 * q
    OBVIOUS
  <1>2. Octet(text, 3 * q) = IndexAt(text, 4 * q) * 4 + IndexAt(text, 4 * q + 1) \div 16
    BY <1>1 DEF Octet
  <1>3. Octet(text, 3 * q + 1) = (IndexAt(text, 4 * q + 1) % 16) * 16 + IndexAt(text, 4 * q + 2) \div 4
    BY <1>1 DEF Octet
  <1>4. Octet(text, 3 * q + 2) = (IndexAt(text, 4 * q + 2) % 4) * 64 + IndexAt(text, 4 * q + 3)
    BY <1>1 DEF Octet
  <1> QED
    BY <1>2, <1>3, <1>4

\* An octet is one of three in a group.
LEMMA Triples ==
  ASSUME NEW k \in Nat
  PROVE  \E q \in Nat : k = 3 * q \/ k = 3 * q + 1 \/ k = 3 * q + 2
  <1>1. k \div 3 \in Nat /\ k % 3 \in 0..2 /\ k = 3 * (k \div 3) + (k % 3)
    OBVIOUS
  <1> QED
    BY <1>1

\* Octets are bytes.
LEMMA OctetType ==
  ASSUME NEW text, NEW k \in Nat
  PROVE  Octet(text, k) \in ByteValues
  <1>1. PICK q \in Nat : k = 3 * q \/ k = 3 * q + 1 \/ k = 3 * q + 2
    BY Triples
  <1> DEFINE a == IndexAt(text, 4 * q)
             b == IndexAt(text, 4 * q + 1)
             c == IndexAt(text, 4 * q + 2)
             d == IndexAt(text, 4 * q + 3)
  <1>2. a \in 0..63 /\ b \in 0..63 /\ c \in 0..63 /\ d \in 0..63
    BY IndexType DEF IndexAt
  <1>3. /\ Octet(text, 3 * q) = a * 4 + b \div 16
        /\ Octet(text, 3 * q + 1) = (b % 16) * 16 + c \div 4
        /\ Octet(text, 3 * q + 2) = (c % 4) * 64 + d
    BY OctetsAre
  <1> HIDE DEF a, b, c, d
  <1>4. /\ a * 4 + b \div 16 \in 0..255 /\ (b % 16) * 16 + c \div 4 \in 0..255 /\ (c % 4) * 64 + d \in 0..255
    BY <1>2
  <1> QED
    BY <1>1, <1>3, <1>4 DEF ByteValues

\* What is decoded are bytes.
LEMMA DecodeType ==
  ASSUME NEW S, NEW text \in Seq(S), NEW room
  PROVE  decode(text, room) \in Seq(ByteValues)
  <1> DEFINE g == Significant(text)
             l == (Len(g) * 6) \div 8
  <1>1. Len(g) \in Nat
    BY SignificantType
  <1> HIDE DEF g
  <1>2. l \in Nat
    BY <1>1
  <1> HIDE DEF l
  <1>3. \A k \in 1..l : Octet(g, k - 1) \in ByteValues
    <2>1. \A k \in 1..l : k - 1 \in Nat
      BY <1>2
    <2> QED
      BY <2>1, OctetType
  <1>4. [k \in 1..l |-> Octet(g, k - 1)] \in Seq(ByteValues)
    BY <1>2, <1>3
  <1>5. <<>> \in Seq(ByteValues)
    OBVIOUS
  <1> QED
    BY <1>4, <1>5 DEF decode, g, l


\* Octets of the sextets of some bytes are these bytes.
LEMMA OctetsOfSextets ==
  ASSUME NEW bytes \in Seq(ByteValues), NEW g, NEW k \in Nat, k < Len(bytes),
         \A j \in 0..(SextetCount(Len(bytes)) - 1) : IndexAt(g, j) = Sextet(bytes, j)
  PROVE  Octet(g, k) = bytes[k + 1]
  <1> DEFINE n == Len(bytes)
             s == SextetCount(n)
  <1>1. n \in Nat /\ k < n
    OBVIOUS
  <1>2. PICK q \in Nat : k = 3 * q \/ k = 3 * q + 1 \/ k = 3 * q + 2
    BY Triples
  <1> DEFINE a == ByteAt(bytes, 3 * q)
             b == ByteAt(bytes, 3 * q + 1)
             c == ByteAt(bytes, 3 * q + 2)
  <1>3. a \in ByteValues /\ b \in ByteValues /\ c \in ByteValues
    BY ByteType
  <1>4. /\ Sextet(bytes, 4 * q) = a \div 4
        /\ Sextet(bytes, 4 * q + 1) = (a % 4) * 16 + b \div 16
        /\ Sextet(bytes, 4 * q + 2) = (b % 16) * 4 + c \div 64
        /\ Sextet(bytes, 4 * q + 3) = c % 64
    BY SextetsAre
  <1>5. /\ Octet(g, 3 * q) = IndexAt(g, 4 * q) * 4 + IndexAt(g, 4 * q + 1) \div 16
        /\ Octet(g, 3 * q + 1) = (IndexAt(g, 4 * q + 1) % 16) * 16 + IndexAt(g, 4 * q + 2) \div 4
        /\ Octet(g, 3 * q + 2) = (IndexAt(g, 4 * q + 2) % 4) * 64 + IndexAt(g, 4 * q + 3)
    BY OctetsAre
  <1>6. ByteAt(bytes, k) = bytes[k + 1]
    BY DEF ByteAt
  <1>7. s = (n * 8 + 5) \div 6
    BY DEF SextetCount
  <1>8. \A j \in 0..(s - 1) : IndexAt(g, j) = Sextet(bytes, j)
    OBVIOUS
  <1> HIDE DEF a, b, c, n, s
  <1>9. CASE k = 3 * q
    <2>1. 4 * q \in 0..(s - 1) /\ 4 * q + 1 \in 0..(s - 1)
      BY <1>1, <1>7, <1>9
    <2>2. Octet(g, k) = (a \div 4) * 4 + ((a % 4) * 16 + b \div 16) \div 16
      BY <1>4, <1>5, <1>8, <1>9, <2>1, Zenon
    <2>3. (a \div 4) * 4 + ((a % 4) * 16 + b \div 16) \div 16 = a
      <3>1. ((a % 4) * 16 + b \div 16) \div 16 = a % 4
        BY <1>3 DEF ByteValues
      <3>2. (a \div 4) * 4 + (a % 4) = a
        BY <1>3 DEF ByteValues
      <3> QED
        BY <3>1, <3>2
    <2> QED
      BY <1>6, <1>9, <2>2, <2>3 DEF a
  <1>10. CASE k = 3 * q + 1
    <2>1. 4 * q + 1 \in 0..(s - 1) /\ 4 * q + 2 \in 0..(s - 1)
      BY <1>1, <1>7, <1>10
    <2>2. Octet(g, k) = (((a % 4) * 16 + b \div 16) % 16) * 16 + ((b % 16) * 4 + c \div 64) \div 4
      BY <1>4, <1>5, <1>8, <1>10, <2>1, Zenon
    <2>3. (((a % 4) * 16 + b \div 16) % 16) * 16 + ((b % 16) * 4 + c \div 64) \div 4 = b
      <3>1. ((a % 4) * 16 + b \div 16) % 16 = b \div 16 /\ ((b % 16) * 4 + c \div 64) \div 4 = b % 16
        BY <1>3 DEF ByteValues
      <3>2. (b \div 16) * 16 + (b % 16) = b
        BY <1>3 DEF ByteValues
      <3> QED
        BY <3>1, <3>2
    <2> QED
      BY <1>6, <1>10, <2>2, <2>3 DEF b
  <1>11. CASE k = 3 * q + 2
    <2>1. 4 * q + 2 \in 0..(s - 1) /\ 4 * q + 3 \in 0..(s - 1)
      BY <1>1, <1>7, <1>11
    <2>2. Octet(g, k) = (((b % 16) * 4 + c \div 64) % 4) * 64 + (c % 64)
      BY <1>4, <1>5, <1>8, <1>11, <2>1, Zenon
    <2>3. (((b % 16) * 4 + c \div 64) % 4) * 64 + (c % 64) = c
      <3>1. ((b % 16) * 4 + c \div 64) % 4 = c \div 64
        <4>1. \A x \in 0..15, y \in 0..3 : (x * 4 + y) % 4 = y
          OBVIOUS
        <4>2. b % 16 \in 0..15 /\ c \div 64 \in 0..3
          BY <1>3 DEF ByteValues
        <4> QED
          BY <4>1, <4>2
      <3>2. (c \div 64) * 64 + (c % 64) = c
        BY <1>3 DEF ByteValues
      <3> QED
        BY <3>1, <3>2
    <2> QED
      BY <1>6, <1>11, <2>2, <2>3 DEF c
  <1> QED
    BY <1>2, <1>9, <1>10, <1>11

\* etl::base64: what was encoded is decoded to the same bytes, if there is room for them.
LEMMA DecodesToSame ==
  ASSUME NEW bytes \in Seq(ByteValues), NEW room \in Nat, Len(bytes) <= room
  PROVE  decode(encode(bytes), room) = bytes
  <1> DEFINE n == Len(bytes)
             s == SextetCount(n)
             t == encode(bytes)
             g == Significant(t)
  <1>1. n \in Nat /\ n <= room
    OBVIOUS
  <1>2. /\ s \in Nat /\ (s * 6) \div 8 = n
        /\ n > 0 => s >= 2 /\ (s - 1) - (s - 1) \div 4 <= n
        /\ n = 0 => s = 0 /\ RoundUp4(s) = 0
    <2>1. /\ s \in Nat /\ (s * 6) \div 8 = n
          /\ n > 0 => s >= 2 /\ (s - 1) - (s - 1) \div 4 <= n
          /\ n = 0 => s = 0
      BY <1>1, TextLengths
    <2>2. RoundUp4(0) = 0
      BY DEF RoundUp4
    <2> QED
      BY <2>1, <2>2
  <1>3. /\ t \in Seq(43..122) /\ Len(t) \in Nat /\ Len(t) = RoundUp4(s) /\ s <= Len(t)
        /\ \A k \in 1..s : t[k] = get_sextet_from_index(Sextet(bytes, k - 1)) /\ t[k] # padding
        /\ \A k \in 1..Len(t) : k > s => t[k] = padding
    BY EncodeIs
  <1> HIDE DEF s, t
  <1>4. Len(g) = s /\ \A k \in 1..s : g[k] = t[k]
    BY <1>2, <1>3, SignificantIs
  <1> HIDE DEF g
  <1>5. CASE n = 0
    <2>1. t = <<>>
      BY <1>2, <1>3, <1>5, EmptySeq
    <2>2. decode(t, room) = <<>>
      BY <2>1 DEF decode, Decodes
    <2>3. bytes = <<>>
      BY <1>5
    <2> QED
      BY <2>2, <2>3 DEF t
  <1>6. CASE n > 0
    <2>1. Decodes(t, room)
      <3>1. t # <<>>
        BY <1>2, <1>3, <1>6
      <3>2. decode_size(t) = (s - 1) - (s - 1) \div 4
        BY <1>2, <1>4, <1>6 DEF decode_size, g
      <3>3. (s - 1) - (s - 1) \div 4 <= room
        BY <1>1, <1>2, <1>6
      <3> QED
        BY <3>1, <3>2, <3>3 DEF Decodes
    <2>2. decode(t, room) = [k \in 1..n |-> Octet(g, k - 1)]
      BY <1>2, <1>4, <2>1 DEF decode, g
    <2>3. \A j \in 0..(s - 1) : IndexAt(g, j) = Sextet(bytes, j)
      <3> TAKE j \in 0..(s - 1)
      <3>1. j \in Nat /\ j + 1 \in 1..s /\ (j + 1) - 1 = j
        BY <1>2
      <3>2. g[j + 1] = get_sextet_from_index(Sextet(bytes, j))
        BY <1>3, <1>4, <3>1
      <3>3. Sextet(bytes, j) \in 0..63
        BY <3>1, SextetType
      <3> QED
        BY <3>2, <3>3, Characters DEF IndexAt
    <2>4. \A k \in 1..n : Octet(g, k - 1) = bytes[k]
      <3> TAKE k \in 1..n
      <3>1. k - 1 \in Nat /\ k - 1 < Len(bytes) /\ (k - 1) + 1 = k
        BY <1>1
      <3> QED
        BY <2>3, <3>1, OctetsOfSextets DEF s
    <2>5. decode(t, room) = [k \in 1..n |-> bytes[k]]
      BY <2>2, <2>4
    <2>6. [k \in 1..n |-> bytes[k]] = bytes
      OBVIOUS
    <2> QED
      BY <2>5, <2>6 DEF t
  <1> QED
    BY <1>1, <1>5, <1>6

\* etl::base64: the text is the one that base64 defines.
LEMMA EncodesByDefinition ==
  ASSUME NEW bytes \in Seq(ByteValues)
  PROVE  encode(bytes) = [k \in 1..RoundUp4((Len(bytes) * 8 + 5) \div 6) |->
                            IF k <= (Len(bytes) * 8 + 5) \div 6 THEN Alphabet[DigitAt(Bits(bytes), k) + 1] ELSE padding]
  <1> DEFINE n == Len(bytes)
             s == SextetCount(n)
             l == RoundUp4(s)
  <1>1. n \in Nat
    OBVIOUS
  <1>2. s \in Nat /\ l \in Nat /\ s <= l /\ encode_size(n) = l
    BY <1>1, TextLengths
  <1>3. \A k \in 1..l : k <= s => get_sextet_from_index(Sextet(bytes, k - 1)) = Alphabet[DigitAt(Bits(bytes), k) + 1]
    <2> SUFFICES ASSUME NEW k \in 1..l, k <= s
                 PROVE  get_sextet_from_index(Sextet(bytes, k - 1)) = Alphabet[DigitAt(Bits(bytes), k) + 1]
      OBVIOUS
    <2>1. k - 1 \in Nat /\ (k - 1) + 1 = k
      BY <1>2
    <2>2. Sextet(bytes, k - 1) \in 0..63
      BY <2>1, SextetType
    <2>3. DigitAt(Bits(bytes), k) = Sextet(bytes, k - 1)
      BY <2>1, DigitIs, SextetIsBits
    <2> QED
      BY <2>2, <2>3, AlphabetIs
  <1>4. encode(bytes) = [k \in 1..l |-> IF k <= s THEN get_sextet_from_index(Sextet(bytes, k - 1)) ELSE padding]
    BY <1>2 DEF encode, SextetCount
  <1> HIDE DEF s, l
  <1>5. encode(bytes) = [k \in 1..l |-> IF k <= s THEN Alphabet[DigitAt(Bits(bytes), k) + 1] ELSE padding]
    BY <1>3, <1>4
  <1> QED
    BY <1>5 DEF s, l, SextetCount

\* The inductive invariant of the plugin loader: what was entered is in the memory, and
\* has the slot or has left it.
PluginInv ==
  /\ memory \in Seq(ByteValues) /\ code \in Seq(ByteValues)
  /\ called # <<>> => Len(code) <= Len(memory) /\ \A i \in 1..Len(code) : memory[i] = code[i]
  /\ plugin # NoPlugin => called = <<"entry">>
  /\ result \notin {0, 1} => plugin = NoPlugin

\* load_and_execute() with some payload.
LEMMA LoadStep ==
  ASSUME PluginInv, NEW S, NEW text \in Seq(S), NEW meant \in Seq(ByteValues), NEW entry, NEW exit, NEW now \in BOOLEAN,
         Load(text, meant, entry, exit, now), meant = <<>> \/ text = encode(meant)
  PROVE  PluginInv'
  <1> DEFINE space == (Len(text) \div 4) * 3
             bytes == decode(text, space)
             runs == Len(bytes) = space /\ entry = "aligned"
             tail == SubSeq(memory, Len(bytes) + 1, Len(memory))
  <1>1. /\ memory' = bytes \o tail /\ code' = meant
        /\ plugin' = IF ~runs THEN NoPlugin ELSE IF now THEN NoPlugin ELSE [size |-> space, exit |-> exit]
        /\ called' = IF runs THEN <<"entry">> ELSE <<>>
        /\ result' = IF Len(bytes) # space THEN 7 ELSE IF ~runs THEN 8 ELSE 0
    BY DEF Load, Overwritten, FreedAfterError, Answer
  <1>2. bytes \in Seq(ByteValues) /\ memory \in Seq(ByteValues)
    BY DecodeType DEF PluginInv
  <1>3. meant = <<>> \/ bytes = meant
    <2> SUFFICES ASSUME text = encode(meant) PROVE bytes = meant
      OBVIOUS
    <2>1. Len(meant) \in Nat
      OBVIOUS
    <2>2. Len(text) = RoundUp4(SextetCount(Len(meant)))
      BY EncodeIs
    <2>3. Len(meant) <= space
      BY <2>1, <2>2, TextLengths
    <2>4. space \in Nat
      BY <2>2
    <2> QED
      BY <2>3, <2>4, DecodesToSame
  <1> HIDE DEF bytes, space
  <1>4. tail \in Seq(ByteValues)
    <2>1. Len(bytes) + 1 \in Int /\ Len(memory) \in Int
      BY <1>2
    <2>2. \A i \in (Len(bytes) + 1)..Len(memory) : memory[i] \in ByteValues
      BY <1>2
    <2> QED
      BY <2>1, <2>2, SubSeqProperties
  <1> HIDE DEF tail
  <1> DEFINE m == bytes \o tail
  <1>5. /\ m \in Seq(ByteValues) /\ Len(bytes) \in Nat /\ Len(tail) \in Nat /\ Len(m) = Len(bytes) + Len(tail)
        /\ \A i \in 1..Len(bytes) : m[i] = bytes[i]
    <2>1. m \in Seq(ByteValues) /\ Len(m) = Len(bytes) + Len(tail) /\ Len(bytes) \in Nat /\ Len(tail) \in Nat
      BY <1>2, <1>4, ConcatProperties
    <2>2. \A i \in 1..(Len(bytes) + Len(tail)) : m[i] = IF i <= Len(bytes) THEN bytes[i] ELSE tail[i - Len(bytes)]
      BY <1>2, <1>4, ConcatProperties
    <2> HIDE DEF m
    <2> QED
      BY <2>1, <2>2
  <1>6. memory' = m
    BY <1>1
  <1> HIDE DEF m
  <1>7. Len(code') <= Len(memory') /\ \A i \in 1..Len(code') : memory'[i] = code'[i]
    <2>1. CASE bytes = meant
      BY <1>1, <1>5, <1>6, <2>1
    <2>2. CASE meant = <<>>
      BY <1>1, <1>5, <1>6, <2>2
    <2> QED
      BY <1>3, <2>1, <2>2
  <1>8. plugin' # NoPlugin => called' = <<"entry">>
    BY <1>1
  <1>9. result' \notin {0, 1} => plugin' = NoPlugin
    BY <1>1
  <1> QED
    BY <1>1, <1>5, <1>6, <1>7, <1>8, <1>9 DEF PluginInv

\* Every step keeps the invariant.
LEMMA PluginStep ==
  ASSUME PluginInv, [PNext]_pVars
  PROVE  PluginInv'
  <1>1. PluginCodes \subseteq Seq(ByteValues) /\ Payloads \subseteq Seq(0..127)
    BY PluginAssumption DEF ByteValues
  <1>2. CASE LoadRefused
    <2>1. memory' = memory /\ code' = code /\ called' = called /\ plugin' = plugin
      BY <1>2 DEF LoadRefused
    <2>2. plugin # NoPlugin => result' = 1
      BY <1>2 DEF LoadRefused, Answer
    <2> QED
      BY <2>1, <2>2 DEF PluginInv
  <1>3. CASE Unload
    <2>1. memory' = memory /\ code' = code /\ plugin' = NoPlugin /\ (called' = called \/ plugin # NoPlugin)
      BY <1>3 DEF Unload, NoPlugin
    <2>2. called' # <<>> => called # <<>>
      <3>1. <<"entry">> # <<>>
        OBVIOUS
      <3> QED
        BY <2>1, <3>1, Zenon DEF PluginInv
    <2> QED
      BY <2>1, <2>2 DEF PluginInv
  <1>4. CASE \E text \in Payloads : LoadAsserts(text)
    <2>1. memory' = memory /\ code' = code /\ called' = called /\ plugin' = plugin /\ result' = result
      BY <1>4 DEF LoadAsserts
    <2> QED
      BY <2>1 DEF PluginInv
  <1>5. ASSUME NEW entry, NEW exit, NEW now \in BOOLEAN, NEW c \in PluginCodes, Load(encode(c), c, entry, exit, now)
        PROVE  PluginInv'
    <2>1. c \in Seq(ByteValues)
      BY <1>1
    <2>2. encode(c) \in Seq(43..122)
      BY <2>1, EncodeIs
    <2> QED
      BY <1>5, <2>1, <2>2, LoadStep
  <1>6. ASSUME NEW entry, NEW exit, NEW now \in BOOLEAN, NEW text \in Payloads, Load(text, <<>>, entry, exit, now)
        PROVE  PluginInv'
    <2>1. text \in Seq(0..127) /\ <<>> \in Seq(ByteValues)
      BY <1>1
    <2> QED
      BY <1>6, <2>1, LoadStep
  <1>7. CASE UNCHANGED pVars
    BY <1>7 DEF PluginInv, pVars
  <1> QED
    BY <1>2, <1>3, <1>4, <1>5, <1>6, <1>7 DEF PNext

\* The invariant says what is promised.
LEMMA PluginHolds == PluginInv => PluginIsAsSent
  <1> SUFFICES ASSUME PluginInv PROVE PluginIsAsSent
    OBVIOUS
  <1>1. memory \in Seq(ByteValues) /\ code \in Seq(ByteValues) /\ Len(memory) \in Nat /\ Len(code) \in Nat
    BY DEF PluginInv
  <1>2. Base64IsCorrect
    <2>1. decode(encode(memory), Len(memory)) = memory
      BY <1>1, DecodesToSame
    <2> QED
      BY <1>1, <2>1, EncodesByDefinition DEF Base64IsCorrect
  <1>3. CodeIsAsSent
    <2> SUFFICES ASSUME called # <<>> PROVE SubSeq(memory, 1, Len(code)) = code
      BY DEF CodeIsAsSent
    <2> DEFINE u == SubSeq(memory, 1, Len(code))
               l == Len(code)
    <2>1. l <= Len(memory) /\ \A i \in 1..l : memory[i] = code[i]
      BY DEF PluginInv
    <2>2. \A i \in 1..l : memory[i] \in ByteValues
      BY <1>1, <2>1
    <2>3. /\ u \in Seq(ByteValues) /\ Len(u) = IF 1 <= l THEN l - 1 + 1 ELSE 0
          /\ \A i \in 1..(l - 1 + 1) : u[i] = memory[1 + i - 1]
      BY <1>1, <2>2, SubSeqProperties
    <2> HIDE DEF u
    <2>4. Len(u) = l /\ \A i \in 1..l : u[i] = code[i]
      BY <1>1, <2>1, <2>3
    <2>5. u = code
      BY <1>1, <2>3, <2>4, SeqEqual
    <2> QED
      BY <2>5 DEF u
  <1>4. SlotIsEntered
    BY DEF PluginInv, SlotIsEntered
  <1> QED
    BY <1>2, <1>3, <1>4 DEF PluginIsAsSent

\* load_and_execute(), unload(): base64 is encoded and decoded as defined for all bytes that
\* ever are in the memory, and what is entered is the very code that was sent.
THEOREM PluginsAreAsSent == PSpec => []PluginIsAsSent
  <1>1. PInit => PluginInv
    BY DEF PInit, PluginInv
  <1>2. PluginInv /\ [PNext]_pVars => PluginInv'
    BY PluginStep
  <1> QED
    BY <1>1, <1>2, PluginHolds, PTL DEF PSpec

-----------------------------------------------------------------------------
(* The front panel: PanelIsShown *)

\* The members of the panel, and what its chips may hold
Panels ==
  [leds : 0..255, frequency : Nat, phase : Nat, wave : WaveForms \cup {"undefined"}, sleep : BOOLEAN,
   level : [Levels -> Int]]
Registers ==
  [leds : (0..255) \cup {Unknown}, sleep : BOOLEAN \cup {Unknown}, wave : WaveForms \cup {Unknown},
   frequency : (Nat \X Nat) \cup {Unknown}, phase : Nat \cup {Unknown}, raw : [Levels -> OutputWords \cup {Unknown}]]

\* What every step keeps
PanelInv ==
  /\ panel \in Panels /\ chips \in Registers
  /\ installed \in BOOLEAN /\ panelStatus \in Codes
  /\ WrittenIsShown

\* A word for the converter has 12 bits, left-aligned, whatever voltage it is for.
LEMMA RawIsWord ==
  ASSUME NEW n \in Int, NEW d \in Nat \ {0}
  PROVE  float_to_raw(n, d) \in OutputWords
<1>1. 0 \in OutputWords /\ 16 * 4095 \in OutputWords
  BY DEF OutputWords
<1>2. CASE 0 < n /\ n < d
  <2> DEFINE q == (n * 4095) \div d
  <2>1. n \in Nat /\ n * 4095 \in Nat
    BY <1>2
  <2>2. q \in Nat /\ q * d <= n * 4095
    BY <2>1, Quotients
  <2>3. n * 4095 < 4095 * d
    BY <1>2
  <2>4. q \in 0..4095
    <3> HIDE DEF q
    <3>1. SUFFICES ASSUME q > 4095 PROVE FALSE
      BY <2>2
    <3>2. 4095 \in Nat /\ 4095 <= q
      BY <3>1, <2>2
    <3>3. 4095 * d <= q * d
      BY <3>2, <2>2, Products
    <3> QED BY <3>3, <2>2, <2>3, <2>1
  <2>5. float_to_raw(n, d) = 16 * q
    BY <1>2 DEF float_to_raw
  <2> HIDE DEF q
  <2> QED BY <2>4, <2>5 DEF OutputWords
<1>3. CASE n <= 0
  BY <1>3, <1>1 DEF float_to_raw
<1>4. CASE n > 0 /\ n >= d
  BY <1>4, <1>1 DEF float_to_raw
<1> QED BY <1>2, <1>3, <1>4

LEMMA ChannelIsWord ==
  ASSUME NEW ch \in Levels, NEW v \in Int
  PROVE  ChannelRaw(ch, v) \in OutputWords
<1>1. One \in Nat \ {0} /\ 2 * One \in Nat \ {0} /\ One - v \in Int
  BY PanelAssumption
<1> QED BY <1>1, RawIsWord DEF ChannelRaw

\* The two halves of the frequency register make up its 28 bits.
LEMMA HalvesMakeFrequency ==
  ASSUME NEW f \in Nat
  PROVE  /\ FrequencyHalves(f) \in Nat \X Nat
         /\ FrequencyHalves(f)[1] + HalfWord * FrequencyHalves(f)[2] = (f % 4) * QuarterClock
<1> DEFINE q == f \div 4
           r == f % 4
<1>1. q \in Nat /\ r \in 0..3 /\ f = 4 * q + r
  OBVIOUS
<1> HIDE DEF q, r
<1>2. f * 67108864 = 16384 * (16384 * q + 4096 * r)
  BY <1>1
<1>3. (f * 67108864) % 16384 = 0 /\ (f * 67108864) \div 16384 = 16384 * q + 4096 * r
  BY <1>2, <1>1
<1>4. (16384 * q + 4096 * r) % 16384 = 4096 * r
  BY <1>1
<1>5. FrequencyHalves(f) = <<0, 4096 * r>>
  BY <1>3, <1>4 DEF FrequencyHalves, HalfWord, QuarterClock
<1>6. 0 + 16384 * (4096 * r) = r * 67108864
  BY <1>1
<1> QED BY <1>5, <1>6, <1>1 DEF HalfWord, QuarterClock, r

LEMMA PhaseIsWord == ASSUME NEW p \in Nat PROVE PhaseWord(p) \in Nat
  BY DEF PhaseWord

\* The channel at which writing ends
LEMMA FirstFailingIs ==
  ASSUME NEW F
  PROVE  /\ FirstFailing(F) \in 1..7
         /\ FirstFailing(F) = 7 \/ Channels[FirstFailing(F)] \in F
<1> DEFINE Stops(i) == /\ i = 7 \/ Channels[i] \in F
                       /\ \A j \in 1..(i - 1) : Channels[j] \notin F
<1>1. \E i \in 1..7 : Stops(i)
  <2>1. Channels[1] \in F => Stops(1)
    OBVIOUS
  <2>2. Channels[1] \notin F /\ Channels[2] \in F => Stops(2)
    OBVIOUS
  <2>3. (\A j \in 1..2 : Channels[j] \notin F) /\ Channels[3] \in F => Stops(3)
    OBVIOUS
  <2>4. (\A j \in 1..3 : Channels[j] \notin F) /\ Channels[4] \in F => Stops(4)
    OBVIOUS
  <2>5. (\A j \in 1..4 : Channels[j] \notin F) /\ Channels[5] \in F => Stops(5)
    OBVIOUS
  <2>6. (\A j \in 1..5 : Channels[j] \notin F) /\ Channels[6] \in F => Stops(6)
    OBVIOUS
  <2>7. (\A j \in 1..6 : Channels[j] \notin F) => Stops(7)
    OBVIOUS
  <2>8. 1 \in 1..7 /\ 2 \in 1..7 /\ 3 \in 1..7 /\ 4 \in 1..7 /\ 5 \in 1..7 /\ 6 \in 1..7 /\ 7 \in 1..7
    OBVIOUS
  <2> HIDE DEF Stops
  <2> QED BY <2>1, <2>2, <2>3, <2>4, <2>5, <2>6, <2>7, <2>8
<1>2. FirstFailing(F) = CHOOSE i \in 1..7 : Stops(i)
  BY DEF FirstFailing
<1>3. FirstFailing(F) \in 1..7 /\ Stops(FirstFailing(F))
  <2> HIDE DEF Stops
  <2> QED BY <1>1, <1>2
<1> QED BY <1>3

LEMMA IndexIs ==
  ASSUME NEW ch \in Levels
  PROVE  Index(ch) \in 1..6
<1>1. \E i \in 1..6 : Channels[i] = ch
  BY DEF Levels
<1> QED BY <1>1 DEF Index

\* What a write leaves in the registers of the generator, field by field
LEMMA GeneratorFields ==
  ASSUME NEW m \in Panels, NEW c \in Registers, NEW F
  PROVE  LET w == GeneratorWritten(m, c, F)
         IN /\ w \in Registers
            /\ w.leds = c.leds /\ w.sleep = m.sleep /\ (m.wave \in WaveForms => w.wave = m.wave)
            /\ w.frequency = FrequencyHalves(m.frequency) /\ w.phase = PhaseWord(m.phase)
            /\ FirstFailing(F) = 7 => \A ch \in Levels : w.raw[ch] = ChannelRaw(ch, m.level[ch])
<1> DEFINE raws == [ch \in Levels |-> CASE Index(ch) < FirstFailing(F) -> ChannelRaw(ch, m.level[ch])
                                        [] Index(ch) = FirstFailing(F) -> Unknown
                                        [] Index(ch) > FirstFailing(F) -> c.raw[ch]]
           w == GeneratorWritten(m, c, F)
<1>1. /\ m.sleep \in BOOLEAN /\ m.wave \in WaveForms \cup {"undefined"} /\ m.frequency \in Nat /\ m.phase \in Nat
      /\ \A ch \in Levels : m.level[ch] \in Int
  BY DEF Panels
<1>2. /\ c.leds \in (0..255) \cup {Unknown} /\ c.wave \in WaveForms \cup {Unknown}
      /\ \A ch \in Levels : c.raw[ch] \in OutputWords \cup {Unknown}
  BY DEF Registers
<1>3. FirstFailing(F) \in 1..7 /\ \A ch \in Levels : Index(ch) \in 1..6
  BY FirstFailingIs, IndexIs
<1>4. \A ch \in Levels : ChannelRaw(ch, m.level[ch]) \in OutputWords
  BY <1>1, ChannelIsWord
<1>5. \A ch \in Levels : raws[ch] \in OutputWords \cup {Unknown}
  BY <1>2, <1>3, <1>4
<1>6. FirstFailing(F) = 7 => \A ch \in Levels : raws[ch] = ChannelRaw(ch, m.level[ch])
  BY <1>3
<1>7. raws \in [Levels -> OutputWords \cup {Unknown}]
  BY <1>5
<1>8. WaveWritten(c.wave, m.wave) \in WaveForms \cup {Unknown} /\ (m.wave \in WaveForms => WaveWritten(c.wave, m.wave) = m.wave)
  BY <1>1, <1>2 DEF WaveWritten
<1>9. FrequencyHalves(m.frequency) \in Nat \X Nat /\ PhaseWord(m.phase) \in Nat
  BY <1>1, HalvesMakeFrequency, PhaseIsWord
<1>10. w = [c EXCEPT !.sleep = m.sleep, !.wave = WaveWritten(c.wave, m.wave),
                     !.frequency = FrequencyHalves(m.frequency), !.phase = PhaseWord(m.phase), !.raw = raws]
  BY Zenon DEF GeneratorWritten
<1> HIDE DEF raws, w
<1>11. /\ w.leds = c.leds /\ w.sleep = m.sleep /\ w.wave = WaveWritten(c.wave, m.wave)
       /\ w.frequency = FrequencyHalves(m.frequency) /\ w.phase = PhaseWord(m.phase) /\ w.raw = raws
  BY <1>10 DEF Registers
<1>12. w = [leds |-> c.leds, sleep |-> m.sleep, wave |-> WaveWritten(c.wave, m.wave),
            frequency |-> FrequencyHalves(m.frequency), phase |-> PhaseWord(m.phase), raw |-> raws]
  BY <1>10 DEF Registers
<1>13. w \in Registers
  BY <1>12, <1>1, <1>2, <1>7, <1>8, <1>9 DEF Registers
<1> QED BY <1>13, <1>11, <1>8, <1>6 DEF w

\* A write of any panel: its status is 0 only if all of it is shown, but for the two failures
\* that cancel out.
LEMMA WriteShows ==
  ASSUME NEW m \in Panels, chips \in Registers, installed \in BOOLEAN, installed' = installed, NEW F,
         WritePanel(m, F), panel' = m
  PROVE  chips' \in Registers /\ panelStatus' \in Codes /\ WrittenIsShown'
<1> DEFINE c == [chips EXCEPT !.leds = IF "leds" \in F THEN Unknown ELSE m.leds]
           first == FirstFailing(F)
           ledCode == IF "leds" \in F THEN 1 ELSE 0
           chipCode == IF installed THEN GeneratorStatus(F) ELSE 0
<1>1. chips' = (IF installed THEN GeneratorWritten(m, c, F) ELSE c) /\ failed' = F
  BY DEF WritePanel
<1>2. panelStatus' = 128 * (ledCode + chipCode)
  BY DEF WritePanel
<1>3. c \in Registers /\ ("leds" \notin F => c.leds = m.leds)
  BY DEF Registers, Panels
<1>4. first \in 1..7 /\ (first = 7 \/ Channels[first] \in F)
  BY FirstFailingIs
<1>5. GeneratorStatus(F) \in -6..0 /\ (GeneratorStatus(F) = 0 <=> first = 7) /\ (GeneratorStatus(F) = -1 <=> first = 1)
  BY <1>4 DEF GeneratorStatus
<1>6. ledCode \in 0..1 /\ chipCode \in -6..0
  BY <1>5
<1>7. panelStatus' \in Codes
  <2>1. ledCode + chipCode \in -6..1
    BY <1>6
  <2> QED BY <1>2, <2>1 DEF Codes
<1> HIDE DEF c
<1>8. chips' \in Registers
  BY <1>1, <1>3, GeneratorFields
<1>9. ASSUME panelStatus' = 0, ~({"leds", "amplitude"} \subseteq F)
      PROVE  Shown(m)'
  <2>1. ledCode + chipCode = 0
    <3> HIDE DEF ledCode, chipCode
    <3> QED BY <1>9, <1>2, <1>6
  <2>2. "leds" \notin F
    <3>1. SUFFICES ASSUME "leds" \in F PROVE FALSE
      OBVIOUS
    <3>2. installed /\ GeneratorStatus(F) = -1
      BY <3>1, <2>1, <1>5
    <3>3. Channels[1] \in F
      BY <3>2, <1>5, <1>4
    <3> QED BY <3>1, <3>3, <1>9 DEF Channels
  <2>3. installed => first = 7
    BY <2>1, <2>2, <1>5
  <2>4. c.leds = m.leds
    BY <2>2, <1>3
  <2>5. CASE ~installed
    <3>1. chips'.leds = m.leds
      BY <2>5, <1>1, <2>4
    <3> QED BY <3>1, <2>5 DEF Shown
  <2>6. CASE installed
    <3> DEFINE w == GeneratorWritten(m, c, F)
    <3>1. /\ w.leds = c.leds /\ w.sleep = m.sleep /\ (m.wave \in WaveForms => w.wave = m.wave)
          /\ w.frequency = FrequencyHalves(m.frequency) /\ w.phase = PhaseWord(m.phase)
          /\ \A ch \in Levels : w.raw[ch] = ChannelRaw(ch, m.level[ch])
      BY <1>3, <2>3, <2>6, GeneratorFields
    <3>2. chips' = w
      BY <1>1, <2>6
    <3>3. m.frequency \in Nat
      BY DEF Panels
    <3> HIDE DEF w
    <3>4. w.frequency[1] + HalfWord * w.frequency[2] = (m.frequency % 4) * QuarterClock
      BY <3>1, <3>3, HalvesMakeFrequency
    <3> QED BY <3>1, <3>2, <3>4, <2>4, <2>6 DEF Shown
  <2> QED BY <2>5, <2>6
<1>10. WrittenIsShown'
  <2>1. SUFFICES ASSUME panelStatus' = 0, ~({"leds", "amplitude"} \subseteq failed')
                 PROVE  Shown(panel)'
    BY DEF WrittenIsShown
  <2>2. Shown(m)'
    BY <2>1, <1>9, <1>1
  <2> QED BY <2>2 DEF Shown
<1> QED BY <1>7, <1>8, <1>10

-----------------------------------------------------------------------------
\* The members after each item, as a function
Steps(m, items, f) ==
  [n \in 0..Len(items) |->
     IF n = 0 THEN m
     ELSE IF \A k \in 1..(n - 1) : Accepted(items[k]) THEN Applied(f[n - 1], items[n])
     ELSE f[n - 1]]

\* If some function has such steps, After has.
LEMMA AfterHasSteps ==
  ASSUME NEW m, NEW items, NEW f, f = Steps(m, items, f)
  PROVE  After(m, items) = Steps(m, items, After(m, items))
<1>1. After(m, items) = CHOOSE g : g = Steps(m, items, g)
  BY DEF After, Steps
<1> QED BY <1>1

\* The loop over a configuration of two items
LEMMA TwoItems ==
  ASSUME NEW m, NEW a, NEW b
  PROVE  Configured(m, <<a, b>>) = IF Accepted(a) THEN Applied(Applied(m, a), b) ELSE Applied(m, a)
<1> DEFINE items == <<a, b>>
           x == Applied(m, a)
           y == IF Accepted(a) THEN Applied(x, b) ELSE x
           f == [n \in 0..2 |-> IF n = 0 THEN m ELSE IF n = 1 THEN x ELSE y]
           g == After(m, items)
<1>1. Len(items) = 2 /\ items[1] = a /\ items[2] = b
  OBVIOUS
<1>2. x = Applied(m, a) /\ y = (IF Accepted(a) THEN Applied(x, b) ELSE x)
  OBVIOUS
<1>3. f[0] = m /\ f[1] = x /\ f[2] = y
  OBVIOUS
<1> HIDE DEF items, x, y
<1>4. f = Steps(m, items, f)
  BY <1>1, <1>2, <1>3 DEF Steps
<1>5. g = Steps(m, items, g)
  <2> HIDE DEF f
  <2> QED BY <1>4, AfterHasSteps
<1> HIDE DEF g
<1>6. g[0] = m
  BY <1>5, <1>1 DEF Steps
<1>7. g[1] = Applied(g[0], a)
  BY <1>5, <1>1 DEF Steps
<1>8. g[2] = IF Accepted(a) THEN Applied(g[1], b) ELSE g[1]
  BY <1>5, <1>1 DEF Steps
<1>9. Configured(m, items) = y
  BY <1>1, <1>2, <1>6, <1>7, <1>8 DEF Configured, g
<1> QED BY <1>9 DEF items, x, y

\* The loop over a configuration of ten items, all of which are accepted
LEMMA TenItems ==
  ASSUME NEW items, Len(items) = 10, \A k \in 1..10 : Accepted(items[k]),
         NEW x0, NEW x1, x1 = Applied(x0, items[1]), NEW x2, x2 = Applied(x1, items[2]),
         NEW x3, x3 = Applied(x2, items[3]), NEW x4, x4 = Applied(x3, items[4]),
         NEW x5, x5 = Applied(x4, items[5]), NEW x6, x6 = Applied(x5, items[6]),
         NEW x7, x7 = Applied(x6, items[7]), NEW x8, x8 = Applied(x7, items[8]),
         NEW x9, x9 = Applied(x8, items[9]), NEW x10, x10 = Applied(x9, items[10])
  PROVE  Configured(x0, items) = x10
<1> DEFINE f == [n \in 0..10 |->
                   IF n = 0 THEN x0 ELSE IF n = 1 THEN x1 ELSE IF n = 2 THEN x2 ELSE IF n = 3 THEN x3
                   ELSE IF n = 4 THEN x4 ELSE IF n = 5 THEN x5 ELSE IF n = 6 THEN x6 ELSE IF n = 7 THEN x7
                   ELSE IF n = 8 THEN x8 ELSE IF n = 9 THEN x9 ELSE x10]
           g == After(x0, items)
<1>1. f[0] = x0 /\ \A n \in 1..10 : f[n] = Applied(f[n - 1], items[n])
  <2>1. \A n \in 1..10 : n = 1 \/ n = 2 \/ n = 3 \/ n = 4 \/ n = 5 \/ n = 6 \/ n = 7 \/ n = 8 \/ n = 9 \/ n = 10
    OBVIOUS
  <2>2. f[0] = x0 /\ f[1] = x1 /\ f[2] = x2 /\ f[3] = x3 /\ f[4] = x4 /\ f[5] = x5
    OBVIOUS
  <2>3. f[6] = x6 /\ f[7] = x7 /\ f[8] = x8 /\ f[9] = x9 /\ f[10] = x10
    OBVIOUS
  <2> HIDE DEF f
  <2> QED BY <2>1, <2>2, <2>3
<1>2. f = [n \in 0..10 |-> IF n = 0 THEN x0 ELSE Applied(f[n - 1], items[n])]
  <2>1. DOMAIN f = 0..10 /\ f = [n \in 0..10 |-> f[n]]
    OBVIOUS
  <2> HIDE DEF f
  <2>2. \A n \in 0..10 : f[n] = IF n = 0 THEN x0 ELSE Applied(f[n - 1], items[n])
    BY <1>1
  <2> QED BY <2>1, <2>2
<1> HIDE DEF f
<1>3. \A n \in 1..10 : \A k \in 1..(n - 1) : Accepted(items[k])
  OBVIOUS
<1>4. f = Steps(x0, items, f)
  BY <1>2, <1>3 DEF Steps
<1>5. g = Steps(x0, items, g)
  BY <1>4, AfterHasSteps
<1> HIDE DEF g
<1>6. g[0] = x0 /\ \A n \in 1..10 : g[n] = Applied(g[n - 1], items[n])
  BY <1>5, <1>3 DEF Steps
<1>7. /\ g[1] = Applied(g[0], items[1]) /\ g[2] = Applied(g[1], items[2]) /\ g[3] = Applied(g[2], items[3])
      /\ g[4] = Applied(g[3], items[4]) /\ g[5] = Applied(g[4], items[5]) /\ g[6] = Applied(g[5], items[6])
      /\ g[7] = Applied(g[6], items[7]) /\ g[8] = Applied(g[7], items[8]) /\ g[9] = Applied(g[8], items[9])
      /\ g[10] = Applied(g[9], items[10])
  BY <1>6
<1>8. g[5] = x5
  BY <1>6, <1>7
<1>9. g[10] = x10
  BY <1>8, <1>7
<1> QED BY <1>9 DEF Configured, g

-----------------------------------------------------------------------------
\* The keys are different from each other, and what each does to the members
Simple == {"leds", "frequency", "phase", "sleep"}

LEMMA LevelNames == Levels = {"amplitude", "low", "high", "offset", "out0", "out1"}
<1>1. \A i \in 1..6 : i = 1 \/ i = 2 \/ i = 3 \/ i = 4 \/ i = 5 \/ i = 6
  OBVIOUS
<1>2. /\ Channels[1] = "amplitude" /\ Channels[2] = "low" /\ Channels[3] = "high"
      /\ Channels[4] = "offset" /\ Channels[5] = "out0" /\ Channels[6] = "out1"
  BY DEF Channels
<1>3. 1 \in 1..6 /\ 2 \in 1..6 /\ 3 \in 1..6 /\ 4 \in 1..6 /\ 5 \in 1..6 /\ 6 \in 1..6
  OBVIOUS
<1> QED BY <1>1, <1>2, <1>3 DEF Levels

LEMMA AppliedSimple ==
  ASSUME NEW m, NEW item, item.value # BadType, item.key \in Simple
  PROVE  Applied(m, item) = [m EXCEPT ![item.key] = item.value]
  BY LevelNames DEF Applied, Simple

LEMMA AppliedWave ==
  ASSUME NEW m, NEW item, item.value # BadType, item.key = "wave"
  PROVE  Applied(m, item) = IF item.value \in WaveForms THEN [m EXCEPT !.wave = item.value] ELSE m
  BY LevelNames DEF Applied

LEMMA AppliedLevel ==
  ASSUME NEW m, NEW item, item.value # BadType, item.key \in Levels
  PROVE  Applied(m, item) = IF InRange(item.key, item.value) THEN [m EXCEPT !.level[item.key] = item.value] ELSE m
  BY LevelNames DEF Applied

LEMMA AppliedOutputs ==
  ASSUME NEW m, NEW item, item.value # BadType, item.key = "dac_outputs"
  PROVE  Applied(m, item) =
           [m EXCEPT !.level["out0"] = IF InRange("out0", item.value[1]) THEN item.value[1] ELSE @,
                     !.level["out1"] = IF InRange("out0", item.value[1]) /\ InRange("out1", item.value[2]) THEN item.value[2] ELSE @]
  BY LevelNames DEF Applied

LEMMA AppliedOther ==
  ASSUME NEW m, NEW item,
         item.value = BadType \/ item.key \notin Simple \cup {"wave", "dac_outputs"} \cup Levels
  PROVE  Applied(m, item) = m
  BY DEF Applied, Simple

\* An item keeps the types of the members.
LEMMA AppliedIsPanel ==
  ASSUME NEW m \in Panels, NEW item \in ConfigItems
  PROVE  Applied(m, item) \in Panels
<1>1. /\ m.leds \in 0..255 /\ m.sleep \in BOOLEAN /\ m.wave \in WaveForms \cup {"undefined"} /\ m.frequency \in Nat
      /\ m.phase \in Nat /\ m.level \in [Levels -> Int]
  BY DEF Panels
<1>2. CASE item.value = BadType \/ item.key \notin Simple \cup {"wave", "dac_outputs"} \cup Levels
  BY <1>2, AppliedOther
<1>3. CASE item.value # BadType /\ item.key \in Simple
  <2>1. Applied(m, item) = [m EXCEPT ![item.key] = item.value]
    BY <1>3, AppliedSimple
  <2>2. CASE item.key = "leds"
    <3>1. item.value \in 0..255
      BY <1>3, <2>2, ItemsAssumption
    <3> QED BY <2>1, <2>2, <3>1 DEF Panels
  <2>3. CASE item.key = "frequency"
    <3>1. item.value \in Nat
      BY <1>3, <2>3, ItemsAssumption
    <3> QED BY <2>1, <2>3, <3>1 DEF Panels
  <2>4. CASE item.key = "phase"
    <3>1. item.value \in Nat
      BY <1>3, <2>4, ItemsAssumption
    <3> QED BY <2>1, <2>4, <3>1 DEF Panels
  <2>5. CASE item.key = "sleep"
    <3>1. item.value \in BOOLEAN
      BY <1>3, <2>5, ItemsAssumption
    <3> QED BY <2>1, <2>5, <3>1 DEF Panels
  <2> QED BY <1>3, <2>2, <2>3, <2>4, <2>5 DEF Simple
<1>4. CASE item.value # BadType /\ item.key = "wave"
  BY <1>4, AppliedWave DEF Panels
<1>5. CASE item.value # BadType /\ item.key \in Levels
  <2>1. item.value \in Int
    BY <1>5, ItemsAssumption
  <2>2. Applied(m, item) = IF InRange(item.key, item.value) THEN [m EXCEPT !.level[item.key] = item.value] ELSE m
    BY <1>5, AppliedLevel
  <2> QED BY <2>1, <2>2, <1>5 DEF Panels
<1>6. CASE item.value # BadType /\ item.key = "dac_outputs"
  <2> DEFINE a == IF InRange("out0", item.value[1]) THEN item.value[1] ELSE m.level["out0"]
             b == IF InRange("out0", item.value[1]) /\ InRange("out1", item.value[2]) THEN item.value[2] ELSE m.level["out1"]
  <2>1. item.value[1] \in Int /\ item.value[2] \in Int
    BY <1>6, ItemsAssumption
  <2>2. "out0" \in Levels /\ "out1" \in Levels
    BY LevelNames
  <2>3. a \in Int /\ b \in Int
    BY <2>1, <2>2, <1>1, SMTT(40)
  <2>4. Applied(m, item) = [m EXCEPT !.level["out0"] = a, !.level["out1"] = b]
    BY <1>6, <1>1, <2>2, AppliedOutputs DEF Panels
  <2> HIDE DEF a, b
  <2>5. [m.level EXCEPT !["out0"] = a, !["out1"] = b] \in [Levels -> Int]
    BY <2>2, <2>3, <1>1
  <2>6. Applied(m, item) = [m EXCEPT !.level = [m.level EXCEPT !["out0"] = a, !["out1"] = b]]
    BY <2>4 DEF Panels
  <2> QED BY <2>5, <2>6 DEF Panels
<1> QED BY <1>2, <1>3, <1>4, <1>5, <1>6

-----------------------------------------------------------------------------
\* A panel by its members
Members(l, f, p, w, s, v) == [leds |-> l, frequency |-> f, phase |-> p, wave |-> w, sleep |-> s, level |-> v]

\* Levels with another one at a channel
Put(v, ch, x) == [v EXCEPT ![ch] = x]

LEMMA PanelIsMembers ==
  ASSUME NEW m \in Panels
  PROVE  m = Members(m.leds, m.frequency, m.phase, m.wave, m.sleep, m.level)
  BY DEF Panels, Members

\* What the items of a report do, one by one
LEMMA ReportedSimple ==
  ASSUME NEW l, NEW f, NEW p, NEW w, NEW s, NEW v, NEW x, x # BadType
  PROVE  /\ Applied(Members(l, f, p, w, s, v), Item("leds", x)) = Members(x, f, p, w, s, v)
         /\ Applied(Members(l, f, p, w, s, v), Item("frequency", x)) = Members(l, x, p, w, s, v)
         /\ Applied(Members(l, f, p, w, s, v), Item("phase", x)) = Members(l, f, x, w, s, v)
         /\ Applied(Members(l, f, p, w, s, v), Item("sleep", x)) = Members(l, f, p, w, x, v)
<1> DEFINE m == Members(l, f, p, w, s, v)
<1>1. \A k \in Simple : Item(k, x).value # BadType /\ Item(k, x).key = k /\ Item(k, x).value = x
  BY DEF Item
<1>2. "leds" \in Simple /\ "frequency" \in Simple /\ "phase" \in Simple /\ "sleep" \in Simple
  BY DEF Simple
<1> HIDE DEF m
<1>3. \A k \in Simple : Applied(m, Item(k, x)) = [m EXCEPT ![k] = x]
  <2>1. TAKE k \in Simple
  <2>2. Item(k, x).value # BadType /\ Item(k, x).key \in Simple
    BY <1>1
  <2>3. Applied(m, Item(k, x)) = [m EXCEPT ![Item(k, x).key] = Item(k, x).value]
    BY <2>2, AppliedSimple
  <2> QED BY <2>3, <1>1
<1>4. Applied(m, Item("leds", x)) = [m EXCEPT !["leds"] = x]
  BY <1>2, <1>3
<1>5. Applied(m, Item("frequency", x)) = [m EXCEPT !["frequency"] = x]
  BY <1>2, <1>3
<1>6. Applied(m, Item("phase", x)) = [m EXCEPT !["phase"] = x]
  BY <1>2, <1>3
<1>7. Applied(m, Item("sleep", x)) = [m EXCEPT !["sleep"] = x]
  BY <1>2, <1>3
<1>8. [m EXCEPT !["leds"] = x] = Members(x, f, p, w, s, v)
  BY DEF m, Members
<1>9. [m EXCEPT !["frequency"] = x] = Members(l, x, p, w, s, v)
  BY DEF m, Members
<1>10. [m EXCEPT !["phase"] = x] = Members(l, f, x, w, s, v)
  BY DEF m, Members
<1>11. [m EXCEPT !["sleep"] = x] = Members(l, f, p, w, x, v)
  BY DEF m, Members
<1> QED BY <1>4, <1>5, <1>6, <1>7, <1>8, <1>9, <1>10, <1>11 DEF m

LEMMA ReportedWave ==
  ASSUME NEW l, NEW f, NEW p, NEW w, NEW s, NEW v, NEW x \in WaveForms
  PROVE  Applied(Members(l, f, p, w, s, v), Item("wave", x)) = Members(l, f, p, x, s, v)
<1> DEFINE m == Members(l, f, p, w, s, v)
<1>1. Item("wave", x).key = "wave" /\ Item("wave", x).value = x /\ x # BadType
  BY MarksAssumption DEF Item
<1>2. Applied(m, Item("wave", x)) = [m EXCEPT !.wave = x]
  <2> HIDE DEF m
  <2> QED BY <1>1, AppliedWave
<1>3. [m EXCEPT !.wave = x] = Members(l, f, p, x, s, v)
  BY DEF Members
<1> QED BY <1>2, <1>3

LEMMA ReportedLevel ==
  ASSUME NEW l, NEW f, NEW p, NEW w, NEW s, NEW v, NEW ch \in Levels, NEW x, x # BadType, InRange(ch, x)
  PROVE  Applied(Members(l, f, p, w, s, v), Item(ch, x)) = Members(l, f, p, w, s, Put(v, ch, x))
<1> DEFINE m == Members(l, f, p, w, s, v)
<1>1. Item(ch, x).key = ch /\ Item(ch, x).value = x
  BY DEF Item
<1>2. Applied(m, Item(ch, x)) = [m EXCEPT !.level[ch] = x]
  <2> HIDE DEF m
  <2> QED BY <1>1, AppliedLevel
<1>3. [m EXCEPT !.level[ch] = x] = Members(l, f, p, w, s, Put(v, ch, x))
  BY DEF Members, Put
<1> QED BY <1>2, <1>3

LEMMA ReportedOutputs ==
  ASSUME NEW l, NEW f, NEW p, NEW w, NEW s, NEW v \in [Levels -> Int],
         NEW x \in Int, NEW y \in Int, InRange("out0", x), InRange("out1", y)
  PROVE  Applied(Members(l, f, p, w, s, v), Item("dac_outputs", <<x, y>>))
           = Members(l, f, p, w, s, Put(Put(v, "out0", x), "out1", y))
<1> DEFINE m == Members(l, f, p, w, s, v)
           item == Item("dac_outputs", <<x, y>>)
<1>1. item.key = "dac_outputs" /\ item.value = <<x, y>> /\ item.value[1] = x /\ item.value[2] = y
  BY DEF Item
<1>2. <<x, y>> \in Int \X Int
  OBVIOUS
<1>3. item.value # BadType
  BY <1>1, <1>2, MarksAssumption
<1> HIDE DEF item
<1>4. Applied(m, item) = [m EXCEPT !.level["out0"] = x, !.level["out1"] = y]
  <2> HIDE DEF m
  <2>1. Applied(m, item) =
           [m EXCEPT !.level["out0"] = IF InRange("out0", item.value[1]) THEN item.value[1] ELSE @,
                     !.level["out1"] = IF InRange("out0", item.value[1]) /\ InRange("out1", item.value[2]) THEN item.value[2] ELSE @]
    BY <1>1, <1>3, AppliedOutputs
  <2> QED BY <1>1, <2>1
<1>5. [m EXCEPT !.level["out0"] = x, !.level["out1"] = y] = Members(l, f, p, w, s, [v EXCEPT !["out0"] = x, !["out1"] = y])
  <2>1. m \in [leds : {l}, frequency : {f}, phase : {p}, wave : {w}, sleep : {s}, level : [Levels -> Int]] /\ m.level = v
    BY DEF Members
  <2> HIDE DEF m
  <2>2. [m EXCEPT !.level["out0"] = x, !.level["out1"] = y] = [m EXCEPT !.level = [v EXCEPT !["out0"] = x, !["out1"] = y]]
    BY <2>1
  <2>3. [m EXCEPT !.level = [v EXCEPT !["out0"] = x, !["out1"] = y]] = Members(l, f, p, w, s, [v EXCEPT !["out0"] = x, !["out1"] = y])
    BY DEF m, Members
  <2> QED BY <2>2, <2>3
<1> QED BY <1>4, <1>5 DEF item, Put

\* The ten items of a report
LEMMA ReportItems ==
  ASSUME NEW m \in Panels, m.wave \in WaveForms
  PROVE  /\ Len(Report(m)) = 10
         /\ Report(m)[1] = Item("leds", m.leds) /\ Report(m)[2] = Item("frequency", m.frequency)
         /\ Report(m)[3] = Item("phase", m.phase) /\ Report(m)[4] = Item("wave", m.wave)
         /\ Report(m)[5] = Item("amplitude", m.level["amplitude"]) /\ Report(m)[6] = Item("low", m.level["low"])
         /\ Report(m)[7] = Item("high", m.level["high"]) /\ Report(m)[8] = Item("offset", m.level["offset"])
         /\ Report(m)[9] = Item("sleep", m.sleep)
         /\ Report(m)[10] = Item("dac_outputs", <<m.level["out0"], m.level["out1"]>>)
<1> DEFINE i1 == Item("leds", m.leds)
           i2 == Item("frequency", m.frequency)
           i3 == Item("phase", m.phase)
           i4 == Item("wave", m.wave)
           i5 == Item("amplitude", m.level["amplitude"])
           i6 == Item("low", m.level["low"])
           i7 == Item("high", m.level["high"])
           i8 == Item("offset", m.level["offset"])
           i9 == Item("sleep", m.sleep)
           i10 == Item("dac_outputs", <<m.level["out0"], m.level["out1"]>>)
           a == <<i1, i2, i3>>
           b == <<i4>>
           c == <<i5, i6, i7, i8, i9, i10>>
           S == {i1, i2, i3, i4, i5, i6, i7, i8, i9, i10}
<1>1. Report(m) = (a \o b) \o c
  BY DEF Report
<1> HIDE DEF i1, i2, i3, i4, i5, i6, i7, i8, i9, i10
<1>2. a \in Seq(S) /\ b \in Seq(S) /\ c \in Seq(S) /\ Len(a) = 3 /\ Len(b) = 1 /\ Len(c) = 6
  OBVIOUS
<1>3. a[1] = i1 /\ a[2] = i2 /\ a[3] = i3 /\ b[1] = i4
  OBVIOUS
<1>4. c[1] = i5 /\ c[2] = i6 /\ c[3] = i7 /\ c[4] = i8 /\ c[5] = i9 /\ c[6] = i10
  OBVIOUS
<1> HIDE DEF a, b, c, S
<1> DEFINE d == a \o b
<1>5. /\ d \in Seq(S) /\ Len(d) = Len(a) + Len(b)
      /\ \A i \in 1..(Len(a) + Len(b)) : d[i] = IF i <= Len(a) THEN a[i] ELSE b[i - Len(a)]
  BY <1>2, ConcatProperties
<1> HIDE DEF d
<1>6. Len(d) = 4 /\ d[1] = i1 /\ d[2] = i2 /\ d[3] = i3 /\ d[4] = i4
  BY <1>2, <1>3, <1>5
<1> DEFINE r == d \o c
<1>7. /\ Len(r) = Len(d) + Len(c)
      /\ \A i \in 1..(Len(d) + Len(c)) : r[i] = IF i <= Len(d) THEN d[i] ELSE c[i - Len(d)]
  <2>1. d \in Seq(S) /\ c \in Seq(S)
    BY <1>2, <1>5
  <2> QED BY <2>1, ConcatProperties
<1> HIDE DEF r
<1>8. /\ Len(r) = 10 /\ r[1] = d[1] /\ r[2] = d[2] /\ r[3] = d[3] /\ r[4] = d[4] /\ r[5] = c[1] /\ r[6] = c[2]
      /\ r[7] = c[3] /\ r[8] = c[4] /\ r[9] = c[5] /\ r[10] = c[6]
  BY <1>2, <1>6, <1>7
<1>9. Report(m) = r
  BY <1>1 DEF r, d
<1> QED BY <1>9, <1>8, <1>6, <1>4 DEF i1, i2, i3, i4, i5, i6, i7, i8, i9, i10

\* The wave forms and the keys without one differ, so that all ten items are accepted.
LEMMA ReportIsAccepted ==
  ASSUME NEW m \in Panels, m.wave \in WaveForms, \A ch \in Levels : InRange(ch, m.level[ch])
  PROVE  \A k \in 1..10 : Accepted(Report(m)[k])
<1>1. /\ m.leds \in Int /\ m.frequency \in Int /\ m.phase \in Int /\ m.sleep \in BOOLEAN
      /\ \A ch \in Levels : m.level[ch] \in Int
  BY DEF Panels
<1>2. /\ m.leds # BadType /\ m.frequency # BadType /\ m.phase # BadType /\ m.wave # BadType
      /\ \A ch \in Levels : m.level[ch] # BadType
  BY <1>1, MarksAssumption
<1>3. m.sleep # BadType
  BY <1>1, MarksAssumption, Zenon
<1>4. \A k \in {"leds", "frequency", "phase", "amplitude", "low", "high", "offset", "sleep"} : \A x :
        x # BadType => Accepted(Item(k, x))
  BY DEF Accepted, Item
<1>5. Accepted(Item("wave", m.wave))
  BY <1>2 DEF Accepted, Item
<1>6. Accepted(Item("dac_outputs", <<m.level["out0"], m.level["out1"]>>))
  <2>1. "out0" \in Levels /\ "out1" \in Levels
    BY LevelNames
  <2>2. <<m.level["out0"], m.level["out1"]>> \in Int \X Int
    BY <1>1, <2>1
  <2>3. <<m.level["out0"], m.level["out1"]>> # BadType
    BY <2>2, MarksAssumption
  <2> QED BY <2>1, <2>3 DEF Accepted, Item
<1>7. "amplitude" \in Levels /\ "low" \in Levels /\ "high" \in Levels /\ "offset" \in Levels
  BY LevelNames
<1>8. /\ Accepted(Report(m)[1]) /\ Accepted(Report(m)[2]) /\ Accepted(Report(m)[3]) /\ Accepted(Report(m)[4])
      /\ Accepted(Report(m)[9]) /\ Accepted(Report(m)[10])
  BY <1>2, <1>3, <1>4, <1>5, <1>6, ReportItems
<1>9. Accepted(Report(m)[5]) /\ Accepted(Report(m)[6]) /\ Accepted(Report(m)[7]) /\ Accepted(Report(m)[8])
  BY <1>2, <1>4, <1>7, ReportItems
<1>10. \A k \in 1..10 : k = 1 \/ k = 2 \/ k = 3 \/ k = 4 \/ k = 5 \/ k = 6 \/ k = 7 \/ k = 8 \/ k = 9 \/ k = 10
  OBVIOUS
<1> QED BY <1>8, <1>9, <1>10

\* A report makes any panel the one that was reported.
LEMMA ReportIsApplied ==
  ASSUME NEW m \in Panels, m.wave \in WaveForms, \A ch \in Levels : InRange(ch, m.level[ch]),
         NEW l, NEW f, NEW p, NEW w, NEW s, NEW v \in [Levels -> Int]
  PROVE  Configured(Members(l, f, p, w, s, v), Report(m)) = m
<1> DEFINE r == Report(m)
           v5 == Put(v, "amplitude", m.level["amplitude"])
           v6 == Put(v5, "low", m.level["low"])
           v7 == Put(v6, "high", m.level["high"])
           v8 == Put(v7, "offset", m.level["offset"])
           v10 == Put(Put(v8, "out0", m.level["out0"]), "out1", m.level["out1"])
           x0 == Members(l, f, p, w, s, v)
           x1 == Members(m.leds, f, p, w, s, v)
           x2 == Members(m.leds, m.frequency, p, w, s, v)
           x3 == Members(m.leds, m.frequency, m.phase, w, s, v)
           x4 == Members(m.leds, m.frequency, m.phase, m.wave, s, v)
           x5 == Members(m.leds, m.frequency, m.phase, m.wave, s, v5)
           x6 == Members(m.leds, m.frequency, m.phase, m.wave, s, v6)
           x7 == Members(m.leds, m.frequency, m.phase, m.wave, s, v7)
           x8 == Members(m.leds, m.frequency, m.phase, m.wave, s, v8)
           x9 == Members(m.leds, m.frequency, m.phase, m.wave, m.sleep, v8)
           x10 == Members(m.leds, m.frequency, m.phase, m.wave, m.sleep, v10)
<1>1. /\ m.leds \in Int /\ m.frequency \in Int /\ m.phase \in Int /\ m.sleep \in BOOLEAN
      /\ m.level \in [Levels -> Int]
  BY DEF Panels
<1>2. /\ m.leds # BadType /\ m.frequency # BadType /\ m.phase # BadType
      /\ \A ch \in Levels : m.level[ch] # BadType
  BY <1>1, MarksAssumption
<1>3. m.sleep # BadType
  BY <1>1, MarksAssumption, Zenon
<1>4. /\ "amplitude" \in Levels /\ "low" \in Levels /\ "high" \in Levels /\ "offset" \in Levels
      /\ "out0" \in Levels /\ "out1" \in Levels
  BY LevelNames
<1>5. v5 \in [Levels -> Int] /\ v6 \in [Levels -> Int] /\ v7 \in [Levels -> Int] /\ v8 \in [Levels -> Int]
  BY <1>1, <1>4 DEF Put
<1>6. v10 = m.level
  BY <1>1, LevelNames DEF Put
<1>7. x10 = m
  BY <1>6, PanelIsMembers
<1>8. /\ Len(r) = 10
      /\ r[1] = Item("leds", m.leds) /\ r[2] = Item("frequency", m.frequency)
      /\ r[3] = Item("phase", m.phase) /\ r[4] = Item("wave", m.wave)
      /\ r[5] = Item("amplitude", m.level["amplitude"]) /\ r[6] = Item("low", m.level["low"])
      /\ r[7] = Item("high", m.level["high"]) /\ r[8] = Item("offset", m.level["offset"])
      /\ r[9] = Item("sleep", m.sleep)
      /\ r[10] = Item("dac_outputs", <<m.level["out0"], m.level["out1"]>>)
  BY ReportItems
<1>9. \A k \in 1..10 : Accepted(r[k])
  BY ReportIsAccepted
<1> HIDE DEF r
<1>10. x1 = Applied(x0, r[1]) /\ x2 = Applied(x1, r[2]) /\ x3 = Applied(x2, r[3])
  BY <1>2, <1>8, ReportedSimple
<1>11. x4 = Applied(x3, r[4])
  BY <1>8, ReportedWave
<1>12. x5 = Applied(x4, r[5])
  <2>1. m.level["amplitude"] # BadType /\ InRange("amplitude", m.level["amplitude"]) /\ "amplitude" \in Levels
    BY <1>2, <1>4
  <2>2. Applied(x4, Item("amplitude", m.level["amplitude"])) = x5
    BY <2>1, ReportedLevel
  <2> QED BY <2>2, <1>8
<1>13. x6 = Applied(x5, r[6])
  <2>1. m.level["low"] # BadType /\ InRange("low", m.level["low"]) /\ "low" \in Levels
    BY <1>2, <1>4
  <2>2. Applied(x5, Item("low", m.level["low"])) = x6
    BY <2>1, ReportedLevel
  <2> QED BY <2>2, <1>8
<1>14. x7 = Applied(x6, r[7])
  <2>1. m.level["high"] # BadType /\ InRange("high", m.level["high"]) /\ "high" \in Levels
    BY <1>2, <1>4
  <2>2. Applied(x6, Item("high", m.level["high"])) = x7
    BY <2>1, ReportedLevel
  <2> QED BY <2>2, <1>8
<1>15. x8 = Applied(x7, r[8])
  <2>1. m.level["offset"] # BadType /\ InRange("offset", m.level["offset"]) /\ "offset" \in Levels
    BY <1>2, <1>4
  <2>2. Applied(x7, Item("offset", m.level["offset"])) = x8
    BY <2>1, ReportedLevel
  <2> QED BY <2>2, <1>8
<1>16. x9 = Applied(x8, r[9])
  BY <1>3, <1>8, ReportedSimple
<1>17. x10 = Applied(x9, r[10])
  <2>1. m.level["out0"] \in Int /\ m.level["out1"] \in Int
    BY <1>1, <1>4
  <2>2. InRange("out0", m.level["out0"]) /\ InRange("out1", m.level["out1"])
    BY <1>4
  <2>3. Applied(x9, Item("dac_outputs", <<m.level["out0"], m.level["out1"]>>)) = x10
    BY <2>1, <2>2, <1>5, ReportedOutputs
  <2> QED BY <2>3, <1>8
<1> HIDE DEF x0, x1, x2, x3, x4, x5, x6, x7, x8, x9, x10
<1>18. Configured(x0, r) = x10
  BY <1>8, <1>9, <1>10, <1>11, <1>12, <1>13, <1>14, <1>15, <1>16, <1>17, TenItems
<1> QED BY <1>7, <1>18 DEF x0, r

\* A report can be sent back, in every state of the panel.
LEMMA ReportsRestore == ASSUME panel \in Panels PROVE ReportRestores
<1>1. SUFFICES ASSUME panel.wave \in WaveForms, \A ch \in Levels : InRange(ch, panel.level[ch])
               PROVE  /\ \A k \in 1..Len(Report(panel)) : Accepted(Report(panel)[k])
                      /\ \A g \in Garbage :
                           Configured([leds |-> 255, frequency |-> 0, phase |-> 0, wave |-> "undefined", sleep |-> ~panel.sleep,
                                       level |-> [ch \in Levels |-> g]], Report(panel)) = panel
  BY DEF ReportRestores
<1>2. \A k \in 1..Len(Report(panel)) : Accepted(Report(panel)[k])
  <2>1. Len(Report(panel)) = 10
    BY <1>1, ReportItems
  <2> QED BY <2>1, <1>1, ReportIsAccepted
<1>3. ASSUME NEW g \in Garbage
      PROVE  Configured([leds |-> 255, frequency |-> 0, phase |-> 0, wave |-> "undefined", sleep |-> ~panel.sleep,
                         level |-> [ch \in Levels |-> g]], Report(panel)) = panel
  <2> DEFINE v == [ch \in Levels |-> g]
  <2>1. v \in [Levels -> Int]
    BY PanelAssumption
  <2> HIDE DEF v
  <2>2. Configured(Members(255, 0, 0, "undefined", ~panel.sleep, v), Report(panel)) = panel
    BY <2>1, <1>1, ReportIsApplied
  <2> QED BY <2>2 DEF Members, v
<1> QED BY <1>2, <1>3

-----------------------------------------------------------------------------
LEMMA PanelInit == FInit => PanelInv
<1>1. SUFFICES ASSUME FInit PROVE PanelInv
  OBVIOUS
<1>2. PICK g \in Garbage, w \in WaveForms \cup {"undefined"} :
        /\ installed \in BOOLEAN
        /\ panel = [leds |-> 0, frequency |-> 0, phase |-> 0, wave |-> w, sleep |-> TRUE, level |-> [ch \in Levels |-> g]]
        /\ chips = [leds |-> 0, sleep |-> IF installed THEN TRUE ELSE Unknown,
                    wave |-> IF installed THEN "sine" ELSE Unknown, frequency |-> Unknown, phase |-> Unknown,
                    raw |-> [ch \in Levels |-> Unknown]]
        /\ panelStatus = Unknown
  BY <1>1 DEF FInit
<1>3. g \in Int
  BY PanelAssumption
<1>4. panel \in Panels
  BY <1>2, <1>3 DEF Panels
<1>5. chips \in Registers
  BY <1>2 DEF Registers, WaveForms
<1>6. panelStatus \in Codes /\ panelStatus # 0
  BY <1>2, MarksAssumption DEF Codes
<1> QED BY <1>2, <1>4, <1>5, <1>6 DEF PanelInv, WrittenIsShown

LEMMA PanelStep == PanelInv /\ [FNext]_fVars => PanelInv'
<1>1. SUFFICES ASSUME PanelInv, [FNext]_fVars PROVE PanelInv'
  OBVIOUS
<1>2. panel \in Panels /\ chips \in Registers /\ installed \in BOOLEAN
  BY <1>1 DEF PanelInv
<1>3. Unknown \in Codes /\ Unknown # 0
  BY MarksAssumption DEF Codes
<1>4. CASE PanelReset
  <2>1. /\ panel' = [panel EXCEPT !.leds = 0, !.sleep = TRUE] /\ chips' = [chips EXCEPT !.leds = 0]
        /\ panelStatus' = Unknown /\ installed' = installed
    BY <1>4 DEF PanelReset
  <2>2. panel' \in Panels
    <3>1. panel' = [[panel EXCEPT !.leds = 0] EXCEPT !.sleep = TRUE]
      BY <2>1, Zenon
    <3>2. [panel EXCEPT !.leds = 0] \in Panels
      BY <1>2 DEF Panels
    <3>3. \A p \in Panels : [p EXCEPT !.sleep = TRUE] \in Panels
      BY DEF Panels
    <3> QED BY <3>1, <3>2, <3>3
  <2>3. chips' \in Registers
    BY <2>1, <1>2 DEF Registers
  <2> QED BY <2>1, <2>2, <2>3, <1>2, <1>3 DEF PanelInv, WrittenIsShown
<1>5. ASSUME NEW F \in Faults, PanelWrite(F) PROVE PanelInv'
  <2>1. WritePanel(panel, F) /\ panel' = panel /\ installed' = installed
    BY <1>5 DEF PanelWrite
  <2>2. chips' \in Registers /\ panelStatus' \in Codes /\ WrittenIsShown'
    BY <2>1, <1>2, WriteShows
  <2> QED BY <2>1, <2>2, <1>2 DEF PanelInv
<1>6. ASSUME NEW F \in Faults, NEW led \in LedValues, SetLeds(led, F) PROVE PanelInv'
  <2>1. panel' = [panel EXCEPT !.leds = led] /\ WritePanel(panel', F) /\ installed' = installed
    BY <1>6 DEF SetLeds
  <2>2. led \in 0..255
    BY PanelAssumption
  <2>3. panel' \in Panels
    BY <2>1, <2>2, <1>2 DEF Panels
  <2>4. chips' \in Registers /\ panelStatus' \in Codes /\ WrittenIsShown'
    BY <2>1, <2>3, <1>2, WriteShows
  <2> QED BY <2>1, <2>3, <2>4, <1>2 DEF PanelInv
<1>7. ASSUME NEW a \in ConfigItems, NEW b \in ConfigItems, PanelConfig(<<a, b>>) PROVE PanelInv'
  <2>1. /\ panel' = Configured(panel, <<a, b>>) /\ panelStatus' = Unknown
        /\ chips' = chips /\ installed' = installed
    BY <1>7 DEF PanelConfig
  <2>2. Applied(panel, a) \in Panels
    BY <1>2, AppliedIsPanel
  <2>3. Applied(Applied(panel, a), b) \in Panels
    BY <2>2, AppliedIsPanel
  <2>4. panel' \in Panels
    BY <2>1, <2>2, <2>3, TwoItems
  <2> QED BY <2>1, <2>4, <1>2, <1>3 DEF PanelInv, WrittenIsShown
<1>8. CASE UNCHANGED fVars
  BY <1>8, <1>1 DEF fVars, PanelInv, WrittenIsShown, Shown
<1> QED BY <1>1, <1>4, <1>5, <1>6, <1>7, <1>8 DEF FNext

\* LEDs and signal generator, write_to_hardware() and the configuration of the front panel: for
\* every set of configurations, whichever accesses fail and whatever the members held at
\* start-up, only words of 12 bits are sent to the converter, a status of 0 means that all registers
\* show the configuration (but for the two codes that cancel out), and a report can be
\* sent back.
THEOREM PanelShows == FSpec => []PanelIsShown
<1>1. PanelInv => PanelIsShown
  <2>1. SUFFICES ASSUME PanelInv PROVE PanelIsShown
    OBVIOUS
  <2>2. panel \in Panels /\ chips \in Registers /\ installed \in BOOLEAN /\ panelStatus \in Codes /\ WrittenIsShown
    BY <2>1, ZenonT(40) DEF PanelInv
  <2>3. FTypeOK
    <3>1. panel.leds \in 0..255 /\ panel.sleep \in BOOLEAN /\ panel.wave \in WaveForms \cup {"undefined"}
      BY <2>2 DEF Panels
    <3>2. \A ch \in Levels : chips.raw[ch] = Unknown \/ chips.raw[ch] \in OutputWords
      BY <2>2, SMTT(40) DEF Registers
    <3> QED BY <3>1, <3>2, <2>2 DEF FTypeOK
  <2> QED BY <2>2, <2>3, ReportsRestore DEF PanelIsShown
<1> QED BY <1>1, PanelInit, PanelStep, PTL DEF FSpec
=============================================================================
