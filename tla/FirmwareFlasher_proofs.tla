----------------------- MODULE FirmwareFlasher_proofs -----------------------
(***************************************************************************)
(* Theorems about FirmwareFlasher, for every size of the flash and every   *)
(* set of images: neither an upload nor its abortion touches the running   *)
(* image, a completed move installs the announced one, and nothing is left *)
(* of either.                                                              *)
(***************************************************************************)
EXTENDS FirmwareFlasher, TLAPS

-----------------------------------------------------------------------------
(* Multiples of the size of a sector *)

\* A later sector begins at least one sector later.
LEMMA SectorOrder ==
  ASSUME NEW s \in Int, NEW k \in Int, NEW n \in Nat \ {0}, s * n < k * n
  PROVE  s < k /\ s * n + n <= k * n
<1>1. s < k
  <2>1. CASE k <= s
    <3>1. PICK d \in Nat : s = k + d
      BY <2>1
    <3>2. s * n = k * n + d * n /\ d * n >= 0
      BY <3>1
    <3> QED BY <3>2
  <2> QED BY <2>1
<1>2. PICK d \in Nat : k = s + 1 + d
  <2>1. k - s - 1 \in Nat
    BY <1>1
  <2> QED BY <2>1
<1>3. k * n = s * n + n + d * n /\ d * n >= 0
  BY <1>2
<1> QED BY <1>1, <1>3

-----------------------------------------------------------------------------
(* The inductive invariant *)

\* The buffer is a number of whole sectors and begins behind the running image.
BufferInv ==
  upgrade # NoUpgrade =>
    /\ Aligned(upgrade.buffer_addr) /\ SectorWords <= upgrade.buffer_addr
    /\ pc = "running" => Len(running) <= upgrade.buffer_addr
    /\ pc \in {"running", "moving"}

\* flash_move(): what has been moved, what is still to be moved, and what has been erased.
\* The sector of the destination that has been begun ends at the address end.
Moved == \A w \in Addresses : w < offset => flash[w] = Loaded(upgrade.hash)[w]
ToMove == \A w \in Addresses : offset <= w /\ w < upgrade.imagelen =>
            flash[upgrade.buffer_addr + w] = upgrade.hash[w + 1]
Begun == \E s \in 0 .. Sectors :
           /\ s * SectorWords < offset + SectorWords /\ offset <= s * SectorWords
           /\ \A w \in Addresses : offset <= w /\ w < s * SectorWords => flash[w] = Erased

MoveInv ==
  pc = "moving" =>
    upgrade # NoUpgrade /\ upgrade.imagelen = Len(upgrade.hash) /\ Moved /\ ToMove /\ Begun

\* Unless an upload has been abandoned the flash is as after a load by cable, below the buffer.
CleanInv ==
  ~abandoned =>
    /\ pc = "running" => \A w \in Addresses :
         upgrade = NoUpgrade \/ w < upgrade.buffer_addr => flash[w] = Loaded(running)[w]
    /\ pc = "off" => \E img \in Images : flash = Loaded(img)

Inv == TypeOK /\ RunningImageIntact /\ BufferIsErased /\ BufferInv /\ MoveInv /\ CleanInv

-----------------------------------------------------------------------------
(* Types *)

\* Sector boundaries are addresses.
LEMMA SizeFacts ==
  /\ SectorWords \in Nat \ {0} /\ Sectors \in Nat \ {0} /\ Size \in Nat
  /\ \A s \in 0 .. Sectors : s * SectorWords \in 0 .. Size
  /\ \A s \in 0 .. Sectors : s * SectorWords < Size => s + 1 \in 0 .. Sectors
<1>1. SectorWords \in Nat \ {0} /\ Sectors \in Nat \ {0}
  BY SizeAssumption
<1>2. Size = Sectors * SectorWords /\ Size \in Nat
  BY <1>1 DEF Size
<1>3. ASSUME NEW s \in 0 .. Sectors PROVE s * SectorWords \in 0 .. Size
  <2>1. s * SectorWords \in Nat
    BY <1>1
  <2>2. ~ (Sectors * SectorWords < s * SectorWords)
    BY <1>1, SectorOrder
  <2> QED BY <1>2, <2>1, <2>2
<1>4. ASSUME NEW s \in 0 .. Sectors, s * SectorWords < Size PROVE s + 1 \in 0 .. Sectors
  BY <1>1, <1>2, <1>4, SectorOrder
<1> QED BY <1>1, <1>2, <1>3, <1>4

\* Images are sequences of words that fit into the flash.
LEMMA ImageFacts ==
  ASSUME NEW img \in Images
  PROVE  /\ Len(img) \in 1 .. Size
         /\ \A w \in 1 .. Len(img) : img[w] \in Words
<1>1. img \in Seq(Data \cup {Erased}) /\ Len(img) \in 1 .. Size
  BY ImageAssumption
<1>2. ASSUME NEW w \in 1 .. Len(img) PROVE img[w] \in Data \cup {Erased}
  BY <1>1
<1> QED BY <1>1, <1>2 DEF Words

\* The flash after a load by cable holds the image.
LEMMA LoadedType ==
  ASSUME NEW img \in Images
  PROVE  /\ Loaded(img) \in [Addresses -> Words]
         /\ Holds(Loaded(img), img)
<1>1. ASSUME NEW w \in Addresses
      PROVE (IF w < Len(img) THEN img[w + 1] ELSE Erased) \in Words
  BY ImageFacts, SizeFacts DEF Words, Addresses
<1>2. Loaded(img) \in [Addresses -> Words]
  BY <1>1 DEF Loaded
<1>3. ASSUME NEW w \in 0 .. Len(img) - 1 PROVE Loaded(img)[w] = img[w + 1]
  <2>1. w \in Addresses /\ w < Len(img)
    BY ImageFacts, SizeFacts DEF Addresses
  <2> QED BY <2>1 DEF Loaded
<1> QED BY <1>2, <1>3 DEF Holds

\* The fields of a running upgrade.
LEMMA UpgradeFacts ==
  ASSUME TypeOK, upgrade # NoUpgrade
  PROVE  /\ upgrade \in Upgrades
         /\ upgrade.hash \in Images /\ upgrade.imagelen \in 1 .. Size
         /\ upgrade.bytes_transmitted \in 0 .. Size /\ upgrade.buffer_addr \in 0 .. Size
         /\ upgrade.bytes_transmitted <= upgrade.imagelen
         /\ upgrade.buffer_addr + upgrade.imagelen <= Size
BY DEF TypeOK, Upgrades

\* Erasing keeps the type of the flash.
LEMMA EraseType ==
  ASSUME NEW f \in [Addresses -> Words], NEW from \in Int, NEW to \in Int
  PROVE  Erase(f, from, to) \in [Addresses -> Words]
BY DEF Erase, Words

\* The initial states satisfy the invariant.
LEMMA InitInv == Init => Inv
<1> SUFFICES ASSUME Init PROVE Inv
  OBVIOUS
<1> USE DEF Init
<1>1. TypeOK
  <2>1. flash \in [Addresses -> Words] /\ running \in Images
    BY LoadedType
  <2>2. abandoned \in BOOLEAN
    OBVIOUS
  <2>3. offset \in 0 .. Size
    BY SizeFacts
  <2> QED BY <2>1, <2>2, <2>3 DEF TypeOK
<1>2. RunningImageIntact
  BY LoadedType DEF RunningImageIntact
<1>3. BufferIsErased /\ BufferInv /\ MoveInv
  BY DEF BufferIsErased, BufferInv, MoveInv
<1>4. CleanInv
  BY DEF CleanInv
<1> QED BY <1>1, <1>2, <1>3, <1>4 DEF Inv

-----------------------------------------------------------------------------
(* The messages preserve the invariant *)

\* init(): the buffer begins behind the running image and at least one sector up.
LEMMA InitUpgradeInv ==
  ASSUME Inv, NEW hash \in Images, NEW imagelen \in 1 .. Size, NEW s \in 0 .. Sectors,
         InitUpgrade(hash, imagelen, s)
  PROVE  Inv'
<1> DEFINE b == s * SectorWords
<1>b. b \in 0 .. Size /\ Aligned(b)
  BY SizeFacts DEF Aligned
<1> USE DEF Inv
<1>1. /\ pc = "running" /\ upgrade = NoUpgrade /\ imagelen <= Size - b
      /\ upgrade' = [hash |-> hash, imagelen |-> imagelen, bytes_transmitted |-> 0, buffer_addr |-> b]
      /\ \A w \in Addresses : w >= b => flash[w] = Erased
      /\ UNCHANGED <<flash, running, pc, offset, abandoned>>
  BY DEF InitUpgrade, BufferStart
<1>2. PICK u \in Addresses : flash[u] # Erased
  BY DEF InitUpgrade, BufferStart
<1>3. SectorWords <= b
  <2>1. s # 0
    <3> SUFFICES ASSUME s = 0 PROVE FALSE
      OBVIOUS
    <3>1. b = 0
      BY SizeFacts
    <3> QED BY <1>1, <1>2, <3>1 DEF Addresses
  <2>2. 0 * SectorWords < s * SectorWords
    BY <2>1, SizeFacts
  <2>3. 0 * SectorWords + SectorWords <= s * SectorWords
    BY <2>2, SizeFacts, SectorOrder
  <2> QED BY <2>3, SizeFacts
<1>4. Len(running) <= b
  <2>1. running \in Images /\ Holds(flash, running)
    BY <1>1 DEF TypeOK, RunningImageIntact
  <2>2. PICK w \in 1 .. Len(running) :
          /\ running[w] # Erased
          /\ \A t \in 0 .. Sectors : w <= t * SectorWords => Len(running) <= t * SectorWords
    BY <2>1, EndAssumption
  <2>3. Len(running) \in 1 .. Size
    BY <2>1, ImageFacts
  <2>4. w - 1 \in 0 .. Len(running) - 1 /\ w - 1 \in Addresses /\ w - 1 + 1 = w
    BY <2>3, SizeFacts DEF Addresses
  <2>5. flash[w - 1] = running[w]
    BY <2>1, <2>4 DEF Holds
  <2>6. w - 1 < b
    BY <1>1, <1>b, <2>2, <2>4, <2>5
  <2> QED BY <1>b, <2>2, <2>3, <2>6
<1> HIDE DEF b
<1>5. upgrade' \in Upgrades /\ upgrade' # NoUpgrade
  BY <1>b, <1>1, SizeFacts, UpgradeAssumption DEF Upgrades
<1>6. TypeOK'
  BY <1>b, <1>1, <1>5, SizeFacts DEF TypeOK
<1>7. RunningImageIntact'
  BY <1>1 DEF RunningImageIntact, Holds
<1>8. BufferIsErased'
  BY <1>1, <1>b DEF BufferIsErased
<1>9. BufferInv'
  BY <1>1, <1>b, <1>3, <1>4 DEF BufferInv
<1>10. MoveInv'
  BY <1>1 DEF MoveInv
<1>11. CleanInv'
  BY <1>1 DEF CleanInv, Loaded
<1> QED BY <1>6, <1>7, <1>8, <1>9, <1>10, <1>11

\* stream() writes into the buffer only.
LEMMA StreamInv ==
  ASSUME Inv, NEW chunk \in Seq(Data \cup {Erased}), Stream(chunk)
  PROVE  Inv'
<1> USE DEF Inv
<1> DEFINE a == upgrade.buffer_addr + upgrade.bytes_transmitted
<1>1. /\ pc = "running" /\ upgrade # NoUpgrade
      /\ upgrade.bytes_transmitted + Len(chunk) <= upgrade.imagelen
      /\ flash' = WriteBlock(flash, a, chunk)
      /\ upgrade' = [upgrade EXCEPT !.bytes_transmitted = upgrade.bytes_transmitted + Len(chunk)]
      /\ UNCHANGED <<running, pc, offset, abandoned>>
  BY DEF Stream, NotTooLong, Advanced
<1>2. Len(chunk) \in Nat /\ \A w \in 1 .. Len(chunk) : chunk[w] \in Words
  BY DEF Words
<1>3. /\ upgrade \in Upgrades /\ upgrade.hash \in Images /\ upgrade.imagelen \in 1 .. Size
      /\ upgrade.bytes_transmitted \in 0 .. Size /\ upgrade.buffer_addr \in 0 .. Size
      /\ upgrade.buffer_addr + upgrade.imagelen <= Size /\ Size \in Nat
  BY <1>1, UpgradeFacts, SizeFacts
<1>4. /\ upgrade'.hash = upgrade.hash /\ upgrade'.imagelen = upgrade.imagelen
      /\ upgrade'.buffer_addr = upgrade.buffer_addr
      /\ upgrade'.bytes_transmitted = upgrade.bytes_transmitted + Len(chunk)
      /\ upgrade' \in Upgrades
  BY <1>1, <1>2, <1>3 DEF Upgrades
<1>5. upgrade' # NoUpgrade
  BY <1>4, UpgradeAssumption
<1>6. a \in Nat /\ a >= upgrade.buffer_addr
  BY <1>3
<1>7. \A w \in Addresses : w < a => flash'[w] = flash[w]
  BY <1>1, <1>2, <1>6 DEF WriteBlock, Addresses
<1>8. \A w \in Addresses : w >= a + Len(chunk) => flash'[w] = flash[w]
  BY <1>1, <1>2, <1>6 DEF WriteBlock, Addresses
<1>9. flash' \in [Addresses -> Words]
  <2>1. ASSUME NEW w \in Addresses, a <= w, w < a + Len(chunk)
        PROVE Programmed(flash[w], chunk[w - a + 1]) \in Words
    <3>1. w - a + 1 \in 1 .. Len(chunk)
      BY <1>2, <1>6, <2>1 DEF Addresses
    <3>2. flash[w] \in Words /\ chunk[w - a + 1] \in Words
      BY <1>2, <3>1 DEF TypeOK
    <3> QED BY <3>2 DEF Programmed, Words
  <2>2. ASSUME NEW w \in Addresses PROVE flash[w] \in Words
    BY DEF TypeOK
  <2> QED BY <1>1, <2>1, <2>2 DEF WriteBlock
<1> HIDE DEF a
<1>10. TypeOK'
  BY <1>1, <1>3, <1>4, <1>5, <1>9 DEF TypeOK
<1>11. Len(running) <= upgrade.buffer_addr /\ Len(running) \in 1 .. Size /\ running \in Images
  BY <1>1, ImageFacts DEF BufferInv, TypeOK
<1>12. RunningImageIntact'
  <2>1. ASSUME NEW w \in 0 .. Len(running) - 1 PROVE flash'[w] = running[w + 1]
    <3>1. w \in Addresses /\ w < a
      BY <1>3, <1>6, <1>11 DEF Addresses
    <3>2. flash[w] = running[w + 1]
      BY <1>1 DEF RunningImageIntact, Holds
    <3> QED BY <1>7, <3>1, <3>2
  <2> QED BY <1>1, <2>1 DEF RunningImageIntact, Holds
<1>13. BufferIsErased'
  <2>1. ASSUME NEW w \in Addresses, w >= a + Len(chunk) PROVE flash'[w] = Erased
    <3>1. w >= a
      BY <1>2, <1>6, <2>1 DEF Addresses
    <3>2. flash[w] = Erased
      BY <1>1, <3>1 DEF BufferIsErased, a
    <3> QED BY <1>8, <2>1, <3>2
  <2>2. upgrade'.buffer_addr + upgrade'.bytes_transmitted = a + Len(chunk)
    BY <1>2, <1>3, <1>4 DEF a
  <2> QED BY <2>1, <2>2 DEF BufferIsErased
<1>14. BufferInv'
  BY <1>1, <1>4 DEF BufferInv, Aligned
<1>15. MoveInv'
  BY <1>1 DEF MoveInv
<1>16. CleanInv'
  <2>1. ASSUME ~abandoned, NEW w \in Addresses, w < upgrade.buffer_addr
        PROVE flash'[w] = Loaded(running)[w]
    <3>1. w < a
      BY <1>3, <1>6, <2>1 DEF Addresses
    <3>2. flash[w] = Loaded(running)[w]
      BY <1>1, <2>1 DEF CleanInv
    <3> QED BY <1>7, <3>1, <3>2
  <2> QED BY <1>1, <1>4, <1>5, <2>1 DEF CleanInv, Loaded
<1> QED BY <1>10, <1>12, <1>13, <1>14, <1>15, <1>16

\* abort() erases the buffer and nothing else.
LEMMA AbortInv ==
  ASSUME Inv, Abort
  PROVE  Inv'
<1> USE DEF Inv
<1> DEFINE b == upgrade.buffer_addr
<1>1. /\ pc = "running" /\ upgrade # NoUpgrade /\ upgrade' = NoUpgrade
      /\ UNCHANGED <<running, pc, offset, abandoned>>
  BY DEF Abort
<1>2. b \in 0 .. Size /\ Size \in Nat /\ Len(running) <= b /\ Len(running) \in 1 .. Size
  BY <1>1, UpgradeFacts, SizeFacts, ImageFacts DEF BufferInv, TypeOK
<1>3. flash' = Erase(flash, b, Size)
  BY <1>1 DEF Abort, EraseBlock, BufferInv
<1>4. \A w \in Addresses : flash'[w] = IF w < b THEN flash[w] ELSE Erased
  BY <1>2, <1>3 DEF Erase, Addresses
<1>5. TypeOK'
  BY <1>1, <1>2, <1>3, EraseType DEF TypeOK
<1> HIDE DEF b
<1>6. RunningImageIntact'
  <2>1. ASSUME NEW w \in 0 .. Len(running) - 1 PROVE flash'[w] = running[w + 1]
    <3>1. w \in Addresses /\ w < b
      BY <1>2 DEF Addresses
    <3>2. flash[w] = running[w + 1]
      BY <1>1 DEF RunningImageIntact, Holds
    <3> QED BY <1>4, <3>1, <3>2
  <2> QED BY <1>1, <2>1 DEF RunningImageIntact, Holds
<1>7. BufferIsErased' /\ BufferInv' /\ MoveInv'
  BY <1>1 DEF BufferIsErased, BufferInv, MoveInv
<1>8. CleanInv'
  <2>1. ASSUME ~abandoned, NEW w \in Addresses PROVE flash'[w] = Loaded(running)[w]
    <3>1. CASE w < b
      <4>1. flash[w] = Loaded(running)[w]
        BY <1>1, <2>1, <3>1 DEF CleanInv, b
      <4> QED BY <1>4, <3>1, <4>1
    <3>2. CASE ~(w < b)
      <4>1. Loaded(running)[w] = Erased
        BY <1>2, <3>2 DEF Loaded, Addresses
      <4> QED BY <1>4, <3>2, <4>1
    <3> QED BY <3>1, <3>2
  <2> QED BY <1>1, <2>1 DEF CleanInv, Loaded
<1> QED BY <1>5, <1>6, <1>7, <1>8

\* A power loss during abort().
LEMMA AbortInterruptedInv ==
  ASSUME Inv, NEW sectors \in 0 .. Sectors - 1, AbortInterrupted(sectors)
  PROVE  Inv'
<1> USE DEF Inv
<1>1. /\ pc' = "off" /\ upgrade # NoUpgrade /\ upgrade' = NoUpgrade /\ abandoned' = TRUE
      /\ flash' = Erase(flash, upgrade.buffer_addr, upgrade.buffer_addr + sectors * SectorWords)
      /\ UNCHANGED <<running, offset>>
  BY DEF AbortInterrupted
<1>2. sectors * SectorWords \in Int /\ upgrade.buffer_addr \in Int
  BY <1>1, UpgradeFacts, SizeFacts
<1>3. TypeOK'
  BY <1>1, <1>2, EraseType DEF TypeOK
<1>4. RunningImageIntact' /\ BufferIsErased' /\ BufferInv' /\ MoveInv' /\ CleanInv'
  BY <1>1 DEF RunningImageIntact, BufferIsErased, BufferInv, MoveInv, CleanInv
<1> QED BY <1>3, <1>4

\* complete(): the whole image is still to be moved.
LEMMA CompleteInv ==
  ASSUME Inv, Complete
  PROVE  Inv'
<1> USE DEF Inv
<1>1. /\ pc = "running" /\ pc' = "moving" /\ upgrade # NoUpgrade /\ offset' = 0
      /\ UNCHANGED <<flash, running, upgrade, abandoned>>
      /\ upgrade.imagelen = Len(upgrade.hash)
      /\ \A w \in 0 .. upgrade.imagelen - 1 : flash[upgrade.buffer_addr + w] = upgrade.hash[w + 1]
  BY DEF Complete, HashCorrect
<1>2. upgrade.imagelen \in 1 .. Size /\ Size \in Nat
  BY <1>1, UpgradeFacts, SizeFacts
<1>3. TypeOK'
  BY <1>1, <1>2 DEF TypeOK
<1>4. RunningImageIntact' /\ BufferIsErased' /\ CleanInv'
  BY <1>1 DEF RunningImageIntact, BufferIsErased, CleanInv
<1>5. BufferInv'
  BY <1>1 DEF BufferInv, Aligned
<1>6. Moved'
  BY <1>1 DEF Moved, Addresses
<1>7. ToMove'
  BY <1>1, <1>2 DEF ToMove, Addresses
<1>8. Begun'
  <2>1. 0 \in 0 .. Sectors /\ 0 * SectorWords = 0 /\ 0 < 0 + SectorWords
    BY SizeFacts
  <2>2. \A w \in Addresses : ~(0 <= w /\ w < 0)
    BY DEF Addresses
  <2> QED BY <1>1, <2>1, <2>2 DEF Begun
<1>9. MoveInv'
  BY <1>1, <1>6, <1>7, <1>8 DEF MoveInv
<1> QED BY <1>3, <1>4, <1>5, <1>9

-----------------------------------------------------------------------------
(* flash_move() preserves the invariant *)

\* Where the sector that has been begun ends, before and after AtSector; the source is
\* out of its reach.
LEMMA AtSectorFacts ==
  ASSUME Inv, pc = "moving", offset < Size
  PROVE  /\ AtSector \in [Addresses -> Words]
         /\ \A w \in Addresses : w < offset \/ w >= offset + SectorWords => AtSector[w] = flash[w]
         /\ \E s \in 0 .. Sectors :
              /\ s * SectorWords < offset + 1 + SectorWords /\ offset + 1 <= s * SectorWords
              /\ \A w \in Addresses : offset <= w /\ w < s * SectorWords => AtSector[w] = Erased
<1> USE DEF Inv
<1>1. PICK s \in 0 .. Sectors :
        /\ s * SectorWords < offset + SectorWords /\ offset <= s * SectorWords
        /\ \A w \in Addresses : offset <= w /\ w < s * SectorWords => flash[w] = Erased
  BY DEF MoveInv, Begun
<1>2. /\ offset \in Nat /\ SectorWords \in Nat \ {0} /\ s * SectorWords \in Nat /\ Sectors \in Nat
      /\ flash \in [Addresses -> Words] /\ Size \in Nat
  BY SizeFacts DEF TypeOK
<1>3. CASE Aligned(offset)
  <2>1. PICK k \in 0 .. Sectors : offset = k * SectorWords
    BY <1>3 DEF Aligned
  <2>2. AtSector = Erase(flash, offset, offset + SectorWords)
    BY <1>3 DEF AtSector
  <2>3. k + 1 \in 0 .. Sectors /\ (k + 1) * SectorWords = offset + SectorWords
    <3>1. k + 1 \in 0 .. Sectors
      BY <2>1, SizeFacts
    <3>2. (k + 1) * SectorWords = k * SectorWords + SectorWords
      BY <1>2
    <3> QED BY <2>1, <3>1, <3>2
  <2>4. \A w \in Addresses : AtSector[w] = IF offset <= w /\ w < offset + SectorWords THEN Erased ELSE flash[w]
    BY <2>2 DEF Erase
  <2>5. AtSector \in [Addresses -> Words]
    BY <1>2, <2>2, EraseType
  <2>6. \A w \in Addresses : w < offset \/ w >= offset + SectorWords => AtSector[w] = flash[w]
    BY <1>2, <2>4 DEF Addresses
  <2>7. \A w \in Addresses : offset <= w /\ w < (k + 1) * SectorWords => AtSector[w] = Erased
    BY <2>3, <2>4
  <2>8. (k + 1) * SectorWords < offset + 1 + SectorWords /\ offset + 1 <= (k + 1) * SectorWords
    BY <1>2, <2>3
  <2> QED BY <2>3, <2>5, <2>6, <2>7, <2>8
<1>4. CASE ~Aligned(offset)
  <2>1. AtSector = flash
    BY <1>4 DEF AtSector
  <2>2. offset # s * SectorWords
    BY <1>4 DEF Aligned
  <2>3. s * SectorWords < offset + 1 + SectorWords /\ offset + 1 <= s * SectorWords
    BY <1>1, <1>2, <2>2
  <2> QED BY <1>1, <1>2, <2>1, <2>3
<1> QED BY <1>3, <1>4

\* One word is moved: the sector erased for it holds no word that is still to be moved.
LEMMA MoveWordInv ==
  ASSUME Inv, MoveWord
  PROVE  Inv'
<1> USE DEF Inv
<1> DEFINE f == AtSector
           b == upgrade.buffer_addr
<1>1. /\ pc = "moving" /\ upgrade # NoUpgrade /\ offset < upgrade.imagelen /\ offset' = offset + 1
      /\ flash' = [f EXCEPT ![offset] = Programmed(f[offset], f[b + offset])]
      /\ UNCHANGED <<running, pc, upgrade, abandoned>>
  BY DEF MoveWord, MoveInv
<1>2. /\ upgrade.imagelen \in 1 .. Size /\ b \in 0 .. Size /\ b + upgrade.imagelen <= Size
      /\ upgrade.hash \in Images /\ Size \in Nat /\ offset \in Nat
      /\ SectorWords \in Nat \ {0} /\ SectorWords <= b
  BY <1>1, UpgradeFacts, SizeFacts DEF BufferInv, TypeOK
<1>3. offset < Size /\ offset \in Addresses /\ b + offset \in Addresses /\ b + offset >= offset + SectorWords
  BY <1>1, <1>2 DEF Addresses
<1>4. /\ f \in [Addresses -> Words]
      /\ \A w \in Addresses : w < offset \/ w >= offset + SectorWords => f[w] = flash[w]
  BY <1>1, <1>3, AtSectorFacts
<1>5. PICK s \in 0 .. Sectors :
        /\ s * SectorWords < offset + 1 + SectorWords /\ offset + 1 <= s * SectorWords
        /\ \A w \in Addresses : offset <= w /\ w < s * SectorWords => f[w] = Erased
  BY <1>1, <1>3, AtSectorFacts
<1>s. s * SectorWords \in Nat
  BY <1>2
<1> HIDE DEF f
<1>6. f[offset] = Erased
  BY <1>2, <1>3, <1>5, <1>s
<1>7. f[b + offset] = upgrade.hash[offset + 1]
  <2>1. f[b + offset] = flash[b + offset]
    BY <1>3, <1>4
  <2>2. flash[b + offset] = upgrade.hash[offset + 1]
    BY <1>1, <1>2, <1>3, SMTT(40) DEF MoveInv, ToMove
  <2> QED BY <2>1, <2>2
<1>8. Programmed(f[offset], f[b + offset]) = upgrade.hash[offset + 1]
  BY <1>6, <1>7 DEF Programmed
<1>9. flash' \in [Addresses -> Words] /\ flash'[offset] = upgrade.hash[offset + 1]
  <2>1. f[b + offset] \in Words
    BY <1>3, <1>4
  <2> QED BY <1>1, <1>3, <1>4, <1>7, <1>8, <2>1
<1>10. \A w \in Addresses : w # offset => flash'[w] = f[w]
  BY <1>1, <1>4
<1>11. upgrade.imagelen = Len(upgrade.hash)
  BY <1>1 DEF MoveInv
<1>12. TypeOK'
  BY <1>1, <1>2, <1>3, <1>9 DEF TypeOK
<1>13. Moved'
  <2>1. ASSUME NEW w \in Addresses, w < offset + 1 PROVE flash'[w] = Loaded(upgrade.hash)[w]
    <3>1. CASE w = offset
      <4>1. Loaded(upgrade.hash)[offset] = upgrade.hash[offset + 1]
        BY <1>1, <1>3, <1>11 DEF Loaded
      <4> QED BY <1>9, <3>1, <4>1
    <3>2. CASE w # offset
      <4>1. w < offset
        BY <1>2, <2>1, <3>2 DEF Addresses
      <4>2. flash[w] = Loaded(upgrade.hash)[w]
        BY <1>1, <4>1 DEF MoveInv, Moved
      <4> QED BY <1>4, <1>10, <3>2, <4>1, <4>2
    <3> QED BY <3>1, <3>2
  <2> QED BY <1>1, <2>1 DEF Moved, Loaded
<1>14. ToMove'
  <2>1. ASSUME NEW w \in Addresses, offset + 1 <= w, w < upgrade.imagelen
        PROVE flash'[b + w] = upgrade.hash[w + 1]
    <3>1. b + w \in Addresses /\ b + w >= offset + SectorWords /\ b + w # offset /\ offset <= w
      BY <1>2, <2>1 DEF Addresses
    <3>2. flash[b + w] = upgrade.hash[w + 1]
      BY <1>1, <2>1, <3>1 DEF MoveInv, ToMove
    <3> QED BY <1>4, <1>10, <3>1, <3>2
  <2> QED BY <1>1, <2>1 DEF ToMove
<1>15. Begun'
  <2>1. ASSUME NEW w \in Addresses, offset + 1 <= w, w < s * SectorWords PROVE flash'[w] = Erased
    <3>1. w # offset /\ offset <= w
      BY <1>2, <2>1 DEF Addresses
    <3> QED BY <1>5, <1>10, <2>1, <3>1
  <2> QED BY <1>1, <1>5, <2>1 DEF Begun
<1>16. MoveInv'
  BY <1>1, <1>11, <1>13, <1>14, <1>15 DEF MoveInv
<1>17. RunningImageIntact' /\ BufferIsErased' /\ CleanInv'
  BY <1>1 DEF RunningImageIntact, BufferIsErased, CleanInv
<1>18. BufferInv'
  BY <1>1 DEF BufferInv, Aligned
<1> QED BY <1>12, <1>16, <1>17, <1>18

\* Behind the image sectors are erased.
LEMMA MoveEraseInv ==
  ASSUME Inv, MoveErase
  PROVE  Inv'
<1> USE DEF Inv
<1> DEFINE f == AtSector
<1>1. /\ pc = "moving" /\ upgrade # NoUpgrade /\ upgrade.imagelen <= offset /\ offset < Size
      /\ offset' = offset + 1 /\ flash' = f
      /\ UNCHANGED <<running, pc, upgrade, abandoned>>
  BY DEF MoveErase, MoveInv
<1>2. /\ upgrade.imagelen \in 1 .. Size /\ upgrade.hash \in Images /\ Size \in Nat /\ offset \in Nat
      /\ upgrade.imagelen = Len(upgrade.hash) /\ SectorWords \in Nat /\ offset \in Addresses
  BY <1>1, UpgradeFacts, SizeFacts DEF TypeOK, MoveInv, Addresses
<1>4. /\ f \in [Addresses -> Words]
      /\ \A w \in Addresses : w < offset \/ w >= offset + SectorWords => f[w] = flash[w]
  BY <1>1, AtSectorFacts
<1>5. PICK s \in 0 .. Sectors :
        /\ s * SectorWords < offset + 1 + SectorWords /\ offset + 1 <= s * SectorWords
        /\ \A w \in Addresses : offset <= w /\ w < s * SectorWords => f[w] = Erased
  BY <1>1, AtSectorFacts
<1>s. s * SectorWords \in Nat
  BY <1>2
<1> HIDE DEF f
<1>6. TypeOK'
  BY <1>1, <1>2, <1>4 DEF TypeOK
<1>7. Moved'
  <2>1. ASSUME NEW w \in Addresses, w < offset + 1 PROVE flash'[w] = Loaded(upgrade.hash)[w]
    <3>1. CASE w = offset
      <4>1. Loaded(upgrade.hash)[offset] = Erased
        BY <1>1, <1>2 DEF Loaded
      <4>2. f[offset] = Erased
        BY <1>2, <1>5, <1>s
      <4> QED BY <1>1, <3>1, <4>1, <4>2
    <3>2. CASE w # offset
      <4>1. w < offset
        BY <1>2, <2>1, <3>2 DEF Addresses
      <4>2. flash[w] = Loaded(upgrade.hash)[w]
        BY <1>1, <4>1 DEF MoveInv, Moved
      <4> QED BY <1>1, <1>4, <4>1, <4>2
    <3> QED BY <3>1, <3>2
  <2> QED BY <1>1, <2>1 DEF Moved, Loaded
<1>8. ToMove'
  BY <1>1, <1>2 DEF ToMove, Addresses
<1>9. Begun'
  <2>1. ASSUME NEW w \in Addresses, offset + 1 <= w, w < s * SectorWords PROVE flash'[w] = Erased
    <3>1. offset <= w
      BY <1>2, <2>1 DEF Addresses
    <3> QED BY <1>1, <1>5, <2>1, <3>1
  <2> QED BY <1>1, <1>5, <2>1 DEF Begun
<1>10. MoveInv'
  BY <1>1, <1>2, <1>7, <1>8, <1>9 DEF MoveInv
<1>11. RunningImageIntact' /\ BufferIsErased' /\ CleanInv'
  BY <1>1 DEF RunningImageIntact, BufferIsErased, CleanInv
<1>12. BufferInv'
  BY <1>1 DEF BufferInv, Aligned
<1> QED BY <1>6, <1>10, <1>11, <1>12

\* The flash at the end of the move, with which the processor reboots.
LEMMA MoveResult ==
  ASSUME Inv, pc = "moving", offset = Size
  PROVE  upgrade.hash \in Images /\ flash = Loaded(upgrade.hash)
<1> USE DEF Inv
<1>1. upgrade.hash \in Images /\ Moved
  BY UpgradeFacts DEF MoveInv
<1>2. ASSUME NEW w \in Addresses PROVE flash[w] = Loaded(upgrade.hash)[w]
  <2>1. w < offset
    BY SizeFacts DEF Addresses
  <2> QED BY <1>1, <2>1 DEF Moved
<1>3. flash \in [Addresses -> Words] /\ Loaded(upgrade.hash) \in [Addresses -> Words]
  BY <1>1, LoadedType DEF TypeOK
<1> QED BY <1>1, <1>2, <1>3

\* The reboot behind flash_move().
LEMMA MoveEndInv ==
  ASSUME Inv, MoveEnd
  PROVE  Inv'
<1> USE DEF Inv
<1>1. /\ pc = "moving" /\ offset = Size /\ pc' = "off" /\ upgrade' = NoUpgrade /\ offset' = 0
      /\ abandoned' = FALSE /\ UNCHANGED <<flash, running>>
  BY DEF MoveEnd
<1>2. TypeOK'
  <2>1. flash' \in [Addresses -> Words] /\ running' \in Images
    BY <1>1 DEF TypeOK
  <2>2. abandoned' \in BOOLEAN
    BY <1>1
  <2>3. offset' \in 0 .. Size
    BY <1>1, SizeFacts
  <2> QED BY <1>1, <2>1, <2>2, <2>3 DEF TypeOK
<1>3. RunningImageIntact' /\ BufferIsErased' /\ BufferInv' /\ MoveInv'
  BY <1>1 DEF RunningImageIntact, BufferIsErased, BufferInv, MoveInv
<1>4. CleanInv'
  BY <1>1, MoveResult DEF CleanInv, Loaded
<1> QED BY <1>2, <1>3, <1>4

-----------------------------------------------------------------------------
(* The environment preserves the invariant *)

\* A flash that is clean, while no upgrade is running, is one loaded by cable.
LEMMA CleanFlash ==
  ASSUME Inv, pc = "running", upgrade = NoUpgrade, ~abandoned
  PROVE  running \in Images /\ flash = Loaded(running)
<1>1. running \in Images /\ flash \in [Addresses -> Words]
  BY DEF Inv, TypeOK
<1>2. Loaded(running) \in [Addresses -> Words]
  BY <1>1, LoadedType
<1>3. \A w \in Addresses : flash[w] = Loaded(running)[w]
  BY DEF Inv, CleanInv
<1> QED BY <1>1, <1>2, <1>3

\* Power loss and faults leave the flash as it is.
LEMMA OffInv ==
  ASSUME Inv, PowerLoss \/ NullPointer
  PROVE  Inv'
<1> USE DEF Inv
<1>1. /\ pc' = "off" /\ upgrade' = NoUpgrade /\ offset' \in 0 .. Size
      /\ UNCHANGED <<flash, running>>
  BY SizeFacts DEF PowerLoss, NullPointer, TypeOK
<1>2. abandoned' \in BOOLEAN
  BY DEF PowerLoss, NullPointer, TypeOK
<1>3. TypeOK'
  BY <1>1, <1>2 DEF TypeOK
<1>4. RunningImageIntact' /\ BufferIsErased' /\ BufferInv' /\ MoveInv'
  BY <1>1 DEF RunningImageIntact, BufferIsErased, BufferInv, MoveInv
<1>5. ASSUME ~abandoned' PROVE pc = "running" /\ upgrade = NoUpgrade /\ ~abandoned
  <2>1. CASE PowerLoss
    BY <1>5, <2>1 DEF PowerLoss, MoveInv
  <2>2. CASE NullPointer
    BY <1>5, <2>2 DEF NullPointer
  <2> QED BY <2>1, <2>2
<1>6. CleanInv'
  <2>1. ASSUME ~abandoned' PROVE \E img \in Images : flash' = Loaded(img)
    BY <1>1, <1>5, <2>1, CleanFlash
  <2> QED BY <1>1, <2>1 DEF CleanInv, Loaded
<1> QED BY <1>3, <1>4, <1>6

\* The image that boots is the one that was loaded.
LEMMA BootInv ==
  ASSUME Inv, NEW img \in Images, Boot(img)
  PROVE  Inv'
<1> USE DEF Inv
<1>1. /\ pc = "off" /\ pc' = "running" /\ running' = img /\ Holds(flash, img)
      /\ UNCHANGED <<flash, upgrade, offset, abandoned>>
  BY DEF Boot
<1>2. upgrade = NoUpgrade
  BY <1>1 DEF BufferInv
<1>3. TypeOK'
  BY <1>1 DEF TypeOK
<1>4. RunningImageIntact'
  BY <1>1 DEF RunningImageIntact, Holds
<1>5. BufferIsErased' /\ BufferInv' /\ MoveInv'
  BY <1>1, <1>2 DEF BufferIsErased, BufferInv, MoveInv
<1>6. ASSUME ~abandoned PROVE flash = Loaded(img)
  <2>1. PICK a \in Images : flash = Loaded(a)
    BY <1>1, <1>6 DEF CleanInv
  <2>2. ASSUME NEW w \in 1 .. Len(img)
        PROVE img[w] = IF w <= Len(a) THEN a[w] ELSE Erased
    <3>1. /\ w - 1 \in 0 .. Len(img) - 1 /\ w - 1 \in Addresses /\ w - 1 + 1 = w
          /\ w - 1 < Len(a) <=> w <= Len(a)
      BY ImageFacts, SizeFacts DEF Addresses
    <3>2. flash[w - 1] = img[w]
      BY <1>1, <3>1 DEF Holds
    <3>3. flash[w - 1] = IF w - 1 < Len(a) THEN a[w - 1 + 1] ELSE Erased
      BY <2>1, <3>1 DEF Loaded
    <3> QED BY <3>1, <3>2, <3>3
  <2>3. a = img
    BY <2>2, DistinctAssumption
  <2> QED BY <2>1, <2>3
<1>7. CleanInv'
  BY <1>1, <1>6 DEF CleanInv, Loaded
<1> QED BY <1>3, <1>4, <1>5, <1>7

\* A load by cable cleans the flash.
LEMMA LoadByCableInv ==
  ASSUME Inv, NEW img \in Images, LoadByCable(img)
  PROVE  Inv'
<1> USE DEF Inv
<1>1. /\ flash' = Loaded(img) /\ running' = img
      /\ pc' = "running" /\ upgrade' = NoUpgrade /\ offset' = 0 /\ abandoned' = FALSE
  BY DEF LoadByCable
<1>2. TypeOK'
  <2>1. flash' \in [Addresses -> Words] /\ running' \in Images
    BY <1>1, LoadedType
  <2>2. abandoned' \in BOOLEAN
    BY <1>1
  <2>3. offset' \in 0 .. Size
    BY <1>1, SizeFacts
  <2> QED BY <1>1, <2>1, <2>2, <2>3 DEF TypeOK
<1>3. RunningImageIntact'
  BY <1>1, LoadedType DEF RunningImageIntact, Holds, Loaded
<1>4. BufferIsErased' /\ BufferInv' /\ MoveInv'
  BY <1>1 DEF BufferIsErased, BufferInv, MoveInv
<1>5. CleanInv'
  BY <1>1 DEF CleanInv, Loaded
<1> QED BY <1>2, <1>3, <1>4, <1>5

\* Without a complete image nothing runs.
LEMMA BootFailsInv ==
  ASSUME Inv, BootFails
  PROVE  Inv'
<1> USE DEF Inv
<1>1. pc = "off" /\ pc' = "dead" /\ UNCHANGED <<flash, running, upgrade, offset, abandoned>>
  BY DEF BootFails
<1>2. upgrade = NoUpgrade
  BY <1>1 DEF BufferInv
<1>3. TypeOK'
  BY <1>1 DEF TypeOK
<1>4. RunningImageIntact' /\ BufferIsErased' /\ BufferInv' /\ MoveInv' /\ CleanInv'
  BY <1>1, <1>2 DEF RunningImageIntact, BufferIsErased, BufferInv, MoveInv, CleanInv
<1> QED BY <1>3, <1>4

\* Stuttering steps preserve the invariant.
LEMMA StutterInv ==
  ASSUME Inv, UNCHANGED vars
  PROVE  Inv'
BY DEF Inv, vars, TypeOK, RunningImageIntact, BufferIsErased, BufferInv, MoveInv, CleanInv,
       Holds, Loaded, Aligned, Moved, ToMove, Begun

\* Every step preserves the invariant.
LEMMA StepInv ==
  ASSUME Inv, [Next]_vars
  PROVE  Inv'
<1>1. CASE Messages
  <2>1. ASSUME NEW hash \in Images, NEW imagelen \in 1 .. Size, NEW s \in 0 .. Sectors,
               InitUpgrade(hash, imagelen, s)
        PROVE Inv'
    BY <2>1, InitUpgradeInv
  <2>2. ASSUME NEW chunk \in Chunks, Stream(chunk) PROVE Inv'
    <3>1. chunk \in Seq(Data \cup {Erased})
      BY DEF Chunks
    <3> QED BY <2>2, <3>1, StreamInv
  <2> QED BY <1>1, <2>1, <2>2, AbortInterruptedInv, OffInv, AbortInv, CompleteInv DEF Messages
<1>2. CASE Move
  BY <1>2, MoveWordInv, MoveEraseInv, MoveEndInv DEF Move
<1>3. CASE Environment
  BY <1>3, OffInv, BootFailsInv, BootInv, LoadByCableInv DEF Environment
<1> QED BY <1>1, <1>2, <1>3, StutterInv DEF Next

-----------------------------------------------------------------------------
(* Theorems *)

\* The inductive invariant holds in every reachable state.
THEOREM InvHolds == Spec => []Inv
BY InitInv, StepInv, PTL DEF Spec

\* flasher: the fields of a running upgrade stay within the buffer, whatever is streamed.
THEOREM TypeCorrect == Spec => []TypeOK
<1>1. Inv => TypeOK
  BY DEF Inv
<1> QED BY <1>1, InvHolds, PTL

\* firmware_buffer_init(), stream(), abort(): no upload changes the running image.
THEOREM RunningImageIsIntact == Spec => []RunningImageIntact
<1>1. Inv => RunningImageIntact
  BY DEF Inv
<1> QED BY <1>1, InvHolds, PTL

\* complete() and flash_move(): the announced image is installed, and everything behind it
\* is erased, also when it is longer than the distance between source and destination.
THEOREM AnnouncedIsMoved == Spec => []MovedIsAnnounced
<1>1. Inv => MovedIsAnnounced
  BY MoveResult DEF MovedIsAnnounced
<1> QED BY <1>1, InvHolds, PTL

\* stream() writes to erased flash only.
THEOREM WritesToErased == Spec => []BufferIsErased
<1>1. Inv => BufferIsErased
  BY DEF Inv
<1> QED BY <1>1, InvHolds, PTL

\* abort() and flash_move() leave nothing of an upload.
THEOREM NothingLeft == Spec => []NothingIsLeft
<1>1. Inv => NothingIsLeft
  BY CleanFlash DEF NothingIsLeft
<1> QED BY <1>1, InvHolds, PTL

\* The update as a whole, for every flash and all images: uploads, the running image, the
\* move, writes to erased flash, and what is left behind.
THEOREM FirmwareSafe == Spec => []FirmwareIsSafe
  BY TypeCorrect, RunningImageIsIntact, AnnouncedIsMoved, WritesToErased, NothingLeft, PTL DEF FirmwareIsSafe
=============================================================================
