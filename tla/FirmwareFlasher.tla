-------------------------- MODULE FirmwareFlasher --------------------------
(***************************************************************************)
(* Firmware update over the network (controller/src/ota/flasher).          *)
(*                                                                         *)
(* A new image is streamed into the erased flash above the running one and *)
(* then moved over it, word by word, erasing sectors on the way.  Power    *)
(* may be lost at any time; what is in RAM is lost with it.  Addresses     *)
(* count words of 4 bytes from FLASH_BASE_ADDR, up to FLASH_RESERVE.        *)
(***************************************************************************)
EXTENDS Integers, Sequences

CONSTANTS
  SectorWords, Sectors,   \* words of a sector, sectors below the reserve
  Data,                   \* contents of a word that is not erased
  Erased, Mixed,          \* 0xFFFFFFFF, and a word that was programmed twice
  Images,                 \* bound: the firmware images there are
  ChunkWords,             \* bound: words in one message
  NoUpgrade

Size == SectorWords * Sectors
Addresses == 0 .. Size - 1
Words == Data \cup {Erased, Mixed}

ASSUME SizeAssumption == SectorWords \in Nat \ {0} /\ Sectors \in Nat \ {0}
ASSUME WordAssumption == Erased \notin Data /\ Mixed \notin Data /\ Erased # Mixed
ASSUME ImageAssumption ==
  \A img \in Images : img \in Seq(Data \cup {Erased}) /\ Len(img) \in 1 .. Size
\* An image carries its length, so that no other begins like it, and its last sector is
\* not empty.
ASSUME DistinctAssumption ==
  \A a, b \in Images : (\A w \in 1 .. Len(b) : b[w] = IF w <= Len(a) THEN a[w] ELSE Erased) => a = b
ASSUME EndAssumption ==
  \A img \in Images : \E w \in 1 .. Len(img) :
    img[w] # Erased /\ \A s \in 0 .. Sectors : w <= s * SectorWords => Len(img) <= s * SectorWords
\* FirmwareBuffer: the hash stands for the image it was computed of.
Upgrades == [hash : Images, imagelen : 1 .. Size, bytes_transmitted : 0 .. Size, buffer_addr : 0 .. Size]

ASSUME UpgradeAssumption == NoUpgrade \notin Upgrades

VARIABLES
  flash,        \* address -> word
  running,      \* the image that the processor has booted
  pc,           \* "running" | "moving" (in flash_move) | "off" | "dead" (nothing to boot)
  upgrade,      \* the FirmwareBuffer
  offset,       \* local of flash_move()
  abandoned     \* history: an upload was interrupted since the flash was last cleaned up

vars == <<flash, running, pc, upgrade, offset, abandoned>>

\* The image img at the beginning of the flash f
Holds(f, img) == \A w \in 0 .. Len(img) - 1 : f[w] = img[w + 1]

\* The flash after an image has been loaded by cable
Loaded(img) == [w \in Addresses |-> IF w < Len(img) THEN img[w + 1] ELSE Erased]

Init ==
  /\ running \in Images /\ flash = Loaded(running)
  /\ pc = "running" /\ upgrade = NoUpgrade /\ offset = 0 /\ abandoned = FALSE

-----------------------------------------------------------------------------
(* Access to the flash *)

\* Programming clears bits only.
Programmed(old, new) ==
  IF old = Erased THEN new ELSE IF new \in {old, Erased} THEN old ELSE Mixed

Erase(f, from, to) == [w \in Addresses |-> IF from <= w /\ w < to THEN Erased ELSE f[w]]

\* (address & (FLASH_SECTOR_SIZE - 1)) == 0
Aligned(address) == \E s \in 0 .. Sectors : address = s * SectorWords

\* flash_erase_block(), from a sector boundary to the reserve
EraseFromBelow(f, start) == Erase(f, start - SectorWords, Size)
EraseBlock(f, start) == IF Aligned(start) THEN Erase(f, start, Size) ELSE f

\* flash_write_block()
WriteBlock(f, addr, chunk) ==
  [w \in Addresses |-> IF addr <= w /\ w < addr + Len(chunk)
                         THEN Programmed(f[w], chunk[w - addr + 1]) ELSE f[w]]

\* firmware_buffer_init(): the first sector above the last word that is not erased
BufferStart(b) ==
  /\ \A w \in Addresses : w >= b => flash[w] = Erased
  /\ \E w \in Addresses : b - SectorWords <= w /\ flash[w] # Erased

-----------------------------------------------------------------------------
(* The messages *)

\* init(), for an image of that hash and length
InitUpgrade(hash, imagelen, s) ==
  /\ pc = "running" /\ upgrade = NoUpgrade /\ BufferStart(s * SectorWords)
  /\ imagelen <= Size - s * SectorWords
  /\ upgrade' = [hash |-> hash, imagelen |-> imagelen, bytes_transmitted |-> 0,
                 buffer_addr |-> s * SectorWords]
  /\ UNCHANGED <<flash, running, pc, offset, abandoned>>

\* init() of an image that is too large, and complete() without an upgrade, use a null
\* pointer: the processor is reset, or (init erases the buffer it has just found) nothing
\* happens.
NullPointer ==
  /\ pc = "running" /\ upgrade = NoUpgrade
  /\ pc' = "off"
  /\ UNCHANGED <<flash, running, upgrade, offset, abandoned>>

transfer_completed == upgrade.bytes_transmitted = upgrade.imagelen

\* Not more than has been announced
NotTooLong(chunk) == upgrade.bytes_transmitted + Len(chunk) <= upgrade.imagelen

Advanced(chunk) == upgrade.bytes_transmitted + Len(chunk)

\* stream(), if the chunk is not refused.  A power loss after a part of the chunk is one
\* after a shorter chunk.
Stream(chunk) ==
  /\ pc = "running" /\ upgrade # NoUpgrade
  /\ ~transfer_completed /\ NotTooLong(chunk)
  /\ flash' = WriteBlock(flash, upgrade.buffer_addr + upgrade.bytes_transmitted, chunk)
  /\ upgrade' = [upgrade EXCEPT !.bytes_transmitted = Advanced(chunk)]
  /\ UNCHANGED <<running, pc, offset, abandoned>>

\* abort(): the destructor of FirmwareBuffer erases the buffer.
Abort ==
  /\ pc = "running" /\ upgrade # NoUpgrade
  /\ flash' = EraseBlock(flash, upgrade.buffer_addr) /\ upgrade' = NoUpgrade
  /\ UNCHANGED <<running, pc, offset, abandoned>>

\* Power is lost after some sectors.
AbortInterrupted(sectors) ==
  /\ pc = "running" /\ upgrade # NoUpgrade
  /\ flash' = Erase(flash, upgrade.buffer_addr, upgrade.buffer_addr + sectors * SectorWords)
  /\ pc' = "off" /\ upgrade' = NoUpgrade /\ abandoned' = TRUE
  /\ UNCHANGED <<running, offset>>

\* The SHA256 of the buffer is that of the announced image.
HashCorrect ==
  /\ upgrade.imagelen = Len(upgrade.hash)
  /\ \A w \in 0 .. upgrade.imagelen - 1 : flash[upgrade.buffer_addr + w] = upgrade.hash[w + 1]

\* complete(), if nothing is refused
Complete ==
  /\ pc = "running" /\ upgrade # NoUpgrade /\ transfer_completed /\ HashCorrect
  /\ pc' = "moving" /\ offset' = 0
  /\ UNCHANGED <<flash, running, upgrade, abandoned>>

-----------------------------------------------------------------------------
(* flash_move() *)

\* Each sector is erased before its first word is written.
AtSector == IF Aligned(offset) THEN Erase(flash, offset, offset + SectorWords) ELSE flash

MoveWord ==
  /\ pc = "moving" /\ offset < upgrade.imagelen
  /\ flash' = [AtSector EXCEPT ![offset] = Programmed(@, AtSector[upgrade.buffer_addr + offset])]
  /\ offset' = offset + 1
  /\ UNCHANGED <<running, pc, upgrade, abandoned>>

\* Behind the image everything is erased.
MoveErase ==
  /\ pc = "moving" /\ upgrade.imagelen <= offset /\ offset < Size
  /\ flash' = AtSector /\ offset' = offset + 1
  /\ UNCHANGED <<running, pc, upgrade, abandoned>>

\* REBOOT
MoveEnd ==
  /\ pc = "moving" /\ offset = Size
  /\ pc' = "off" /\ upgrade' = NoUpgrade /\ offset' = 0 /\ abandoned' = FALSE
  /\ UNCHANGED <<flash, running>>

-----------------------------------------------------------------------------
(* The environment *)

PowerLoss ==
  /\ pc \in {"running", "moving"}
  /\ pc' = "off" /\ upgrade' = NoUpgrade /\ offset' = 0
  /\ abandoned' = (abandoned \/ upgrade # NoUpgrade)
  /\ UNCHANGED <<flash, running>>

Boot(img) ==
  /\ pc = "off" /\ Holds(flash, img)
  /\ pc' = "running" /\ running' = img
  /\ UNCHANGED <<flash, upgrade, offset, abandoned>>

BootFails ==
  /\ pc = "off" /\ \A img \in Images : ~Holds(flash, img)
  /\ pc' = "dead"
  /\ UNCHANGED <<flash, running, upgrade, offset, abandoned>>

\* teensy_loader over USB
LoadByCable(img) ==
  /\ pc \in {"running", "dead"}
  /\ flash' = Loaded(img) /\ running' = img
  /\ pc' = "running" /\ upgrade' = NoUpgrade /\ offset' = 0 /\ abandoned' = FALSE

-----------------------------------------------------------------------------
Chunks == UNION {[1 .. n -> Data \cup {Erased}] : n \in 1 .. ChunkWords}

Messages ==
  \/ \E hash \in Images, imagelen \in 1 .. Size, s \in 0 .. Sectors : InitUpgrade(hash, imagelen, s)
  \/ \E chunk \in Chunks : Stream(chunk)
  \/ \E sectors \in 0 .. Sectors - 1 : AbortInterrupted(sectors)
  \/ NullPointer \/ Abort \/ Complete

Move == MoveWord \/ MoveErase \/ MoveEnd

Environment ==
  \/ PowerLoss \/ BootFails
  \/ \E img \in Images : Boot(img) \/ LoadByCable(img)

Next == Messages \/ Move \/ Environment

Spec == Init /\ [][Next]_vars

-----------------------------------------------------------------------------
(* Properties *)

\* Type invariant of the flash and of a running upgrade.
TypeOK ==
  /\ flash \in [Addresses -> Words] /\ running \in Images
  /\ pc \in {"running", "moving", "off", "dead"} /\ abandoned \in BOOLEAN
  /\ upgrade \in Upgrades \cup {NoUpgrade} /\ offset \in 0 .. Size
  /\ upgrade # NoUpgrade => /\ upgrade.bytes_transmitted <= upgrade.imagelen
                            /\ upgrade.buffer_addr + upgrade.imagelen <= Size

\* firmware_buffer_init(), stream() and abort(): until complete() moves the new image, no
\* sequence of uploads, interruptions and aborts changes a word of the running one.
RunningImageIntact == pc = "running" => Holds(flash, running)

\* complete() and flash_move(): when the processor is rebooted the flash is that of a device
\* which got the announced image by cable, although source and destination may overlap.
MovedIsAnnounced == pc = "moving" /\ offset = Size => flash = Loaded(upgrade.hash)

\* flasher.cpp:366: stream() writes to erased flash only.
BufferIsErased ==
  pc = "running" /\ upgrade # NoUpgrade =>
    \A w \in Addresses : w >= upgrade.buffer_addr + upgrade.bytes_transmitted => flash[w] = Erased

\* abort() and flash_move(): unless an upload has been abandoned, nothing is left of it and
\* the whole flash above the running image is available to the next one.
NothingIsLeft ==
  pc = "running" /\ upgrade = NoUpgrade /\ ~abandoned => flash = Loaded(running)

\* init(), stream(), abort(), complete() and flash_move() together: uploads stay in their
\* buffer, the running image is intact until the announced one takes its place, only erased
\* flash is written, and nothing is left behind.
FirmwareIsSafe == TypeOK /\ RunningImageIntact /\ MovedIsAnnounced /\ BufferIsErased /\ NothingIsLeft
=============================================================================
