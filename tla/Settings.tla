------------------------------ MODULE Settings ------------------------------
(***************************************************************************)
(* Persistent settings and start-up: net::register_settings() reads the    *)
(* EEPROM, setup() starts the network and its servers, net_set changes the *)
(* settings and writes them back.  Power may be lost at any time.          *)
(*                                                                         *)
(* The EEPROM holds one JSON document, written from its beginning without  *)
(* erasing what an older and longer one has left behind it.  A cell of the *)
(* model is a stretch of this text.  Vendor data, network settings, flags  *)
(* of the Gatekeeper and its users are told apart; a user takes one cell.  *)
(***************************************************************************)
EXTENDS Integers, Sequences, FiniteSets

CONSTANTS
  NetChoices,      \* bound: network settings in use, [dhcp, ip, jsonl, web]
  DefaultNet,      \* those of StartupConfig::reset_defaults()
  UserCounts,      \* bound: numbers of users a client sets
  WriteCapacity,   \* cells that fit into the document that is written
  ReadCapacity,    \* cells that fit when it is read: then the keys need memory too
  MaxSets,         \* bound: messages of the client
  MaxLosses        \* bound: losses of power

ASSUME SettingsAssumption ==
  /\ NetChoices \subseteq [dhcp : BOOLEAN, ip : {"valid", "invalid"}, jsonl : BOOLEAN, web : BOOLEAN]
  /\ DefaultNet \in NetChoices /\ DefaultNet.ip = "valid"
  /\ \A net \in NetChoices : [dhcp |-> net.dhcp, ip |-> "valid", jsonl |-> net.jsonl, web |-> net.web] \in NetChoices
  /\ UserCounts \subseteq Nat /\ {WriteCapacity, ReadCapacity, MaxSets, MaxLosses} \subseteq Nat
  /\ 6 <= ReadCapacity /\ ReadCapacity <= WriteCapacity   \* the settings of a new device fit

VARIABLES
  eeprom,      \* the cells of the EEPROM
  mem,         \* the settings in RAM: vendor, net, auth (enable_auth), users
  userDoc,     \* whether PermanentUserDefinedStuff holds data
  phase,       \* where setup(), loop() and write_to_eeprom() are
  written,     \* cells that write_to_eeprom() has written
  listening,   \* the servers that setup() has begun, and "ip"
  address,     \* the static address in use
  saved,       \* history: the settings of the last write that was completed
  intact,      \* history: no write has been cut off since
  readFailed,  \* history: some start could not read the settings
  budget       \* bound: messages and losses of power so far

sVars == <<eeprom, mem, userDoc, phase, written, listening, address, saved, intact, readFailed, budget>>

Vendor == {"valid", "invalid"}
Blank == [key |-> "blank", value |-> 0]
Garbled == [key |-> "garbled", value |-> 0]
Cell(key, value) == [key |-> key, value |-> value]

\* HeapSingleton::get(): all zero, but for the constructor of StartupConfig.
PowerUp == [vendor |-> "invalid", net |-> DefaultNet, auth |-> FALSE, users |-> 0]

-----------------------------------------------------------------------------
(* The document *)

\* Vendor data that is not valid is shorter.
VendorText(v) == IF v = "valid" THEN <<Cell("vendor", 1), Cell("vendor", 2)>> ELSE <<Cell("vendor", 0)>>
Entries(n) == [i \in 1..n |-> Cell("user", i)]
EndOfText == <<Cell("end", 0)>>

\* toJson() in the order of the subsystems, as text.
Text(s) == VendorText(s.vendor) \o <<Cell("net", s.net), Cell("auth", s.auth)>> \o Entries(s.users) \o EndOfText

\* What does not fit into the document is dropped without notice.
Fitting(s) ==
  LET room == WriteCapacity - Len(Text([s EXCEPT !.users = 0])) + 1
  IN  [s EXCEPT !.users = IF @ > room THEN room ELSE @]

AllSettings == [vendor : Vendor, net : NetChoices, auth : BOOLEAN, users : Nat]
Documents == [vendor : Vendor, net : NetChoices, auth : BOOLEAN, users : 0..WriteCapacity]

\* The documents that the text of the EEPROM may be read as: one, or none.  A
\* stretch that a loss of power has cut may be read as anything.
ReadAs(d) ==
  LET text == Text(d)
  IN  Len(text) <= Len(eeprom) /\ \A i \in DOMAIN text : eeprom[i] \in {text[i], Garbled}

FitsReading(d) == Len(Text(d)) - 1 <= ReadCapacity

\* Mutant: the flags of the Gatekeeper are not read.
LoadedWithoutAuth(d) == [d EXCEPT !.auth = TRUE]

\* fromJson() with Context::Flash
LoadedFrom(d) == d

\* reset_defaults(): vendor data is left as it is, which is empty at start.  The
\* default passwords are part of it.
Defaults(m) ==
  [vendor |-> m.vendor, net |-> DefaultNet, auth |-> TRUE, users |-> IF m.vendor = "valid" THEN 2 ELSE 0]

-----------------------------------------------------------------------------
SInit ==
  /\ mem = [vendor |-> "valid", net |-> DefaultNet, auth |-> TRUE, users |-> 2]
  /\ eeprom = Text(mem) /\ saved = mem /\ intact = TRUE
  /\ userDoc = FALSE /\ phase = "off" /\ written = 0 /\ readFailed = FALSE
  /\ listening = {} /\ address = "none"
  /\ budget = [sets |-> 0, losses |-> 0]

\* register_settings() and read_from_eeprom(): a document is read ...
ReadEeprom(d) ==
  /\ phase = "off"
  /\ ReadAs(d) /\ FitsReading(d)
  /\ mem' = LoadedFrom(d)
  /\ phase' = "setup" /\ userDoc' = FALSE /\ listening' = {} /\ address' = "none"
  /\ UNCHANGED <<eeprom, written, saved, intact, readFailed, budget>>

\* ... or it does not parse, or needs more memory than there is.
ReadEepromFails ==
  /\ phase = "off"
  /\ \/ \A d \in Documents : ~(ReadAs(d) /\ FitsReading(d))
     \/ \E d \in Documents : ReadAs(d) /\ \E i \in DOMAIN Text(d) : eeprom[i] = Garbled
  /\ mem' = Defaults(PowerUp) /\ readFailed' = TRUE
  /\ phase' = "setup" /\ userDoc' = FALSE /\ listening' = {} /\ address' = "none"
  /\ UNCHANGED <<eeprom, written, saved, intact, budget>>

\* begin_ip() with DHCP: no client, or no lease within ten seconds.
BeginDhcp(ok_) ==
  /\ phase = "setup" /\ mem.net.dhcp
  /\ listening' = IF ok_ THEN {"ip"} ELSE {}
  /\ phase' = "servers"
  /\ UNCHANGED <<eeprom, mem, userDoc, written, address, saved, intact, readFailed, budget>>

\* The network settings with a legal address
LegalAddress(net) == [dhcp |-> net.dhcp, ip |-> "valid", jsonl |-> net.jsonl, web |-> net.web]

\* begin_ip() with a static address: an illegal one is replaced for good.
BeginStatic(ok_) ==
  /\ phase = "setup" /\ ~mem.net.dhcp
  /\ mem' = [mem EXCEPT !.net = LegalAddress(@)] /\ address' = mem'.net.ip
  /\ listening' = IF ok_ THEN {"ip"} ELSE {}
  /\ phase' = "servers"
  /\ UNCHANGED <<eeprom, userDoc, written, saved, intact, readFailed, budget>>

\* Mutant: without a network setup() waits for one.
WaitForNetwork ==
  /\ phase = "servers" /\ "ip" \in listening
  /\ listening' = listening \cup (IF mem.net.jsonl THEN {"jsonl"} ELSE {}) \cup (IF mem.net.web THEN {"web"} ELSE {})
  /\ phase' = "running"
  /\ UNCHANGED <<eeprom, mem, userDoc, written, address, saved, intact, readFailed, budget>>

\* The rest of setup(): the servers, if there is a network.
BeginServers ==
  /\ phase = "servers"
  /\ listening' = IF "ip" \in listening
                    THEN listening \cup (IF mem.net.jsonl THEN {"jsonl"} ELSE {}) \cup (IF mem.net.web THEN {"web"} ELSE {})
                    ELSE {}
  /\ phase' = "running"
  /\ UNCHANGED <<eeprom, mem, userDoc, written, address, saved, intact, readFailed, budget>>

-----------------------------------------------------------------------------
(* Messages *)

\* fromJson() with Context::User, which leaves vendor data alone
Updated(m, net, auth, users) == [vendor |-> m.vendor, net |-> net, auth |-> auth, users |-> users]

\* net_set, which may ask not to write
SetSettings(net, auth, users, noWrite) ==
  /\ phase = "running" /\ budget.sets < MaxSets
  /\ mem' = Updated(mem, net, auth, users)
  /\ phase' = IF noWrite THEN "running" ELSE "writing"
  /\ written' = 0 /\ budget' = [budget EXCEPT !.sets = @ + 1]
  /\ UNCHANGED <<eeprom, userDoc, listening, address, saved, intact, readFailed>>

\* net_set with "user": kept in RAM; toJson() assigns to its own copy and writes nothing.
SetUserData ==
  /\ phase = "running" /\ budget.sets < MaxSets
  /\ userDoc' = TRUE
  /\ phase' = "writing"
  /\ written' = 0 /\ budget' = [budget EXCEPT !.sets = @ + 1]
  /\ UNCHANGED <<eeprom, mem, listening, address, saved, intact, readFailed>>

\* net_reset: the network settings in RAM only
ResetNetworkSettings ==
  /\ phase = "running" /\ budget.sets < MaxSets
  /\ mem' = [mem EXCEPT !.net = DefaultNet]
  /\ budget' = [budget EXCEPT !.sets = @ + 1]
  /\ UNCHANGED <<eeprom, userDoc, phase, written, listening, address, saved, intact, readFailed>>

\* write_to_eeprom(), cell by cell
NewText == Text(Fitting(mem))
Grown(n) == [i \in 1..(IF n > Len(eeprom) THEN n ELSE Len(eeprom)) |-> IF i <= Len(eeprom) THEN eeprom[i] ELSE Blank]

WriteCell ==
  /\ phase = "writing" /\ written < Len(NewText)
  /\ eeprom' = [Grown(written + 1) EXCEPT ![written + 1] = NewText[written + 1]]
  /\ written' = written + 1
  /\ UNCHANGED <<mem, userDoc, phase, listening, address, saved, intact, readFailed, budget>>

WriteEnds ==
  /\ phase = "writing" /\ written = Len(NewText)
  /\ phase' = "running" /\ saved' = mem /\ intact' = TRUE
  /\ UNCHANGED <<eeprom, mem, userDoc, written, listening, address, readFailed, budget>>

\* sys_reboot, or a loss of power while nothing is written
Restart ==
  /\ phase \in {"setup", "servers", "running"} /\ budget.losses < MaxLosses
  /\ phase' = "off" /\ budget' = [budget EXCEPT !.losses = @ + 1]
  /\ UNCHANGED <<eeprom, mem, userDoc, written, listening, address, saved, intact, readFailed>>

\* A loss of power in the middle of a write: before, after or within a cell
CutOff(garbled) ==
  /\ phase = "writing" /\ budget.losses < MaxLosses
  /\ garbled => written < Len(NewText) /\ Grown(written + 1)[written + 1] # NewText[written + 1]
  /\ eeprom' = IF garbled THEN [Grown(written + 1) EXCEPT ![written + 1] = Garbled] ELSE eeprom
  /\ intact' = FALSE
  /\ phase' = "off" /\ budget' = [budget EXCEPT !.losses = @ + 1]
  /\ UNCHANGED <<mem, userDoc, written, listening, address, saved, readFailed>>

Setup ==
  \/ phase = "off" /\ \E d \in Documents : ReadEeprom(d)
  \/ ReadEepromFails
  \/ \E ok_ \in BOOLEAN : BeginDhcp(ok_) \/ BeginStatic(ok_)
  \/ BeginServers

Program == Setup \/ WriteCell \/ WriteEnds

Client ==
  \/ \E net \in NetChoices, auth \in BOOLEAN, users \in UserCounts, noWrite \in BOOLEAN :
       SetSettings(net, auth, users, noWrite)
  \/ SetUserData \/ ResetNetworkSettings

Power == Restart \/ \E g \in BOOLEAN : CutOff(g)

SSpec == SInit /\ [][Program \/ Client \/ Power]_sVars
-----------------------------------------------------------------------------
\* Types of the settings; no document outgrows the memory it is written from.
STypeOK ==
  /\ mem \in AllSettings /\ saved \in AllSettings
  /\ phase \in {"off", "setup", "servers", "running", "writing"}
  /\ Len(eeprom) <= WriteCapacity + 1 /\ written \in 0..(WriteCapacity + 1)
  /\ {userDoc, intact, readFailed} \subseteq BOOLEAN
  /\ listening \subseteq {"ip", "jsonl", "web"} /\ address \in {"none", "valid", "invalid"}

\* read_from_eeprom(), write_to_eeprom(): settings that were written completely are in
\* force after the next start, whatever an earlier and longer document or a write that
\* was cut off before has left behind them in the EEPROM.  Those that do not fit are
\* dropped, or, if they fit for writing and not for reading, all are the defaults.
RestartRestores ==
  [][phase = "off" /\ phase' = "setup" /\ intact =>
       mem' = IF FitsReading(Fitting(saved)) THEN Fitting(saved) ELSE Defaults(PowerUp)]_sVars

\* VendorOTP: serial number and default passwords are lost by no message and no loss of
\* power, only after a start that could not read them: until then every write, complete
\* or cut off, leaves them in their place.
VendorIsKept ==
  ~readFailed => mem.vendor = "valid" /\ SubSeq(eeprom, 1, 2) = VendorText("valid")

\* write_to_eeprom() and read_from_eeprom(): what was written is in force after a restart,
\* within the capacities of the documents, and vendor data are kept.
SettingsAreKept == RestartRestores /\ []STypeOK /\ []VendorIsKept

\* setup(): the device comes up again after every loss of power, with or without a
\* network; then the console at least can be used.
ComesUp == []<>(phase = "running")
=============================================================================
