---------------------------- MODULE MCController ----------------------------
(***************************************************************************)
(* Six parts of the controller for TLC: firmware update, hashing, settings *)
(* and start-up, plugins, front panel, and the data of traditional runs.   *)
(* They share no state, so that a behaviour of the run is one of one part, *)
(* the others resting.                                                     *)
(***************************************************************************)
EXTENDS FirmwareFlasher, DcpHash, Settings, PluginLoader, FrontPanel, RunData

VARIABLE part   \* the part that is explored

allVars == <<vars, hVars, sVars, pVars, fVars, dVars, part>>

\* A short image, and one that is longer than the distance between the buffer and the
\* beginning of the flash
MCImages == {<<2>>, <<1, Erased, 2, 1>>}

MCDefaultNet == [dhcp |-> TRUE, ip |-> "valid", jsonl |-> TRUE, web |-> FALSE]
MCNetChoices == {MCDefaultNet} \cup [dhcp : {FALSE}, ip : {"valid", "invalid"}, jsonl : {FALSE}, web : {TRUE}]

\* Lengths with every remainder modulo 3, and one beyond the memory for plugins
MCPluginCodes == {<<>>, <<200>>, <<9, 130>>, <<0, 255, 16>>, <<77, 190, 42, 251, 239, 190>>,
                  <<1, 2, 3, 4, 5, 6, 7, 8, 9>>}
\* "null", "A", four paddings, "ZZZZZ", "+/az09" and "A-AA"
MCPayloads == {<<110, 117, 108, 108>>, <<65>>, <<61, 61, 61, 61>>, <<90, 90, 90, 90, 90>>,
               <<43, 47, 97, 122, 48, 57>>, <<65, 45, 65, 65>>}

MCConfigItems ==
  {Item("leds", 129), Item("leds", BadType), Item("frequency", 5), Item("phase", 6),
   Item("wave", "triangle"), Item("wave", "sawtooth"), Item("amplitude", 1), Item("low", -2),
   Item("high", 3), Item("sleep", FALSE), Item("dac_outputs", <<-2, 1>>), Item("dac_outputs", <<0, 5>>)}

MCInit ==
  /\ part \in {"firmware", "hash", "settings", "plugin", "panel", "data"}
  /\ Init /\ HInit /\ SInit /\ PInit /\ FInit /\ DInit
  /\ part # "firmware" => running = <<2>>
  /\ part # "panel" => installed /\ panel.wave = "sine" /\ panel.level["out0"] = 0

Firmware == part = "firmware" /\ Next /\ UNCHANGED <<hVars, sVars, pVars, fVars, dVars, part>>
HashProgram == part = "hash" /\ HProgram /\ UNCHANGED <<vars, sVars, pVars, fVars, dVars, part>>
HashCaller == part = "hash" /\ HCaller /\ UNCHANGED <<vars, sVars, pVars, fVars, dVars, part>>
SettingsProgram == part = "settings" /\ Program /\ UNCHANGED <<vars, hVars, pVars, fVars, dVars, part>>
SettingsOthers == part = "settings" /\ (Client \/ Power) /\ UNCHANGED <<vars, hVars, pVars, fVars, dVars, part>>
Plugin == part = "plugin" /\ PNext /\ UNCHANGED <<vars, hVars, sVars, fVars, dVars, part>>
Panel == part = "panel" /\ FNext /\ UNCHANGED <<vars, hVars, sVars, pVars, dVars, part>>
Traditional == part = "data" /\ DNext /\ UNCHANGED <<vars, hVars, sVars, pVars, fVars, part>>

\* Settings and plugins end at their bounds, or with a device that has stopped; for the
\* hash, that it goes on is a temporal property.
AtBounds == part \in {"hash", "settings", "plugin"} /\ UNCHANGED allVars

MCNext == Firmware \/ HashProgram \/ HashCaller \/ SettingsProgram \/ SettingsOthers \/ Plugin \/ Panel \/ Traditional \/ AtBounds

MCSpec == MCInit /\ [][MCNext]_allVars /\ WF_allVars(SettingsProgram) /\ WF_allVars(HashProgram)

\* setup() gets to loop() after every loss of power, with or without a network, and hash()
\* returns whatever the DCP does with a packet.
ProgramGoesOn == (part = "settings" => ComesUp) /\ HashReturns
=============================================================================
