------------------------------ MODULE NodeSetup ------------------------------
(***************************************************************************)
(* How a node comes to be: the Meshtastic presets and channel tables       *)
(* (src/meshtastic.rs), and Node::new() (src/node.rs), which connects a    *)
(* transmitter and a receiver for every preset of a region and a slot.     *)
(* One step is one preset.  Frequencies and bandwidths are in Hz.          *)
(***************************************************************************)
EXTENDS Integers, Sequences

VARIABLES
  region, slot, sel_preset,     (* what the node is to be                  *)
  node,                         (* "building", "ready" or "panicked"       *)
  txs,                          (* transmitters, in the order of ALL       *)
  rxs,                          (* receivers                               *)
  selected_tx                   (* index of the transmitter to use         *)

setupVars == <<region, slot, sel_preset, node, txs, rxs, selected_tx>>

Regions == {"EU433", "EU868", "RU"}
Bandwidths == {125000, 250000, 500000}

\* The presets in the order of the enum, whose discriminant is selected_tx, and
\* MeshtasticConfig::ALL, the order of the transmitters.  The variant has the
\* turbo presets in front.
Presets == <<"ShortTurbo", "ShortFast", "ShortSlow", "MediumFast", "MediumSlow",
             "LongFast", "LongTurbo", "LongModerate">>
ALLTurboFirst == <<"ShortTurbo", "LongTurbo", "ShortFast", "ShortSlow", "MediumFast",
                   "MediumSlow", "LongFast", "LongModerate">>
ALL == <<"ShortTurbo", "ShortFast", "ShortSlow", "MediumFast", "MediumSlow",
         "LongFast", "LongTurbo", "LongModerate">>

PerBandwidth(a, b, c) == [bw \in Bandwidths |-> CASE bw = 125000 -> a [] bw = 250000 -> b
                                                  [] bw = 500000 -> c]

\* get_avail_slots_cnt().
AvailSlots ==
  [EU433 |-> PerBandwidth(8, 4, 2), EU868 |-> PerBandwidth(2, 1, 0), RU |-> PerBandwidth(4, 2, 1)]

\* get_frequency_by_slot(): the slots that have a frequency, and the first, which
\* EU868 does not have at 500 kHz.  The variant takes the centre of the narrower
\* channels for all.
Slots ==
  [EU433 |-> PerBandwidth(0 .. 7, 0 .. 3, 0 .. 1), EU868 |-> PerBandwidth(0 .. 1, {0}, {}),
   RU |-> PerBandwidth(0 .. 3, 0 .. 1, {0})]
FirstChannelNarrow ==
  [EU433 |-> PerBandwidth(433062500, 433062500, 433062500),
   EU868 |-> PerBandwidth(869462500, 869462500, 0),
   RU    |-> PerBandwidth(868762500, 868762500, 868762500)]
FirstChannel ==
  [EU433 |-> PerBandwidth(433062500, 433125000, 433250000),
   EU868 |-> PerBandwidth(869462500, 869525000, 0),
   RU    |-> PerBandwidth(868762500, 868825000, 868950000)]
Frequency(bw, s) == FirstChannel[region][bw] + s * bw

\* to_config(): the variant has all presets at 250 kHz.
BandwidthOfFast(preset) == 250000
BandwidthOf(preset) ==
  CASE preset \in {"ShortTurbo", "LongTurbo"} -> 500000
    [] preset = "LongModerate" -> 125000
    [] OTHER -> 250000
SpreadingFactorOf ==
  [ShortTurbo |-> 7, ShortFast |-> 7, ShortSlow |-> 8, MediumFast |-> 9, MediumSlow |-> 10,
   LongFast |-> 11, LongTurbo |-> 11, LongModerate |-> 11]
CodeRateOf(preset) == IF preset = "LongModerate" THEN 4 ELSE 1       \* 4/8, or 4/5
LdroOf(preset) == preset = "LongModerate"
Interpolation == PerBandwidth(8, 4, 2)

\* What the blocks of a preset are made with, in either direction.  The transmitter
\* has a code rate besides, which the receiver learns from each header.
Path(preset) ==
  LET bw == BandwidthOf(preset)
  IN  [preset |-> preset, bw |-> bw, sf |-> SpreadingFactorOf[preset], ldro |-> LdroOf(preset),
       freq |-> Frequency(bw, slot), interpolation |-> Interpolation[bw]]
TxPath(preset) == [path |-> Path(preset), cr |-> CodeRateOf(preset)]

Init ==
  /\ region \in Regions /\ slot \in 0 .. 255                             \* a u8
  /\ \E i \in DOMAIN Presets : sel_preset = Presets[i] /\ selected_tx = i
  /\ node = "building" /\ txs = <<>> /\ rxs = <<>>

\* The next preset's transmitter, and its receiver if the table has the slot; a slot
\* without a frequency is unwrapped.
ConnectPreset ==
  /\ node = "building"
  /\ LET preset == ALL[Len(txs) + 1]
         bw == BandwidthOf(preset)
     IN  IF slot \in Slots[region][bw]
           THEN /\ txs' = Append(txs, TxPath(preset))
                /\ rxs' = IF slot < AvailSlots[region][bw] THEN Append(rxs, Path(preset)) ELSE rxs
                /\ node' = IF Len(txs') = Len(ALL) THEN "ready" ELSE "building"
           ELSE node' = "panicked" /\ UNCHANGED <<txs, rxs>>
  /\ UNCHANGED <<region, slot, sel_preset, selected_tx>>

Next == ConnectPreset
Spec == Init /\ [][Next]_setupVars

(***************************************************************************)
(* Properties.                                                             *)
(***************************************************************************)
\* The code rates that HeaderDecoder accepts a header with.
AcceptedRates == 0 .. 3

\* What a transmitter of this node sends, another node of the same region and slot
\* receives: it has a receiver with the same settings, and takes the code rate.
IsHeard(tx) == tx.cr \in AcceptedRates /\ \E j \in DOMAIN rxs : rxs[j] = tx.path

\* The two tables of slots and the two orders of presets agree, but the receiver does
\* not accept every code rate: a node that was created transmits with the preset it
\* was asked for, at the one sample rate of the channel; it is heard by nodes like it
\* with each preset except LongModerate, the one with code rate 4/8, although there
\* is a receiver for that one too.
NodeCanTalk ==
  node = "ready" =>
    /\ txs[selected_tx].path.preset = sel_preset
    /\ Len(rxs) = Len(txs)
    /\ \A i \in DOMAIN txs :
         /\ rxs[i] = txs[i].path
         /\ IsHeard(txs[i]) <=> txs[i].path.preset # "LongModerate"
         /\ txs[i].path.bw * txs[i].path.interpolation = 1000000

\* Node::new() has a Result for a node that cannot be, and the slots of every region
\* are counted for every bandwidth: a node asked for a preset in a slot that counts is
\* created or refused.  It does not hold: the frequencies of the other presets are
\* unwrapped too.
CountedSlotServes ==
  node = "panicked" => slot >= AvailSlots[region][BandwidthOf(sel_preset)]

\* For every bandwidth, the slots lie side by side and fill the same band.
Low(bw) == Frequency(bw, 0) - bw \div 2
High(bw) == Frequency(bw, AvailSlots[region][bw] - 1) + bw \div 2
SlotsFillBand ==
  \A bw1, bw2 \in {bw \in Bandwidths : AvailSlots[region][bw] > 0} :
    Low(bw1) = Low(bw2) /\ High(bw1) = High(bw2)

\* All presets are connected, whichever was asked for: a node is created in a slot
\* that exists at the largest bandwidth, and in no other, and so never in EU868.
NeedsWideSlot ==
  /\ node = "panicked" => slot >= AvailSlots[region][500000]
  /\ node = "ready" => slot < AvailSlots[region][500000]

=============================================================================
