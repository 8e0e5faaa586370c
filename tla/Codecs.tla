------------------------------- MODULE Codecs -------------------------------
(***************************************************************************)
(* What the program computes without an environment: the Encoder's loop,   *)
(* the three codecs and the set-up of a node.  They have nothing to do     *)
(* with each other but that their inputs are given: each behaviour is one  *)
(* input of one of them (part), the variables of the others stay idle.     *)
(***************************************************************************)
EXTENDS Encoder, Sequences

CONSTANTS
  Blocks, BinErrors,                              (* of BlockCodec         *)
  PayLens, MaxFlips,                              (* of HeaderCodec        *)
  PayloadBytes, PayloadLens, NibbleErrors         (* of PayloadCodec       *)

\* A codeword stands for a nibble.  A length is a byte, and what crc() and whitening()
\* can cope with; the checksum is good for two wrong bits.
ASSUME BlockAssumption == Blocks \subseteq Seq(0 .. 15) /\ BinErrors \subseteq Int
ASSUME HeaderAssumption == PayLens \subseteq 0 .. 255 /\ MaxFlips \in 0 .. 2
ASSUME BytesAssumption ==
  /\ PayloadBytes \subseteq SUBSET (0 .. 7) /\ PayloadLens \subseteq 2 .. 255
  /\ NibbleErrors \subseteq SUBSET (0 .. 3)

VARIABLES
  part,                                    (* which of the five                 *)
  stage, nibbles,                          (* of the codecs                     *)
  is_header, cr, words, rows, symbols, bin_error, hard, soft,      (* block     *)
  header, flips, info,                                             (* header    *)
  payload, errors, dewhitened, crc_valid,                          (* payload   *)
  region, slot, sel_preset, node, txs, rxs, selected_tx            (* node      *)

Block == INSTANCE BlockCodec
Header == INSTANCE HeaderCodec
Payload == INSTANCE PayloadCodec
Setup == INSTANCE NodeSetup

blockOnly == <<is_header, cr, words, rows, symbols, bin_error, hard, soft>>
headerOnly == <<header, flips, info>>
payloadOnly == <<payload, errors, dewhitened, crc_valid>>
setupOnly == <<region, slot, sel_preset, node, txs, rxs, selected_tx>>
codecsVars ==
  <<part, encoderVars, stage, nibbles, blockOnly, headerOnly, payloadOnly, setupOnly>>

EncoderIdle == Start([pay_len |-> 0, cr |-> 1, crc |-> FALSE])
BlockIdle ==
  /\ is_header = FALSE /\ cr = 1 /\ bin_error = 0
  /\ words = <<>> /\ rows = <<>> /\ symbols = <<>> /\ hard = <<>> /\ soft = <<>>
HeaderIdle == header = <<>> /\ flips = {} /\ info = <<>>
PayloadIdle == payload = <<>> /\ errors = <<{}, {}>> /\ dewhitened = <<>> /\ crc_valid = FALSE

SetupIdle ==
  /\ region = "RU" /\ slot = 0 /\ sel_preset = "LongFast" /\ selected_tx = 6
  /\ node = "idle" /\ txs = <<>> /\ rxs = <<>>
NoStage == stage = "idle" /\ nibbles = <<>>

CodecsInit ==
  \/ part = "encoder" /\ Init /\ NoStage /\ BlockIdle /\ HeaderIdle /\ PayloadIdle /\ SetupIdle
  \/ part = "block" /\ Block!Init /\ EncoderIdle /\ HeaderIdle /\ PayloadIdle /\ SetupIdle
  \/ part = "header" /\ Header!Init /\ EncoderIdle /\ BlockIdle /\ PayloadIdle /\ SetupIdle
  \/ part = "payload" /\ Payload!Init /\ EncoderIdle /\ BlockIdle /\ HeaderIdle /\ SetupIdle
  \/ part = "node" /\ Setup!Init /\ NoStage /\ EncoderIdle /\ BlockIdle /\ HeaderIdle /\ PayloadIdle

CodecsNext ==
  \/ /\ part = "encoder" /\ Next
     /\ UNCHANGED <<part, stage, nibbles, blockOnly, headerOnly, payloadOnly, setupOnly>>
  \/ /\ part = "block" /\ Block!Next
     /\ UNCHANGED <<part, encoderVars, headerOnly, payloadOnly, setupOnly>>
  \/ /\ part = "header" /\ Header!Next
     /\ UNCHANGED <<part, encoderVars, blockOnly, payloadOnly, setupOnly>>
  \/ /\ part = "payload" /\ Payload!Next
     /\ UNCHANGED <<part, encoderVars, blockOnly, headerOnly, setupOnly>>
  \/ /\ part = "node" /\ Setup!Next
     /\ UNCHANGED <<part, encoderVars, stage, nibbles, blockOnly, headerOnly, payloadOnly>>

CodecsSpec == CodecsInit /\ [][CodecsNext]_codecsVars

(***************************************************************************)
(* The properties of the parts.                                            *)
(***************************************************************************)
\* Blocks have the sizes the interleaver says, symbols are bins.
BlockTypeOK == part = "block" => Block!TypeOK

\* What hamming_encode(), interleave() and gray_demap() do, the receiver's blocks
\* undo with hard decoding, as far as it can correct one wrong symbol.
HardBlocksSurvive == part = "block" => Block!HardBlocksSurvive

\* The same with soft decoding.
SoftBlocksSurvive == part = "block" => Block!SoftBlocksSurvive

\* A symbol in the next bin costs one bit of one codeword: gray_demap() and
\* GrayMapping do what they are for.
NextBinHitsOneWord == part = "block" => Block!NextBinHitsOneWord

\* HeaderDecoder never takes a wrong length or code rate from a header with up to
\* two wrong bits.
NoWrongHeader == part = "header" => Header!NoWrongHeader

\* HeaderDecoder accepts what header() made of a payload that is not empty, unless the
\* code rate is 4/8.
GoodHeaderAccepted == part = "header" => Header!GoodHeaderAccepted

\* Decoder gets an undisturbed payload back and finds its CRC right.
IntactPayloadPasses == part = "payload" => Payload!IntactPayloadPasses

\* Decoder finds the CRC wrong when one or two neighbouring nibbles are.
WrongNibblesFail == part = "payload" => Payload!WrongNibblesFail

\* Node::new() gives every preset a transmitter and the receiver that fits it, and that
\* receiver accepts what the transmitter sends, except with LongModerate.
NodeCanTalk == part = "node" => Setup!NodeCanTalk

\* The slots of get_frequency_by_slot() fill a region's band at every bandwidth.
SlotsFillBand == part = "node" => Setup!SlotsFillBand

\* Node::new() panics where there is no slot of 500 kHz, and only there.
NeedsWideSlot == part = "node" => Setup!NeedsWideSlot

=============================================================================
