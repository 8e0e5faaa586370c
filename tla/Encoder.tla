------------------------------ MODULE Encoder ------------------------------
(***************************************************************************)
(* The Encoder (src/encoder.rs): how many symbols a payload becomes.  One  *)
(* step is one pass of the loop of interleave(); what the bits are is left *)
(* to BlockCodec, HeaderCodec and PayloadCodec.                            *)
(***************************************************************************)
EXTENDS FrameShape

CONSTANT Payloads     (* payloads and settings: headers, cr the CodeRate   *)

CodeRates == 1 .. 4
ASSUME PayloadAssumption ==
  Payloads \subseteq [pay_len : Nat, cr : CodeRates, crc : BOOLEAN]

WhiteningLen == 255              \* WHITENING_SEQ.len()

VARIABLES
  msg,     (* the payload being encoded                                    *)
  phase,   (* "interleave", "done", or "panicked"                          *)
  frame,   (* codewords not interleaved yet                                *)
  cnt,     (* codewords interleaved, the padding of the last block included *)
  out      (* symbols                                                      *)

encoderVars == <<msg, phase, frame, cnt, out>>

\* whitening() has no more than 255 bytes of the sequence; crc() takes the last
\* two bytes of the payload.
CanBeEncoded(m) ==
  /\ m.pay_len <= WhiteningLen
  /\ m.crc => m.pay_len >= 2

\* whitening(), header(), crc() and hamming_encode().
Start(m) ==
  /\ msg = m
  /\ phase = IF CanBeEncoded(m) THEN "interleave" ELSE "panicked"
  /\ frame = IF CanBeEncoded(m) THEN FrameNibbles(m) ELSE 0
  /\ cnt = 0 /\ out = 0

\* The codewords of the first block, which always uses code rate 4/8.
InHeaderBlock == cnt < (IF SF >= 7 THEN SF - 2 ELSE SF)

\* One block of interleave(); a short one is padded.  The variant takes the
\* codewords of a whole block from the frame also when fewer are left.
InterleaveBlockUnderflows ==
  /\ phase = "interleave"
  /\ LET sf_app == SfApp(InHeaderBlock)
     IN  /\ frame' = frame - sf_app
         /\ cnt' = cnt + sf_app
         /\ out' = out + CwLen(InHeaderBlock, msg.cr)
         /\ phase' = IF frame' <= 0 THEN "done" ELSE "interleave"
  /\ UNCHANGED msg

InterleaveBlock ==
  /\ phase = "interleave"
  /\ LET sf_app == SfApp(InHeaderBlock)
     IN  /\ frame' = IF frame <= sf_app THEN 0 ELSE frame - sf_app
         /\ cnt' = cnt + sf_app
         /\ out' = out + CwLen(InHeaderBlock, msg.cr)
         /\ phase' = IF frame' = 0 THEN "done" ELSE "interleave"
  /\ UNCHANGED msg

Init == \E m \in Payloads : Start(m)
Next == InterleaveBlock
Spec == Init /\ [][Next]_encoderVars

(***************************************************************************)
(* Properties.                                                             *)
(***************************************************************************)
TypeOK ==
  /\ msg \in Payloads
  /\ phase \in {"interleave", "done", "panicked"}
  /\ frame \in Nat /\ cnt \in Nat /\ out \in Nat

\* The receiver forwards at least the symbols the transmitter sends: what
\* FrameSync computes from the header (in floating point, with a formula of its
\* own) never cuts the frame the encoder's loop produced.
NeverCutsFrame == phase = "done" => SymbNumb(msg) >= out

\* When the header arrives after eight symbols FrameSync writes the payload tag
\* for the symbol that follows.  With an explicit header there always is one;
\* otherwise the tag would stay behind for the next frame.
PayloadTagHasSymbol ==
  phase = "done" /\ ~ImplHead /\ msg.pay_len > 0 => SymbNumb(msg) > HeaderSymbols

=============================================================================
