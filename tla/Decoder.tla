------------------------------ MODULE Decoder ------------------------------
(***************************************************************************)
(* The Decoder block (src/decoder.rs): checks the payload CRC of a frame,  *)
(* reports the result to FrameSync and puts good payloads out.  Whether    *)
(* the CRC matches is an input.                                            *)
(***************************************************************************)
EXTENDS Integers, Sequences

CONSTANTS ImplHead

VARIABLES
  frm_q,     (* frames from the HeaderDecoder                              *)
  crc_q,     (* crc_check messages on their way to FrameSync               *)
  payloads   (* out: the frames (ghost) whose payload was put out          *)

DecoderInit ==
  /\ frm_q = <<>> /\ crc_q = <<>> /\ payloads = <<>>

\* Bytes after dewhitening, the two CRC bytes included.
DewhitenedLen(frame) ==
  LET start == IF ImplHead THEN 0 ELSE 5
      tail  == IF frame.has_crc THEN 4 ELSE 0
  IN  (frame.count - start - tail) \div 2 + (IF frame.has_crc THEN 2 ELSE 0)

DecodeNoCrc(frame) ==
  /\ ~frame.has_crc
  /\ payloads' = Append(payloads, frame.frame)
  /\ UNCHANGED crc_q

\* Too short for a CRC: fails without reporting a result.
DecodeTooShort(frame) ==
  /\ frame.has_crc /\ DewhitenedLen(frame) < 4
  /\ UNCHANGED <<payloads, crc_q>>

DecodeCrc(frame, valid) ==
  /\ frame.has_crc /\ DewhitenedLen(frame) >= 4
  /\ crc_q' = Append(crc_q, [valid |-> valid, frame |-> frame.frame])
  /\ payloads' = IF valid THEN Append(payloads, frame.frame) ELSE payloads

DecoderWork ==
  /\ frm_q # <<>>
  /\ frm_q' = Tail(frm_q)
  /\ LET frame == Head(frm_q)
     IN  \/ DecodeNoCrc(frame)
         \/ DecodeTooShort(frame)
         \/ \E valid \in BOOLEAN : DecodeCrc(frame, valid)

=============================================================================
