----------------------------- MODULE FrameShape -----------------------------
(***************************************************************************)
(* How the symbols of a frame depend on its header.  A header is a record  *)
(* with the payload length in bytes (pay_len), the code rate (cr) and      *)
(* whether a payload CRC follows (crc).                                    *)
(***************************************************************************)
EXTENDS Integers

CONSTANTS
  SF,              (* spreading factor, 5..12                              *)
  ImplHead,        (* implicit header mode                                 *)
  Ldro             (* low data rate optimisation of the payload            *)

ASSUME FrameAssumption ==
  /\ SF \in 5 .. 12
  /\ ImplHead \in BOOLEAN /\ Ldro \in BOOLEAN

HeaderSymbols == 8               \* INTERLEAVED_HEADER_SYMBOL_COUNT
HeaderLen == 5                   \* HEADER_LEN, in nibbles

CeilDiv(a, b) == -((-a) \div b)

\* Variants: without the eight symbols of the header block, and rounded down.
SymbNumbNoHeader(m) ==
  CeilDiv(2 * m.pay_len - (SF - 5) + (IF SF >= 7 THEN 2 ELSE 0)
            + (IF ImplHead THEN 0 ELSE 5) + (IF m.crc THEN 4 ELSE 0),
          SF - (IF Ldro THEN 2 ELSE 0))
    * (4 + m.cr)
SymbNumbFloor(m) ==
  HeaderSymbols
    + ((2 * m.pay_len - SF + (IF SF >= 7 THEN 2 ELSE 0)
          + (IF ImplHead THEN 0 ELSE 5) + (IF m.crc THEN 4 ELSE 0))
         \div (SF - (IF Ldro THEN 2 ELSE 0)))
      * (4 + m.cr)

\* m_symb_numb: the symbols FrameSync takes a frame with this header to have.
\* The code subtracts m_sf as isize, which is the position of the variant in
\* the enum and not the spreading factor.
SymbNumb(m) ==
  HeaderSymbols
    + CeilDiv(2 * m.pay_len - (SF - 5) + (IF SF >= 7 THEN 2 ELSE 0)
                + (IF ImplHead THEN 0 ELSE 5) + (IF m.crc THEN 4 ELSE 0),
              SF - (IF Ldro THEN 2 ELSE 0))
      * (4 + m.cr)

\* The nibbles of a frame: one codeword each at the transmitter, and what the
\* HeaderDecoder collects (left) at the receiver.
FrameNibbles(m) ==
  (IF ImplHead THEN 0 ELSE HeaderLen) + 2 * m.pay_len + (IF m.crc THEN 4 ELSE 0)

\* Codewords of an interleaver block, and symbols it takes.
SfApp(is_header) ==
  IF (SF >= 7 /\ (is_header \/ Ldro)) \/ (SF < 7 /\ ~is_header /\ Ldro)
    THEN SF - 2 ELSE SF
CwLen(is_header, cr) == IF is_header THEN HeaderSymbols ELSE 4 + cr

=============================================================================
