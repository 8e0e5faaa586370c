--------------------------- MODULE Deinterleaver ---------------------------
(***************************************************************************)
(* The Deinterleaver block (src/deinterleaver.rs): turns a block of cw_len *)
(* symbols into sf_app codewords.  The GrayMapping and HammingDecoder      *)
(* blocks on its two sides map items one to one, in order and with their   *)
(* tags; their values are not told apart here, so words is also            *)
(* GrayMapping's output and nibs also HammingDecoder's.                    *)
(*                                                                         *)
(* A nibble carries the ghost set of frames its block's symbols are from.  *)
(***************************************************************************)
EXTENDS FrameShape, Sequences

VARIABLES
  words,          (* input stream of symbols                               *)
  di_is_header,   (* the current block is a header block                   *)
  di_cr,          (* code rate of the payload blocks                       *)
  nibs            (* output stream of nibbles                              *)

DeinterInit ==
  /\ words = <<>> /\ nibs = <<>>
  /\ di_is_header = FALSE
  /\ di_cr = 0

DropFront(seq, n) == SubSeq(seq, n + 1, Len(seq))

\* Positions of the tagged items, counted from zero as in the code.
TagsAt(stream) == {i \in 0 .. (Len(stream) - 1) : stream[i + 1].tag # <<>>}
Lowest(S) == CHOOSE i \in S : \A j \in S : i <= j

\* Items up to the first tag that is not at the front.
UpToNextTag(stream) ==
  LET later == TagsAt(stream) \ {0}
  IN  IF later = {} THEN Len(stream) ELSE Lowest(later)

DeinterleaveBlock(is_header, cr, tag) ==
  LET cw     == CwLen(is_header, cr)
      origin == {words[i].frame : i \in 1 .. cw}
  IN  /\ words' = DropFront(words, cw)
      /\ nibs' = nibs \o [i \in 1 .. SfApp(is_header) |->
                            [origin |-> origin, tag |-> IF i = 1 THEN tag ELSE <<>>]]

\* Items before a tag that are fewer than a block of the size the previous
\* block had are thrown away, with the tag they carry.
TooFew ==
  /\ TagsAt(words) \ {0} # {}
  /\ UpToNextTag(words) < CwLen(di_is_header, di_cr)

DeinterDrop ==
  /\ TooFew
  /\ words' = DropFront(words, UpToNextTag(words))
  /\ UNCHANGED <<nibs, di_is_header, di_cr>>

\* The settings in a tag on the first item.
TakeSettings ==
  LET tag == Head(words).tag
  IN  /\ di_is_header' = IF tag = <<>> THEN di_is_header ELSE tag[1].is_header
      /\ di_cr' = IF tag = <<>> \/ di_is_header' THEN di_cr ELSE tag[1].cr

DeinterDecode ==
  /\ ~TooFew
  /\ TakeSettings
  /\ IF UpToNextTag(words) >= CwLen(di_is_header', di_cr')
       THEN DeinterleaveBlock(di_is_header', di_cr', Head(words).tag)
       ELSE UNCHANGED <<words, nibs>>

\* A call that finds the output full.  The variant consumes the block all the same.
DeinterNoRoomDrops ==
  /\ ~TooFew
  /\ TakeSettings
  /\ words' = DropFront(words, CwLen(di_is_header', di_cr'))
  /\ UNCHANGED nibs
DeinterNoRoom ==
  /\ ~TooFew
  /\ TakeSettings
  /\ UNCHANGED <<words, nibs>>

DeinterWork ==
  /\ words # <<>>
  /\ DeinterDrop \/ DeinterDecode

=============================================================================
