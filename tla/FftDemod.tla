------------------------------ MODULE FftDemod ------------------------------
(***************************************************************************)
(* The FftDemod block (src/fft_demod.rs): collects demodulated symbols     *)
(* into interleaver blocks and passes the frame_info tags on with the      *)
(* first symbol of the block they announce.                                *)
(*                                                                         *)
(* sync_out is the stream FrameSync writes, one element per symbol with    *)
(* the tags that sit on its first sample; every element carries the ghost  *)
(* field frame.  The output buffer is taken to have room for a block.      *)
(***************************************************************************)
EXTENDS Integers, Sequences

VARIABLES
  sync_out,        (* input stream of symbols                              *)
  fd_is_header,    (* the block being collected is a header block          *)
  fd_cr,           (* code rate of the payload blocks                      *)
  fd_out,          (* out: symbols of the block collected so far           *)
  fd_frame_info,   (* tag for the next block: a sequence of at most one    *)
  words            (* output stream of demodulated symbols                 *)

DemodInit ==
  /\ sync_out = <<>> /\ words = <<>>
  /\ fd_is_header = FALSE
  /\ fd_cr = 0
  /\ fd_out = <<>>
  /\ fd_frame_info = <<>>

DemodBlockSize(is_header, cr) == IF is_header THEN 8 ELSE 4 + cr

\* The block, its tag on the first symbol.
TaggedBlock(block, tag) ==
  [i \in 1 .. Len(block) |-> [frame |-> block[i], tag |-> IF i = 1 THEN tag ELSE <<>>]]

\* Take one symbol; a full block goes out.
DemodSymbol(is_header, cr, collected, tag) ==
  LET block == Append(collected, Head(sync_out).frame)
  IN  /\ sync_out' = Tail(sync_out)
      /\ fd_is_header' = is_header
      /\ fd_cr' = cr
      /\ IF Len(block) = DemodBlockSize(is_header, cr)
           THEN /\ words' = words \o TaggedBlock(block, tag)
                /\ fd_out' = <<>>
                /\ fd_frame_info' = <<>>
           ELSE /\ fd_out' = block
                /\ fd_frame_info' = tag
                /\ UNCHANGED words

DemodUntagged ==
  /\ Head(sync_out).tags = <<>>
  /\ DemodSymbol(fd_is_header, fd_cr, fd_out, fd_frame_info)

\* A header tag starts a new frame: what was collected is dropped.
DemodHeaderTag ==
  /\ Len(Head(sync_out).tags) = 1
  /\ LET tag == Head(sync_out).tags[1]
     IN  /\ tag.is_header
         /\ DemodSymbol(TRUE, fd_cr, <<>>, <<tag>>)

DemodPayloadTag ==
  /\ Len(Head(sync_out).tags) = 1
  /\ LET tag == Head(sync_out).tags[1]
     IN  /\ ~tag.is_header
         /\ DemodSymbol(FALSE, tag.cr, fd_out, <<tag>>)

\* With two tags on the same sample the block finds too few samples between
\* them, drops none and asks to be called again: no step is possible.
DemodWork ==
  /\ sync_out # <<>>
  /\ DemodUntagged \/ DemodHeaderTag \/ DemodPayloadTag

=============================================================================
