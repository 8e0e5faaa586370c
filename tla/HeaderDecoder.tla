--------------------------- MODULE HeaderDecoder ---------------------------
(***************************************************************************)
(* The HeaderDecoder block (src/header_decoder.rs): reads the header from  *)
(* the first nibbles of a frame, answers FrameSync with a frame_info       *)
(* message, and collects the nibbles of the frame for the Decoder.         *)
(*                                                                         *)
(* What the header says is an input, taken from HeaderMsgs.                *)
(***************************************************************************)
EXTENDS FrameShape, Sequences

CONSTANT HeaderMsgs     (* what headers can say                             *)

VARIABLES
  nibs,       (* input stream of nibbles                                   *)
  hd_left,    (* left: nibbles the current frame still misses              *)
  hd_frame,   (* frame: the frame being collected                          *)
  fi_q,       (* frame_info messages on their way to FrameSync             *)
  frm_q       (* frames on their way to the Decoder                        *)

\* A frame: how many nibbles, of which frames (ghost), whose header (ghost).
EmptyFrame == [frame |-> 0, has_crc |-> FALSE, count |-> 0, origin |-> {}]

HeaderInit ==
  /\ nibs = <<>>
  /\ hd_left = 0
  /\ hd_frame = EmptyFrame
  /\ fi_q = <<>> /\ frm_q = <<>>

DropNibs(n) == SubSeq(nibs, n + 1, Len(nibs))
TaggedNibs == {i \in 0 .. (Len(nibs) - 1) : nibs[i + 1].tag # <<>>}
LowestOf(S) == CHOOSE i \in S : \A j \in S : i <= j
NibsToNextTag ==
  LET later == TaggedNibs \ {0}
  IN  IF later = {} THEN Len(nibs) ELSE LowestOf(later)

SmallerOf(a, b) == IF a <= b THEN a ELSE b

\* Variants of Collect: the frame takes everything up to the next tag, and the
\* frame goes out with every call.
CollectTooMuch(frame, left) ==
  LET n    == NibsToNextTag
      more == [frame EXCEPT !.count = @ + n,
                            !.origin = @ \cup UNION {nibs[i].origin : i \in 1 .. n}]
  IN  /\ hd_left' = IF n >= left THEN 0 ELSE left - n
      /\ IF n >= left THEN /\ frm_q' = Append(frm_q, more)
                           /\ hd_frame' = EmptyFrame
                      ELSE /\ hd_frame' = more
                           /\ UNCHANGED frm_q
      /\ nibs' = DropNibs(n)
CollectPosts(frame, left) ==
  LET n    == SmallerOf(NibsToNextTag, left)
      more == [frame EXCEPT !.count = @ + n,
                            !.origin = @ \cup UNION {nibs[i].origin : i \in 1 .. n}]
  IN  /\ hd_left' = left - n
      /\ frm_q' = Append(frm_q, more)
      /\ hd_frame' = more
      /\ nibs' = DropNibs(n)

\* Append to frame what it still misses (left nibbles) from the next nibbles of
\* the input; the last one sends it off.
Collect(frame, left) ==
  LET n    == SmallerOf(NibsToNextTag, left)
      more == [frame EXCEPT !.count = @ + n,
                            !.origin = @ \cup UNION {nibs[i].origin : i \in 1 .. n}]
  IN  /\ hd_left' = left - n
      /\ IF left = n /\ left > 0
           THEN /\ frm_q' = Append(frm_q, more)
                /\ hd_frame' = EmptyFrame
           ELSE /\ hd_frame' = more
                /\ UNCHANGED frm_q
      /\ nibs' = DropNibs(n)

\* Nibbles in front of a tag that belong to no frame.
SkipToTag ==
  /\ 0 \notin TaggedNibs /\ TaggedNibs # {}
  /\ hd_left = 0
  /\ nibs' = DropNibs(NibsToNextTag)
  /\ UNCHANGED <<hd_left, hd_frame, fi_q, frm_q>>

IsHeader == 0 \in TaggedNibs /\ nibs[1].tag[1].is_header

CollectPayload ==
  /\ ~IsHeader
  /\ hd_left > 0
  /\ Collect(hd_frame, hd_left)
  /\ UNCHANGED fi_q

\* The header of the frame whose tag is at the front; m is what it says (an
\* implicit one is never wrong).  One variant drops a bad header without an
\* answer, the other answers and leaves a good one in the input.
DecodeHeaderSilent(m) ==
  /\ IsHeader
  /\ IF ImplHead THEN ~m.err ELSE Len(nibs) >= HeaderLen
  /\ IF m.err
       THEN /\ nibs' = DropNibs(HeaderLen)
            /\ UNCHANGED <<hd_left, hd_frame, fi_q, frm_q>>
       ELSE /\ fi_q' = Append(fi_q, [m EXCEPT !.frame = nibs[1].tag[1].frame])
            /\ Collect([EmptyFrame EXCEPT !.frame = nibs[1].tag[1].frame,
                                          !.has_crc = m.crc],
                       FrameNibbles(m))
DecodeHeaderAgain(m) ==
  /\ IsHeader
  /\ IF ImplHead THEN ~m.err ELSE Len(nibs) >= HeaderLen
  /\ fi_q' = Append(fi_q, [m EXCEPT !.frame = nibs[1].tag[1].frame])
  /\ nibs' = IF m.err THEN DropNibs(HeaderLen) ELSE nibs
  /\ UNCHANGED <<hd_left, hd_frame, frm_q>>

DecodeHeader(m) ==
  /\ IsHeader
  /\ IF ImplHead THEN ~m.err ELSE Len(nibs) >= HeaderLen
  /\ fi_q' = Append(fi_q, [m EXCEPT !.frame = nibs[1].tag[1].frame])
  /\ IF m.err
       THEN /\ nibs' = DropNibs(HeaderLen)
            /\ UNCHANGED <<hd_left, hd_frame, frm_q>>
       ELSE Collect([EmptyFrame EXCEPT !.frame = nibs[1].tag[1].frame,
                                       !.has_crc = m.crc],
                    FrameNibbles(m))

\* There is something to do for the next call.
HeaderCanWork ==
  /\ nibs # <<>>
  /\ \/ 0 \notin TaggedNibs /\ TaggedNibs # {} /\ hd_left = 0
     \/ ~IsHeader /\ hd_left > 0
     \/ IsHeader /\ (ImplHead \/ Len(nibs) >= HeaderLen)

HeaderWork ==
  /\ nibs # <<>>
  /\ \/ SkipToTag
     \/ CollectPayload
     \/ \E m \in HeaderMsgs : DecodeHeader(m)

=============================================================================
