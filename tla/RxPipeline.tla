----------------------------- MODULE RxPipeline -----------------------------
(***************************************************************************)
(* What RxChain leaves out: the blocks of the receive chain with bounded   *)
(* buffers between them and with the wakeups they live on.                 *)
(*                                                                         *)
(*   FrameSync > sync_out > FftDemod > words > GrayMapping > grays         *)
(*    > Deinterleaver > codes > HammingDecoder > nibs > HeaderDecoder      *)
(*                                                                         *)
(* A block's work() is called when it was notified, by itself (call_again),*)
(* by what the block before it produced or by what the block after it      *)
(* consumed.  FrameSync is reduced to the symbols it writes and its wait   *)
(* for the header.  The ghost frame of a symbol is a pair: the frame, and  *)
(* whether the symbol is of its header block.                              *)
(***************************************************************************)
EXTENDS FrameShape, Sequences, SequencesExt

CONSTANTS
  HeaderMsgs,                             (* what headers can say          *)
  SyncCap, WordsCap, GraysCap, CodesCap, NibsCap,   (* items in a buffer   *)
  MaxFrames                               (* bound: frames                 *)

HeaderMsgType == [err : BOOLEAN, cr : Nat, pay_len : Nat, crc : BOOLEAN, frame : Nat]

ASSUME PipelineAssumption ==
  /\ {SyncCap, WordsCap, GraysCap, CodesCap, NibsCap, MaxFrames} \subseteq Nat \ {0}
  /\ HeaderMsgs \subseteq HeaderMsgType

VARIABLES
  frame_cnt, symbol_cnt, symb_numb,       (* FrameSync: frame and symbols, *)
  received_head, rates,                   (* header, code rates of headers *)
  sync_out, words, grays, codes, nibs,    (* buffers                       *)
  fd_is_header, fd_cr, fd_out, fd_frame_info,
  di_is_header, di_cr,
  hm_is_header, hm_cr,                    (* HammingDecoder                *)
  hd_left, hd_frame,
  fi_q, frm_q,                            (* messages                      *)
  notified                                (* per block                     *)

FD == INSTANCE FftDemod
DI == INSTANCE Deinterleaver WITH words <- grays, nibs <- codes
HD == INSTANCE HeaderDecoder

Blocks == {"FftDemod", "GrayMapping", "Deinterleaver", "HammingDecoder", "HeaderDecoder"}

syncState == <<frame_cnt, symbol_cnt, symb_numb, received_head, rates>>
demodState == <<fd_is_header, fd_cr, fd_out, fd_frame_info>>
deinterState == <<di_is_header, di_cr>>
hammingState == <<hm_is_header, hm_cr>>
headerState == <<hd_left, hd_frame>>
messages == <<fi_q, frm_q>>
pipeVars == <<syncState, sync_out, words, grays, codes, nibs, demodState, deinterState,
              hammingState, headerState, messages, notified>>

PipeInit ==
  /\ frame_cnt = 1 /\ symbol_cnt = 0 /\ symb_numb = 0
  /\ received_head = FALSE /\ rates = <<>>
  /\ FD!DemodInit /\ DI!DeinterInit /\ HD!HeaderInit
  /\ hm_is_header = FALSE /\ hm_cr = 1
  /\ notified = [b \in Blocks |-> TRUE]

(***************************************************************************)
(* Wakeups.                                                                *)
(***************************************************************************)
Pipes == {<<"FftDemod", "GrayMapping">>, <<"GrayMapping", "Deinterleaver">>,
          <<"Deinterleaver", "HammingDecoder">>, <<"HammingDecoder", "HeaderDecoder">>}

\* A call of b: who is woken by what it consumed and produced, and whether it wants
\* to be called again.
Called(b, again, consumed, produced) ==
  /\ notified[b]
  /\ notified' = [c \in Blocks |-> IF c = b THEN again
                                   ELSE \/ notified[c]
                                        \/ produced /\ <<b, c>> \in Pipes
                                        \/ consumed /\ <<c, b>> \in Pipes]

(***************************************************************************)
(* FrameSync.                                                              *)
(***************************************************************************)
\* There are symbols to write: those of the header, and once it is known those of
\* the payload.
MayWrite == symbol_cnt < HeaderSymbols \/ (symbol_cnt < symb_numb /\ received_head)

\* The next frame, received after this one's last symbol or bad header.
NextFrame ==
  frame_cnt' = frame_cnt + 1 /\ symbol_cnt' = 0 /\ received_head' = FALSE

TagOfSymbol ==
  CASE symbol_cnt = 0 -> <<[is_header |-> TRUE, cr |-> 0, frame |-> frame_cnt]>>
    [] symbol_cnt = HeaderSymbols ->
         <<[is_header |-> FALSE, cr |-> Last(rates), frame |-> frame_cnt]>>
    [] OTHER -> <<>>

WriteSymbol ==
  /\ frame_cnt <= MaxFrames
  /\ MayWrite
  /\ Len(sync_out) < SyncCap
  /\ sync_out' = Append(sync_out, [frame |-> <<frame_cnt, symbol_cnt < HeaderSymbols>>,
                                   tags |-> TagOfSymbol])
  /\ IF symbol_cnt + 1 = symb_numb /\ received_head
       THEN NextFrame
       ELSE symbol_cnt' = symbol_cnt + 1 /\ UNCHANGED <<frame_cnt, received_head>>
  /\ notified' = [notified EXCEPT !["FftDemod"] = TRUE]
  /\ UNCHANGED <<symb_numb, rates, words, grays, codes, nibs, demodState, deinterState,
                 hammingState, headerState, messages>>

\* frame_info().
TakeAnswer ==
  /\ fi_q # <<>>
  /\ fi_q' = Tail(fi_q)
  /\ rates' = Append(rates, Head(fi_q).cr)
  /\ IF Head(fi_q).err
       THEN NextFrame /\ UNCHANGED symb_numb
       ELSE /\ symb_numb' = SymbNumb(Head(fi_q)) /\ received_head' = TRUE
            /\ UNCHANGED <<frame_cnt, symbol_cnt>>
  /\ UNCHANGED <<sync_out, words, grays, codes, nibs, demodState, deinterState, hammingState,
                 headerState, frm_q, notified>>

(***************************************************************************)
(* The blocks.  A call that can do nothing has no effect but that it was   *)
(* made.                                                                   *)
(***************************************************************************)
SmallerOf(a, b) == IF a <= b THEN a ELSE b

\* The guard for room in the output is always true: a complete block is written
\* to the buffer whether it fits or not, which in the code is a slice out of range.
FftDemodCall ==
  /\ IF sync_out = <<>> THEN UNCHANGED <<sync_out, words, demodState>> ELSE FD!DemodWork
  /\ Called("FftDemod", sync_out' # <<>>, sync_out # <<>>, words' # words)
  /\ UNCHANGED <<syncState, grays, codes, nibs, deinterState, hammingState, headerState,
                 messages>>

\* The number of items mapped: up to the next tag, wherever it is, and otherwise
\* what there is room for.
Mapped ==
  IF words = <<>> \/ Len(grays) >= GraysCap THEN 0
  ELSE IF DI!TagsAt(words) \ {0} # {} THEN DI!UpToNextTag(words)
  ELSE SmallerOf(Len(words), GraysCap - Len(grays))

GrayMappingCall ==
  /\ grays' = grays \o SubSeq(words, 1, Mapped)
  /\ words' = SubSeq(words, Mapped + 1, Len(words))
  /\ Called("GrayMapping", FALSE, Mapped > 0, Mapped > 0)
  /\ UNCHANGED <<syncState, sync_out, codes, nibs, demodState, deinterState, hammingState,
                 headerState, messages>>

DeinterleaverCall ==
  /\ IF grays = <<>>
       THEN UNCHANGED <<grays, codes, deinterState>>
       ELSE \/ DI!DeinterDrop
            \/ DI!DeinterDecode /\ Len(codes') <= CodesCap
            \/ DI!DeinterNoRoom /\ CodesCap - Len(codes) < SfApp(di_is_header')
  /\ Called("Deinterleaver", grays' # grays /\ codes' = codes, grays' # grays, codes' # codes)
  /\ UNCHANGED <<syncState, sync_out, words, nibs, demodState, hammingState, headerState,
                 messages>>

\* Decode with the settings of the last tag, which stays on its item: what was
\* decoded with which rate is a ghost.  The variant looks for tags on the first
\* item only, and decodes on past others.
DecodableThroughTag == SmallerOf(Len(codes), NibsCap - Len(nibs))
Decodable == SmallerOf(DI!UpToNextTag(codes), NibsCap - Len(nibs))

HammingDecoderCall ==
  /\ IF codes # <<>> /\ Head(codes).tag # <<>>
       THEN LET tag == Head(codes).tag[1]
            IN  /\ hm_is_header' = tag.is_header
                /\ hm_cr' = IF tag.is_header THEN hm_cr ELSE tag.cr
       ELSE UNCHANGED hammingState
  /\ nibs' = nibs \o [i \in 1 .. Decodable |->
                        [origin |-> codes[i].origin, tag |-> codes[i].tag,
                         rate |-> IF hm_is_header' THEN 4 ELSE hm_cr']]
  /\ codes' = SubSeq(codes, Decodable + 1, Len(codes))
  /\ Called("HammingDecoder", codes' # <<>> /\ Len(nibs') < NibsCap,
            Decodable > 0, Decodable > 0)
  /\ UNCHANGED <<syncState, sync_out, words, grays, demodState, deinterState, headerState,
                 messages>>

\* Every way out of work() that takes nibbles asks to be called again.  The variant
\* forgets to.
HeaderDecoderCallOnce ==
  /\ \/ HD!HeaderWork
     \/ ~HD!HeaderCanWork /\ UNCHANGED <<nibs, headerState, messages>>
  /\ Called("HeaderDecoder", FALSE, nibs' # nibs, FALSE)
  /\ UNCHANGED <<syncState, sync_out, words, grays, codes, demodState, deinterState,
                 hammingState>>
HeaderDecoderCall ==
  /\ \/ HD!HeaderWork
     \/ ~HD!HeaderCanWork /\ UNCHANGED <<nibs, headerState, messages>>
  /\ Called("HeaderDecoder", nibs' # nibs, nibs' # nibs, FALSE)
  /\ UNCHANGED <<syncState, sync_out, words, grays, codes, demodState, deinterState,
                 hammingState>>

PipeNext ==
  \/ WriteSymbol \/ TakeAnswer
  \/ FftDemodCall \/ GrayMappingCall \/ DeinterleaverCall
  \/ HammingDecoderCall \/ HeaderDecoderCall

\* A block that was notified is called; FrameSync and the runtime do not stop.
PipeSpec ==
  /\ PipeInit /\ [][PipeNext]_pipeVars
  /\ WF_pipeVars(WriteSymbol) /\ WF_pipeVars(TakeAnswer)
  /\ WF_pipeVars(FftDemodCall) /\ WF_pipeVars(GrayMappingCall)
  /\ WF_pipeVars(DeinterleaverCall) /\ WF_pipeVars(HammingDecoderCall)
  /\ WF_pipeVars(HeaderDecoderCall)

(***************************************************************************)
(* What the theorems assume of the constants.                              *)
(***************************************************************************)
\* The buffers on both sides of GrayMapping hold the symbols of any payload, and
\* the one before it those of the next header too.  Nothing in the code asks for
\* that: they are the runtime's default buffers.
RoomForFrames ==
  /\ HeaderSymbols <= WordsCap
  /\ \A m \in HeaderMsgs :
       ~m.err => SymbNumb(m) <= WordsCap /\ SymbNumb(m) - HeaderSymbols <= GraysCap

\* Every good header asks for nibbles.
HeadersAskForNibbles == \A m \in HeaderMsgs : ~m.err => FrameNibbles(m) > 0

(***************************************************************************)
(* Properties.                                                             *)
(***************************************************************************)
\* What there is between FrameSync and the Deinterleaver, whatever the buffers hold.
\* Once its header was answered it is symbols of this frame's payload and nothing
\* else, neither of its header nor of a frame before; until then it is the payload of
\* the frame before, at most, and what was written of the header.  No counter says so
\* in the code: it is the effect of FrameSync's wait, if no answer comes early.
Held == Len(grays) + Len(words) + Len(fd_out) + Len(sync_out)
HoldsOneFrame ==
  IF received_head
    THEN Held + HeaderSymbols <= symbol_cnt
    ELSE Held <= symbol_cnt + (IF symb_numb > HeaderSymbols THEN symb_numb - HeaderSymbols ELSE 0)

\* Neither FftDemod, whose guard for room is always true, nor GrayMapping, which
\* maps up to a tag without looking for room, writes beyond its output, as long as
\* the buffers hold what the chain does: the payload of one frame and the header of
\* the next.  With the runtime's default buffers that is not said (RoomForFrames).
NothingOverrun == Len(words) <= WordsCap /\ Len(grays) <= GraysCap

\* However the blocks cut the stream, tags stay with the items they are about:
\* every nibble is made of symbols of one frame and one kind, and decoded with the
\* rate that frame's header announced.
DecodedAtOwnRate ==
  \A i \in DOMAIN nibs :
    \E f \in 1 .. frame_cnt, is_header \in BOOLEAN :
      /\ nibs[i].origin = {<<f, is_header>>}
      /\ nibs[i].rate = IF is_header THEN 4 ELSE rates[f]

\* No wakeup is lost, although GrayMapping and Deinterleaver do one piece of work
\* per call without asking for another: FrameSync's wait for the header ends.
Waiting == symbol_cnt = HeaderSymbols /\ ~received_head
WaitEnds == Waiting ~> ~Waiting

\* Every frame with a good header gets to the Decoder, unless its payload is a
\* single block shorter than a header block: that one is dropped when the next
\* header is close behind it.
LongEnough(f) == frame_cnt = f /\ received_head /\ symb_numb - HeaderSymbols >= 8
LongFramesArrive ==
  \A f \in 1 .. MaxFrames :
    LongEnough(f) ~> \E i \in DOMAIN frm_q : frm_q[i].frame = f

=============================================================================
