------------------------------ MODULE RxChain ------------------------------
(***************************************************************************)
(* The receive chain as the flowgraphs connect it (src/node.rs and the     *)
(* loopback and receiver binaries):                                        *)
(*                                                                         *)
(*   FrameSync > FftDemod > GrayMapping > Deinterleaver > HammingDecoder   *)
(*             > HeaderDecoder | Decoder                                   *)
(*   HeaderDecoder.frame_info | FrameSync.frame_info                       *)
(*   Decoder.crc_check | FrameSync.payload_crc_result                      *)
(*                                                                         *)
(* Every block is a task of its own: a step of the chain is one work() or  *)
(* handler call of one block, in any interleaving; streams and message     *)
(* ports are FIFO queues.                                                  *)
(***************************************************************************)
EXTENDS FrameSync

CONSTANT MaxRetunes    (* bound: bandwidth and center_freq messages         *)
ASSUME RetuneAssumption == MaxRetunes \in Nat

VARIABLES
  sync_out, words, nibs,                          (* streams               *)
  fd_is_header, fd_cr, fd_out, fd_frame_info,     (* FftDemod              *)
  di_is_header, di_cr,                            (* Deinterleaver         *)
  hd_left, hd_frame,                              (* HeaderDecoder         *)
  fi_q, frm_q, crc_q, payloads,                   (* messages              *)
  ids,        (* ghost: the net id every frame was accepted with           *)
  vouched,    (* ghost: frames that passed the check their policy asks for *)
  accepted,   (* ghost: frames whose header was good                       *)
  posted,     (* ghost: the frames the HeaderDecoder sent to the Decoder   *)
  retunes     (* ghost: how often the receiver was retuned                 *)

FD == INSTANCE FftDemod
DI == INSTANCE Deinterleaver
HD == INSTANCE HeaderDecoder
DE == INSTANCE Decoder

ghosts == <<ids, vouched, accepted, posted, retunes>>
streamVars == <<sync_out, words, nibs>>
demodState == <<fd_is_header, fd_cr, fd_out, fd_frame_info>>
deinterState == <<di_is_header, di_cr>>
headerState == <<hd_left, hd_frame>>
messages == <<fi_q, frm_q, crc_q, payloads>>
chainVars == <<vars, streamVars, demodState, deinterState, headerState, messages, ghosts>>

ChainInit ==
  /\ Init
  /\ FD!DemodInit
  /\ DI!DeinterInit
  /\ HD!HeaderInit
  /\ DE!DecoderInit
  /\ ids = <<>>
  /\ vouched = {} /\ accepted = {}
  /\ posted = <<>> /\ retunes = 0

Symbol(tags) == [frame |-> frame_cnt', tags |-> tags]

FrameSyncStep ==
  /\ Work
  /\ sync_out' = IF io'.produce > 0 THEN Append(sync_out, Symbol(io'.tags)) ELSE sync_out
  /\ ids' = IF frame_cnt' > frame_cnt THEN Append(ids, net_id') ELSE ids
  /\ UNCHANGED <<words, nibs, demodState, deinterState, headerState, messages,
                 vouched, accepted, posted, retunes>>

FftDemodStep ==
  /\ FD!DemodWork
  /\ UNCHANGED <<vars, nibs, deinterState, headerState, messages, ghosts>>

DeinterleaverStep ==
  /\ DI!DeinterWork
  /\ UNCHANGED <<vars, sync_out, demodState, headerState, messages, ghosts>>

HeaderDecoderStep ==
  /\ HD!HeaderWork
  /\ LET answer == fi_q'[Len(fi_q')]
         good   == IF fi_q' # fi_q /\ ~answer.err THEN {answer.frame} ELSE {}
     IN  /\ accepted' = accepted \cup good
         /\ vouched' = IF Policy = "HeaderCrcOk" THEN vouched \cup good ELSE vouched
  /\ posted' = IF frm_q' # frm_q THEN Append(posted, frm_q'[Len(frm_q')]) ELSE posted
  /\ UNCHANGED <<vars, sync_out, words, demodState, deinterState, crc_q, payloads, ids,
                 retunes>>

DecoderStep ==
  /\ DE!DecoderWork
  /\ LET result == crc_q'[Len(crc_q')]
     IN  vouched' = IF Policy = "PayloadCrcOk" /\ crc_q' # crc_q /\ result.valid
                      THEN vouched \cup {result.frame} ELSE vouched
  /\ UNCHANGED <<vars, streamVars, demodState, deinterState, headerState, fi_q,
                 ids, accepted, posted, retunes>>

FrameInfoStep ==
  /\ fi_q # <<>>
  /\ FrameInfo(Head(fi_q))
  /\ fi_q' = Tail(fi_q)
  /\ UNCHANGED <<streamVars, demodState, deinterState, headerState, frm_q, crc_q,
                 payloads, ghosts>>

PayloadCrcStep ==
  /\ crc_q # <<>>
  /\ PayloadCrcResult(Head(crc_q).valid)
  /\ crc_q' = Tail(crc_q)
  /\ UNCHANGED <<streamVars, demodState, deinterState, headerState, fi_q, frm_q,
                 payloads, ghosts>>

RetuneStep ==
  /\ retunes < MaxRetunes
  /\ retunes' = retunes + 1
  /\ Retune
  /\ UNCHANGED <<streamVars, demodState, deinterState, headerState, messages,
                 ids, vouched, accepted, posted>>

ChainNext ==
  \/ FrameSyncStep
  \/ FftDemodStep
  \/ DeinterleaverStep
  \/ HeaderDecoderStep
  \/ DecoderStep
  \/ FrameInfoStep
  \/ PayloadCrcStep
  \/ RetuneStep

ChainSpec == ChainInit /\ [][ChainNext]_chainVars

\* The runtime calls a block again as long as it has input, messages come
\* before work, and the sample stream never ends.
ChainFairness ==
  /\ WF_chainVars(FrameSyncStep)
  /\ WF_chainVars(FftDemodStep)
  /\ WF_chainVars(DeinterleaverStep)
  /\ WF_chainVars(HeaderDecoderStep)
  /\ WF_chainVars(DecoderStep)
  /\ WF_chainVars(FrameInfoStep)
  /\ WF_chainVars(PayloadCrcStep)

FairChainSpec == ChainSpec /\ ChainFairness

(***************************************************************************)
(* Properties.                                                             *)
(***************************************************************************)
WaitsForHeader ==
  m_state = "SfoCompensation" /\ symbol_cnt >= HeaderSymbols /\ ~m_received_head

\* The handlers of bandwidth and center_freq reset FrameSync and nothing else:
\* what the old frame left in the chain, its tags and its answer meets the next
\* frame.  What follows is only promised of a receiver that was not retuned, and
\* up to and including the call in which FrameSync panics, if it ever does.
Undisturbed == retunes = 0 /\ ~panicked

\* A frame_info message answers the frame FrameSync is waiting with: it arrives
\* in the state the handler silently assumes (it changes net id cache, gate and
\* frame length without looking at the state), and there is only one.
AnswerIsForWaitingFrame ==
  Undisturbed /\ fi_q # <<>> => Len(fi_q) = 1 /\ WaitsForHeader /\ fi_q[1].frame = frame_cnt

\* The channel from the handler to work() holds at most the tag of the current
\* frame, so that try_send().unwrap() never panics.
TagChannelNotFull == Undisturbed => Len(tagq) <= 1

\* No two tags ever share a sample, on the stream or waiting on the writer:
\* FftDemod would ask to be called again forever without consuming anything.
OneTagPerSymbol ==
  Undisturbed =>
    /\ Len(pend) <= 1
    /\ \A i \in DOMAIN sync_out : Len(sync_out[i].tags) <= 1

\* A frame handed to the Decoder has exactly the nibbles its header asks for, of
\* which no other frame gets any: besides its own there are only nibbles of frames
\* whose header never was good.  (Of a bad header's block HeaderDecoder drops five
\* nibbles, and appends the others to a frame that is not complete.)
FramesAreWhole ==
  \A i \in DOMAIN posted :
    /\ posted[i].origin \cap accepted = {posted[i].frame}
    /\ \E m \in HeaderMsgs :
         ~m.err /\ m.crc = posted[i].has_crc /\ posted[i].count = FrameNibbles(m)

\* Only net ids of frames that passed the check of the caching policy get into
\* the cache, although the handlers cache whatever net_id holds at that moment.
CacheIsVouched ==
  Undisturbed => known \subseteq InitialNetIds \cup {ids[f] : f \in vouched}

\* Frames reach the Decoder in order and at most once, retuned or not: the chain
\* implements FrameDelivery.
Delivery == INSTANCE FrameDelivery WITH
  found <- frame_cnt, delivered <- [i \in DOMAIN posted |-> posted[i].frame]
DeliversInOrder == Delivery!Spec

\* FrameSync, which stops reading samples until the header is known, always gets
\* an answer.
HeaderIsAnswered == WaitsForHeader ~> ~WaitsForHeader

\* A frame whose header was good reaches the Decoder.
AcceptedIsPosted ==
  \A f \in 1 .. MaxFrames :
    f \in accepted ~> \E i \in DOMAIN posted : posted[i].frame = f

=============================================================================
