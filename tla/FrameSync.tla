----------------------------- MODULE FrameSync -----------------------------
(***************************************************************************)
(* The FrameSync block of the LoRa receiver (src/frame_sync.rs).  It scans *)
(* the sample stream for a preamble, aligns itself with it in time and     *)
(* frequency, checks the network identifier (the two symbols after the     *)
(* preamble), and then hands the frame to the rest of the receive chain    *)
(* one symbol at a time.  The chain talks back with two messages:          *)
(* frame_info (the header) and payload_crc_result.                         *)
(*                                                                         *)
(* The signal processing is abstracted to the value every demodulated      *)
(* symbol gets (a bin, or None when it holds no energy); the control flow, *)
(* the sample bookkeeping and the message handlers are kept in full.  A    *)
(* fractional timing offset only shows as the microsample it adds to or    *)
(* removes from what is consumed.  One action is one call of work(), or of *)
(* one message handler.                                                    *)
(***************************************************************************)
EXTENDS FrameShape, Sequences, FiniteSets

CONSTANTS
  N,               (* bins of a symbol, 2^SF: m_number_of_bins             *)
  OS,              (* oversampling: m_os_factor                            *)
  PreambleLen,     (* upchirps in a preamble: m_preamb_len                 *)
  Policy,          (* net_id_caching_policy                                *)
  InitialNetIds,   (* expanded initial_sync_words                          *)
  UpBins,          (* bins the environment produces for upchirps,          *)
  DownBins,        (* ... for the second downchirp,                        *)
  IdBins,          (* ... and for the net id symbols                       *)
  InputSizes,      (* lengths of the input slice offered to work()         *)
  OutputSizes,     (* lengths of the output slice offered to work()        *)
  HeaderMsgs,      (* frame_info messages that can arrive                  *)
  MaxFrames        (* bound: after so many frames the air stays silent     *)

Policies == {"None", "Seen", "HeaderCrcOk", "PayloadCrcOk"}

\* A decoded header as the frame_info message carries it.  The field frame is
\* a ghost: the frame whose symbols the header was decoded from.
HeaderMsgType == [err : BOOLEAN, cr : Nat, pay_len : Nat, crc : BOOLEAN, frame : Nat]

ASSUME ShapeAssumption ==
  /\ N \in Nat /\ N >= 32 /\ N % 8 = 0
  /\ OS \in Nat \ {0}
  /\ PreambleLen \in Nat /\ PreambleLen >= 5
  /\ Policy \in Policies
ASSUME InputAssumption ==
  /\ InitialNetIds \subseteq ((0 .. 255) \X (0 .. 255))
  /\ UpBins \subseteq 0 .. (N - 1)
  /\ DownBins \subseteq 0 .. (N - 1)
  /\ IdBins \subseteq 0 .. (N - 1)
  /\ InputSizes \subseteq Nat /\ OutputSizes \subseteq Nat
  /\ HeaderMsgs \subseteq HeaderMsgType
  /\ MaxFrames \in Nat

None == -1                       \* Option::None for a bin
OptBin == (0 .. (N - 1)) \cup {None}

\* The SyncState values by their usize conversion; larger ones are Synced(n).
NetId1 == 0
NetId2 == 1
Downchirp1 == 2
Downchirp2 == 3
QuarterDown == 4

SPS == N * OS                    \* m_samples_per_symbol
NUpReq == PreambleLen - 3        \* m_n_up_req
UpSymbToUse == PreambleLen - 4   \* up_symb_to_use
AdditionalSamples == 4           \* ADDITIONAL_SAMPLES_FOR_NET_ID_RESYNCHING
MaxUnknownOffset == 1            \* MAX_UNKNOWN_NET_ID_OFFSET
ChannelCapacity == 2             \* mpsc::channel(1): one slot plus one per sender

\* The lengths new() gives the sample buffers.
NetIdSampLen == (5 * SPS) \div 2
PreambleRawUpLen == (PreambleLen + 3) * SPS
PreambleRawLen == PreambleLen * N

VARIABLES
  m_state,               (* "Detect", "Sync" or "SfoCompensation"           *)
  symbol_cnt,            (* SyncState, or symbols of the frame sent on      *)
  bin_idx,               (* value of the last symbol, or None               *)
  preamb_up_vals,        (* the upchirp values of the current run           *)
  k_hat,                 (* integer part of CFO + STO                       *)
  additional_upchirps,   (* upchirps beyond the required ones               *)
  down_val,              (* value of the second downchirp, or None          *)
  net_id,                (* the last demodulated pair                       *)
  known,                 (* known_valid_net_ids and its mirror image        *)
  ready_to_detect,       (* gate of policy PayloadCrcOk                     *)
  m_received_head,       (* the header of the current frame has arrived     *)
  m_symb_numb,           (* symbols of the current frame                    *)
  frame_cnt,             (* frames found; also names the current frame      *)
  tagq,                  (* tag_from_msg_handler_to_work_channel            *)
  pend,                  (* tags waiting on the writer for the next item    *)
  io,                    (* what the last call of work() took and produced  *)
  panicked               (* a panic has ended the task                      *)

vars == <<m_state, symbol_cnt, bin_idx, preamb_up_vals, k_hat,
          additional_upchirps, down_val, net_id, known, ready_to_detect,
          m_received_head, m_symb_numb, frame_cnt, tagq, pend, io, panicked>>

\* The frame_info tag of the output stream, for the header block or for the
\* payload blocks of a frame.
TagType == [is_header : BOOLEAN, cr : Nat, frame : Nat]
HeaderTag(f) == [is_header |-> TRUE, cr |-> 0, frame |-> f]
PayloadTag(m) == [is_header |-> FALSE, cr |-> m.cr, frame |-> m.frame]

(***************************************************************************)
(* Arithmetic of the block.                                                *)
(***************************************************************************)
NearBin(b, last) == last # None /\ (b - last) \in {-1, 0, 1, N - 1, 1 - N}

Occurrences(v, vals) == Cardinality({i \in DOMAIN vals : vals[i] = v})
MostFrequent(vals) ==
  {vals[i] : i \in {j \in DOMAIN vals :
     \A k \in DOMAIN vals : Occurrences(vals[k], vals) <= Occurrences(vals[j], vals)}}

\* m_cfo_int: half the downchirp value, taken as negative in the upper half
\* (isize division truncates towards zero).
CfoIntUnsigned(d) == d \div 2     \* variant: never negative
CfoInt(d) == IF d < N \div 2 THEN d \div 2 ELSE -((N - d) \div 2)

\* The low three bits of a net id symbol are an offset; raw values above 4 are
\* negative ones, whose identifier is the next higher multiple of 8.
OffRaw(v) == v % 8
NetIdOff(v) == IF OffRaw(v) > 4 THEN OffRaw(v) - 8 ELSE OffRaw(v)
Mask(v) == 8 * ((v \div 8) % 32)                    \* v & 0xF8
Aligned(v, ref) == Mask(IF OffRaw(ref) > 4 THEN (v + 8) % N ELSE v)

\* The net ids that known_valid_net_ids and its mirror image have an entry for.
NetIds == (0 .. 255) \X (0 .. 255)

\* Items the recovery of the first payload symbol writes: every OS-th sample of
\* additional_symbol_samp from where the symbol starts, moved by the CFO and by
\* the fractional STO (r microsamples), to the fixed end of a symbol and a
\* quarter.
RecoveredItems(r) == N - CfoInt(down_val) - ((OS \div 2 - r) \div OS)

\* Samples sync_quarter_down leaves behind when it accepts a frame: the four
\* held back before, the net id offset (shift), the quarter downchirp moved by
\* the CFO, and one microsample for each of the two wraps of the fractional STO.
QuarterDownConsume(shift, w1, w2) ==
  AdditionalSamples + w1 + shift + SPS \div 4 + OS * CfoInt(down_val) - OS + w2
    + (IF SF < 7 THEN 2 * SPS ELSE 0)

LargerOf(a, b) == IF a >= b THEN a ELSE b

\* Samples that have to be there for the quarter downchirp.  The variant forgets
\* the two more symbols that small spreading factors skip.
QuarterDownNeedShort ==
  LargerOf(SPS \div 4 + OS * (N \div 2 + AdditionalSamples) + 2, SPS + AdditionalSamples)

QuarterDownNeed ==
  LargerOf(SPS \div 4 + OS * (N \div 2 + AdditionalSamples) + 2, SPS + AdditionalSamples)
    + (IF SF < 7 THEN 2 * SPS ELSE 0)

\* next_iteration_possible: with n input samples and room for s output items.
NextIterationPossible(n, s) ==
  /\ n >= SPS
  /\ CASE m_state = "Detect" ->
            /\ Policy # "PayloadCrcOk" \/ ready_to_detect
            /\ n >= OS \div 2 + SPS
       [] m_state = "Sync" /\ symbol_cnt = NetId1 -> n >= OS \div 2 + k_hat * OS + SPS
       [] m_state = "Sync" /\ symbol_cnt = NetId2 -> n > (N + 1) * OS
       [] m_state = "Sync" /\ symbol_cnt \in {Downchirp1, Downchirp2} -> TRUE
       [] m_state = "Sync" /\ symbol_cnt = QuarterDown ->
            /\ n >= QuarterDownNeed
            /\ s >= N
       [] m_state = "SfoCompensation" ->
            /\ symbol_cnt < HeaderSymbols \/ m_received_head
            /\ n > SPS
            /\ s >= N

(***************************************************************************)
(* Helpers of the actions.                                                 *)
(***************************************************************************)
Io(n, consumed) == io' = [nitems |-> n, consume |-> consumed, produce |-> 0, tags |-> <<>>]

\* A call that produces one symbol: every tag waiting on the writer goes with
\* its first item.
IoSymbol(n, consumed, tags) ==
  /\ io' = [nitems |-> n, consume |-> consumed, produce |-> N, tags |-> tags]
  /\ pend' = <<>>

\* try_next() of the channel.  The variant looks at the tag and leaves it.
Peek(q) == q
Pop(q) == IF q = <<>> THEN <<>> ELSE Tail(q)

\* reset(keep_last_symbol); b is the value of bin_idx when it is called.  The
\* variant forgets the counter of the state it leaves.
ResetKeepsCounter(keep, b) ==
  /\ m_state' = "Detect"
  /\ symbol_cnt' = IF keep THEN NetId2 ELSE symbol_cnt
  /\ bin_idx' = IF keep THEN b ELSE None
  /\ preamb_up_vals' = IF keep /\ b # None THEN [preamb_up_vals EXCEPT ![0] = b]
                                           ELSE preamb_up_vals
  /\ k_hat' = 0
  /\ tagq' = Pop(tagq)
  /\ ready_to_detect' = TRUE

Reset(keep, b) ==
  /\ m_state' = "Detect"
  /\ symbol_cnt' = IF keep THEN NetId2 ELSE NetId1
  /\ bin_idx' = IF keep THEN b ELSE None
  /\ preamb_up_vals' = IF keep /\ b # None THEN [preamb_up_vals EXCEPT ![0] = b]
                                           ELSE preamb_up_vals
  /\ k_hat' = 0
  /\ tagq' = Pop(tagq)
  /\ ready_to_detect' = TRUE

\* cache_current_net_id() of an id that has an entry.
CacheNetId(id) == known' = known \cup {id}

\* A panic ends the task in the middle of a call; nothing reads its state again.
Panic ==
  /\ panicked' = TRUE
  /\ UNCHANGED <<m_state, symbol_cnt, bin_idx, preamb_up_vals, k_hat, additional_upchirps,
                 down_val, net_id, known, ready_to_detect, m_received_head, m_symb_numb,
                 frame_cnt, tagq, pend>>

(***************************************************************************)
(* detect()                                                                *)
(***************************************************************************)
DetectSilence(n) ==
  /\ bin_idx' = None
  /\ symbol_cnt' = NetId1
  /\ Io(n, SPS)
  /\ UNCHANGED <<m_state, preamb_up_vals, k_hat, additional_upchirps>>

DetectSymbol(n, b) ==
  LET match == NearBin(b, bin_idx)
      at    == IF match THEN symbol_cnt ELSE 0
      vals  == [preamb_up_vals EXCEPT ![at] = b]
  IN  /\ frame_cnt < MaxFrames
      /\ bin_idx' = b
      /\ preamb_up_vals' = vals
      /\ IF at + 1 = NUpReq
           THEN /\ m_state' = "Sync"
                /\ symbol_cnt' = NetId1
                /\ additional_upchirps' = 0
                /\ k_hat' \in MostFrequent(vals)
                /\ Io(n, OS * (N - k_hat'))
           ELSE /\ symbol_cnt' = at + 1
                /\ Io(n, SPS)
                /\ UNCHANGED <<m_state, additional_upchirps, k_hat>>

Detect(n) ==
  /\ m_state = "Detect"
  /\ \/ DetectSilence(n)
     \/ \E b \in UpBins : DetectSymbol(n, b)
  /\ UNCHANGED <<down_val, net_id, known, ready_to_detect, m_received_head,
                 m_symb_numb, frame_cnt, tagq, pend, panicked>>

(***************************************************************************)
(* sync()                                                                  *)
(***************************************************************************)
\* Extra upchirps are counted up to the three the buffers have room for; the
\* variant counts on.
SyncNetId1Uncapped(n, b) ==
  /\ symbol_cnt = NetId1
  /\ IF b \in {0, 1, N - 1}
       THEN /\ additional_upchirps' = additional_upchirps + 1
            /\ symbol_cnt' = symbol_cnt
       ELSE /\ symbol_cnt' = NetId2
            /\ UNCHANGED additional_upchirps
  /\ Io(n, SPS)
  /\ UNCHANGED down_val

SyncNetId1(n, b) ==
  /\ symbol_cnt = NetId1
  /\ IF b \in {0, 1, N - 1}
       THEN /\ additional_upchirps' = IF additional_upchirps >= 3 THEN additional_upchirps
                                                               ELSE additional_upchirps + 1
            /\ symbol_cnt' = symbol_cnt
       ELSE /\ symbol_cnt' = NetId2
            /\ UNCHANGED additional_upchirps
  /\ Io(n, SPS)
  /\ UNCHANGED down_val

SyncNetId2(n) ==
  /\ symbol_cnt = NetId2
  /\ symbol_cnt' = Downchirp1
  /\ Io(n, SPS)
  /\ UNCHANGED <<additional_upchirps, down_val>>

SyncDownchirp1(n) ==
  /\ symbol_cnt = Downchirp1
  /\ symbol_cnt' = Downchirp2
  /\ Io(n, SPS)
  /\ UNCHANGED <<additional_upchirps, down_val>>

\* The last four samples of the second downchirp stay in the input.
SyncDownchirp2(n) ==
  /\ symbol_cnt = Downchirp2
  /\ symbol_cnt' = QuarterDown
  /\ down_val' \in DownBins \cup {None}
  /\ Io(n, SPS - AdditionalSamples)
  /\ UNCHANGED additional_upchirps

SyncSymbol(n) ==
  /\ m_state = "Sync"
  /\ \E b \in UpBins \cup {None} :
       /\ bin_idx' = b
       /\ \/ SyncNetId1(n, b)
          \/ SyncNetId2(n)
          \/ SyncDownchirp1(n)
          \/ SyncDownchirp2(n)
  /\ UNCHANGED <<m_state, preamb_up_vals, k_hat, net_id, known, ready_to_detect,
                 m_received_head, m_symb_numb, frame_cnt, tagq, pend, panicked>>

(***************************************************************************)
(* sync_quarter_down(): decide whether this is a frame.                    *)
(***************************************************************************)
\* Give the preamble up: back to detection, keeping the last symbol or not.
Abandon(n, keep, b, consumed, id) ==
  /\ Reset(keep, b)
  /\ Io(n, consumed)
  /\ net_id' = id
  /\ UNCHANGED <<known, m_received_head, frame_cnt, pend, panicked>>

\* Accept it: the header tag is put at index 0 of the output.  The variant
\* forgets that the header of the last frame has arrived.
AcceptKeepsHead(cnt, b, id) ==
  /\ m_state' = "SfoCompensation"
  /\ symbol_cnt' = cnt
  /\ bin_idx' = b
  /\ net_id' = id
  /\ frame_cnt' = frame_cnt + 1
  /\ UNCHANGED <<preamb_up_vals, k_hat, ready_to_detect, tagq, m_received_head, panicked>>

Accept(cnt, b, id) ==
  /\ m_state' = "SfoCompensation"
  /\ symbol_cnt' = cnt
  /\ bin_idx' = b
  /\ net_id' = id
  /\ m_received_head' = FALSE
  /\ frame_cnt' = frame_cnt + 1
  /\ UNCHANGED <<preamb_up_vals, k_hat, ready_to_detect, tagq, panicked>>

\* Both net id symbols have the same offset: a frame starts with the next
\* sample.
AcceptMatching(n, b, id, off, w1, w2) ==
  /\ Accept(NetId1, b, id)
  /\ IF Policy = "Seen" THEN CacheNetId(id) ELSE known' = known
  /\ Io(n, QuarterDownConsume(-(OS * off), w1, w2))
  /\ pend' = Append(pend, HeaderTag(frame_cnt'))

\* What passed for net id 1 was net id 2, and net id 1 passed for an upchirp
\* (its value is v, kept with its low bits): the first payload symbol is in the
\* buffer already.
AcceptOneSymbolOff(n, b, id, off, w1, w2, v) ==
  /\ Accept(NetId2, b, <<v, id[1]>>)
  /\ IoSymbol(n, QuarterDownConsume(OS * off, w1, w2), Append(pend, HeaderTag(frame_cnt')))
  /\ UNCHANGED known

\* Net id symbols v0 and v1, the last preamble upchirp demodulated as v2; r is
\* the fractional STO in microsamples, s the room in the output.
ClassifyNetId(n, s, b, w1, w2, r, v0, v1, v2) ==
  LET off    == NetIdOff(v0)
      id     == <<Aligned(v0, v0), Aligned(v1, v0)>>
      resync == AdditionalSamples + w1
  IN  IF OffRaw(v0) = 4
        THEN Abandon(n, TRUE, b, 0, <<v0, v1>>)
      ELSE IF off \notin (-MaxUnknownOffset .. MaxUnknownOffset) /\ id \notin known
        THEN Abandon(n, TRUE, b, 0, id)
      ELSE IF OffRaw(v0) = OffRaw(v1)
        THEN AcceptMatching(n, b, id, off, w1, w2)
      ELSE IF v2 = None \/ OffRaw(v2) # OffRaw(v0) \/ <<Mask(v2), id[1]>> \notin known
        THEN Abandon(n, TRUE, b, resync, <<id[1], id[1]>>)
      ELSE IF RecoveredItems(r) > s
        THEN Panic /\ Io(n, 0)
      ELSE AcceptOneSymbolOff(n, b, id, off, w1, w2, v2)

\* The fractional STO drifts with the sampling frequency offset, which has the
\* sign of the CFO: over the preamble and over the downchirps it may leave
\* ]-0.5, 0.5] once each, both times on that side (w1 and w2).
SyncQuarterDown(n, s) ==
  /\ m_state = "Sync"
  /\ symbol_cnt = QuarterDown
  /\ \E b \in UpBins \cup {None} :
       IF down_val = None
         THEN Abandon(n, FALSE, b, SPS, net_id)
         ELSE \E sfo \in {-1, 1} : \E w1, w2 \in {0, sfo} :
                /\ sfo * CfoInt(down_val) >= 0
                /\ \/ Abandon(n, TRUE, b, AdditionalSamples + w1, net_id)
                   \/ \E v0 \in IdBins :
                        Abandon(n, TRUE, b, AdditionalSamples + w1, <<v0, net_id[2]>>)
                   \/ \E v0, v1 \in IdBins, v2 \in IdBins \cup {None}, r \in -OS .. OS :
                        ClassifyNetId(n, s, b, w1, w2, r, v0, v1, v2)
  /\ UNCHANGED <<additional_upchirps, down_val, m_symb_numb>>

(***************************************************************************)
(* compensate_sfo(): send the symbols of the frame on.  work() is never    *)
(* entered while the block waits for the header.                           *)
(***************************************************************************)
CompensateSfo(n) ==
  /\ m_state = "SfoCompensation"
  /\ LET new  == IF tagq = <<>> THEN <<>> ELSE <<PayloadTag(Head(tagq))>>
         rest == Pop(tagq)
     IN  IF symbol_cnt < HeaderSymbols \/ (symbol_cnt < m_symb_numb /\ m_received_head)
           THEN /\ \E w \in {-1, 0, 1} : IoSymbol(n, SPS - w, pend \o new)
                /\ symbol_cnt' = symbol_cnt + 1
                /\ tagq' = rest
                /\ UNCHANGED <<m_state, bin_idx, preamb_up_vals, k_hat, ready_to_detect>>
           ELSE /\ Io(n, SPS)
                /\ pend' = pend \o new
                /\ m_state' = "Detect"
                /\ symbol_cnt' = NetId1
                /\ bin_idx' = None
                /\ k_hat' = 0
                /\ tagq' = Pop(rest)
                /\ ready_to_detect' = TRUE
                /\ UNCHANGED preamb_up_vals
  /\ UNCHANGED <<additional_upchirps, down_val, net_id, known, m_received_head,
                 m_symb_numb, frame_cnt, panicked>>

Work ==
  /\ ~panicked
  /\ \E n \in InputSizes, s \in OutputSizes :
       /\ NextIterationPossible(n, s)
       /\ \/ Detect(n)
          \/ SyncSymbol(n)
          \/ SyncQuarterDown(n, s)
          \/ CompensateSfo(n)

(***************************************************************************)
(* Message handlers.                                                       *)
(***************************************************************************)
\* bandwidth and center_freq: whatever is in progress is dropped.
Retune ==
  /\ ~panicked
  /\ Reset(FALSE, bin_idx)
  /\ UNCHANGED <<additional_upchirps, down_val, net_id, known, m_received_head,
                 m_symb_numb, frame_cnt, pend, io, panicked>>

TakePayloadCrc(crc_valid) ==
  /\ IF Policy = "PayloadCrcOk"
       THEN /\ IF crc_valid THEN CacheNetId(net_id) ELSE known' = known
            /\ ready_to_detect' = TRUE
       ELSE UNCHANGED <<known, ready_to_detect>>
  /\ UNCHANGED <<m_state, symbol_cnt, bin_idx, preamb_up_vals, k_hat, additional_upchirps,
                 down_val, net_id, m_received_head, m_symb_numb, frame_cnt, tagq, pend,
                 panicked>>

PayloadCrcResult(crc_valid) ==
  /\ ~panicked
  /\ IF Policy = "PayloadCrcOk" /\ crc_valid /\ net_id \notin NetIds
       THEN Panic
       ELSE TakePayloadCrc(crc_valid)
  /\ UNCHANGED io

\* A header that is wrong drops the frame; the variant caches its net id.
FrameInfoBadCaches(m) ==
  /\ m.err
  /\ Reset(FALSE, bin_idx)
  /\ CacheNetId(net_id)
  /\ UNCHANGED <<m_received_head, m_symb_numb, panicked>>

FrameInfoBad(m) ==
  /\ m.err
  /\ Reset(FALSE, bin_idx)
  /\ UNCHANGED <<known, m_received_head, m_symb_numb, panicked>>

\* What makes the handler of a good header panic: a net id that the cache has no
\* entry for, or a full channel (try_send().unwrap()).
CannotTakeHeader ==
  \/ Policy = "HeaderCrcOk" /\ net_id \notin NetIds
  \/ Len(tagq) >= ChannelCapacity

FrameInfoGood(m) ==
  /\ ~m.err
  /\ ~CannotTakeHeader
  /\ IF Policy = "HeaderCrcOk" THEN CacheNetId(net_id) ELSE known' = known
  /\ ready_to_detect' = IF Policy = "PayloadCrcOk" /\ m.crc THEN FALSE ELSE ready_to_detect
  /\ m_symb_numb' = SymbNumb(m)
  /\ m_received_head' = TRUE
  /\ tagq' = Append(tagq, m)
  /\ UNCHANGED <<m_state, symbol_cnt, bin_idx, preamb_up_vals, k_hat, panicked>>

FrameInfoPanics(m) ==
  /\ ~m.err
  /\ CannotTakeHeader
  /\ Panic

FrameInfo(m) ==
  /\ ~panicked
  /\ FrameInfoBad(m) \/ FrameInfoGood(m) \/ FrameInfoPanics(m)
  /\ UNCHANGED <<additional_upchirps, down_val, net_id, frame_cnt, pend, io>>

(***************************************************************************)
(* The block in an environment that sends any message at any time.         *)
(***************************************************************************)
Init ==
  /\ m_state = "Detect"
  /\ symbol_cnt = NetId1
  /\ bin_idx = None
  /\ preamb_up_vals = [i \in 0 .. (NUpReq - 1) |-> 0]
  /\ k_hat = 0
  /\ additional_upchirps = 0
  /\ down_val = None
  /\ net_id = <<0, 0>>
  /\ known = InitialNetIds
  /\ ready_to_detect = TRUE
  /\ m_received_head = FALSE
  /\ m_symb_numb = 0
  /\ frame_cnt = 0
  /\ tagq = <<>>
  /\ pend = <<>>
  /\ io = [nitems |-> 0, consume |-> 0, produce |-> 0, tags |-> <<>>]
  /\ panicked = FALSE

Next ==
  \/ Work
  \/ Retune
  \/ \E v \in BOOLEAN : PayloadCrcResult(v)
  \/ \E m \in HeaderMsgs : FrameInfo(m)

Spec == Init /\ [][Next]_vars

(***************************************************************************)
(* Properties.                                                             *)
(***************************************************************************)
IoType == [nitems : Nat, consume : Int, produce : {0, N}, tags : Seq(TagType)]

TypeOK ==
  /\ m_state \in {"Detect", "Sync", "SfoCompensation"}
  /\ symbol_cnt \in Nat
  /\ bin_idx \in OptBin
  /\ preamb_up_vals \in [0 .. (NUpReq - 1) -> 0 .. (N - 1)]
  /\ k_hat \in 0 .. (N - 1)
  /\ additional_upchirps \in 0 .. 3
  /\ down_val \in OptBin
  /\ net_id \in (0 .. (N - 1)) \X (0 .. (N - 1))
  /\ known \subseteq NetIds
  /\ ready_to_detect \in BOOLEAN
  /\ m_received_head \in BOOLEAN
  /\ m_symb_numb \in Nat
  /\ frame_cnt \in Nat
  /\ tagq \in Seq(HeaderMsgType)
  /\ Len(tagq) <= ChannelCapacity
  /\ pend \in Seq(TagType)
  /\ io \in IoType
  /\ panicked \in BOOLEAN

\* symbol_cnt means something else in every outer state.  While detecting it
\* indexes the buffers of the preamble, and in Sync next_iteration_possible
\* panics for a value that is no SyncState; every way back to detection, also
\* from a message handler, has to leave it in the range of the state it enters.
CounterFitsState ==
  /\ m_state = "Detect" => symbol_cnt < NUpReq
  /\ m_state = "Sync" => symbol_cnt <= QuarterDown

\* First index of the slice of net_id_samp that is demodulated again once the
\* CFO is known: a quarter symbol was kept in front for it to move into.
NetIdStart(d, sto_index) == sto_index + OS * (N \div 4 + CfoInt(d))

\* First index of the slice of preamble_raw_up the SNR is estimated from; sto is
\* the fractional STO in microsamples.
RawUpStart(sto) == OS * (N - k_hat) - sto

\* No slice that sync() and sync_quarter_down() take of the buffers filled
\* during the preamble leaves its buffer, for any alignment the detection found
\* and for every number of extra upchirps.  The lengths are fixed in new(), the
\* positions result from what all the earlier states did.
SlicesInBounds ==
  /\ m_state = "Sync" =>
       /\ (N - k_hat) + UpSymbToUse * N <= PreambleRawLen
       /\ SPS * (NUpReq + additional_upchirps) + SPS <= PreambleRawUpLen
  /\ m_state = "Sync" /\ symbol_cnt = QuarterDown /\ down_val # None =>
       /\ \A sto_index \in 0 .. (OS - 1) :
            /\ NetIdStart(down_val, sto_index) >= 0
            /\ NetIdStart(down_val, sto_index) + 2 * SPS <= NetIdSampLen
       /\ \A sto \in -OS .. OS :
            /\ RawUpStart(sto) >= 0
            /\ RawUpStart(sto) + SPS * (NUpReq + additional_upchirps) <= PreambleRawUpLen

\* No call of work() consumes more samples than it was offered: what
\* next_iteration_possible() asks for in a state covers the most that state can
\* take, whatever the CFO, the net id offset and the STO turn out to be.  (In the
\* code an assertion behind the first persistent change of the step.)  And it
\* never gets more than 4 * OS - 2 samples behind the end of the previous call.
StepFitsInput ==
  /\ io.consume <= io.nitems
  /\ io.consume >= 2 - 4 * OS

\* The assertion at the end of work(): "tried to consume negative amount of
\* samples".  It does not hold: four samples are kept back for the net id
\* offset whatever the oversampling factor is.
NeverConsumesNegative == io.consume >= 0

\* No call of work() and no message ends the task: net ids are used as indices of
\* a table of 256 entries, tags are put into a channel of fixed size, and the
\* symbol that was mistaken for the end of the downchirp is written to the room
\* next_iteration_possible() asked for.  It does not hold of the code.
NeverPanics == ~panicked

=============================================================================
