# Verification of the LoRa transceiver

TLA+ models of the receive and transmit chains and of the channel simulator of this
repository, TLC configurations that check them on small instances, and proofs for
the TLA+ proof system. File names without a directory are those of `src/`. The
program is a set of blocks for the FutureSDR runtime: every block is a task with a
`work()` function, message handlers, and bounded streams of items with tags to its
neighbours.

## The system

    tx:  payloads > Transmitter [ Encoder > Modulator ] > samples
    rx:  samples > FrameSync > FftDemod > GrayMapping > Deinterleaver
                 > HammingDecoder > HeaderDecoder | Decoder > payloads
         HeaderDecoder.frame_info  | FrameSync.frame_info
         Decoder.crc_check         | FrameSync.payload_crc_result

    simulator, for each node:
         UDP server | Transmitter > ChannelPublisher -- tx_out -->  ChannelProcessor
         ChannelProcessor -- rx_in --> ChannelSubscriber > noise > rx chains

`>` is a stream, `|` a message port. A frame is found on the air by FrameSync,
which demodulates the preamble, aligns itself in time and frequency, checks the
two net id symbols, and writes a frame to the chain symbol by symbol. The
first eight symbols hold the header in a code of their own. FrameSync stops
after them until the HeaderDecoder, five blocks further on, has answered with a
`frame_info` message, from which it computes how many more symbols there are. A
`frame_info` *tag* travels with the first symbol of the header and with the
first symbol of the payload, and tells every block of the chain how to read the
symbols behind it.

The channel simulator connects nodes without a radio. A node has a transmitter,
a publisher and a receive chain for every Meshtastic preset, and a UDP server
that hands datagrams to one of the transmitters. The publishers cut samples into
numbered frames of 1024; one task takes at most one frame from each node in a
round, sums those with the smallest number it holds, attenuated by the distance
of the nodes, and sends a sum to every node; there the subscriber turns sums
back into a stream. Another task moves the nodes.

### Inventory

| Component | State | Operations | Hard about it |
|---|---|---|---|
| FrameSync (`frame_sync.rs`) | `m_state`, `symbol_cnt` (one counter, two meanings), values of the preamble, CFO, STO, net ids, cache of known net ids, header received, number of symbols, gate `ready_to_detect`, channel of tags | `work` in the states Detect, Sync (net id 1 and 2, two downchirps, quarter downchirp) and SfoCompensation; handlers `bandwidth`, `center_freq`, `payload_crc_result`, `frame_info` | messages arrive in any state; the input each step consumes depends on four estimates; the gate is shared by two protocols |
| FftDemod (`fft_demod.rs`) | header or payload, code rate, a block of demodulated symbols, the tag to forward | `work` | a tag ends a block early; a bounded output |
| GrayMapping (`gray_mapping.rs`) | none | `work` | splits at tags, perhaps beyond its output; one piece of work per call |
| Deinterleaver (`deinterleaver.rs`) | header or payload, code rate | `work` | block length depends on a tag; drops what is too short |
| HammingDecoder (`hamming_dec.rs`) | header or payload, code rate | `work` | two decoders, tables; which rate a code word is decoded with |
| HeaderDecoder (`header_decoder.rs`) | nibbles left, the frame so far | `work` | a header block also holds payload; its answer keeps FrameSync alive |
| Decoder (`decoder.rs`) | none | handler `in` | CRC with two irregular bytes |
| Encoder (`encoder.rs`) | none | `encode` | padding, header in the first block |
| Modulator (`modulator.rs`) | none | `modulate` | signal processing |
| Transmitter (`transmitter.rs`) | queue, burst being sent, its offset and tag, finished | `work`, handler `msg` | full output, sleeping and waking up |
| Publisher (`shmem.rs`) | samples of the frame begun, number of the next frame | `work` | pads when its input is empty; is only woken by its writer |
| Processor (`channel.rs`, `bin/channel_process.rs`) | frames taken and not yet summed, positions | a round of its loop, position updates | nodes at different numbers, late frames, equal positions |
| Subscriber (`shmem.rs`) | frame begun, position in it | `work` | frames over several calls, silence between frames |
| Node (`node.rs`) | transmitters, index of the selected one | `new`, one datagram of the server | two numberings of presets; commands and payloads in one socket |
| Meshtastic (`meshtastic.rs`) | tables of presets, slots, frequencies | `to_config` | tables that must agree; unwraps |
| KISS (`kiss_driver.rs`) | none | formatting of commands | |
| Stream adder, noise (`stream_adder.rs`, `awgn.rs`) | none | `work` | |
| Packet forwarder, utilities | none | pure functions | |

### What has to be right

- FrameSync: no index leaves a buffer, no step consumes more than the gate of
  `next_iteration_possible()` asked for, however a handler resets the block.
- FrameSync with its chain: an answer is for the frame that waits for it; the
  wait ends; a tag belongs to one symbol; only checked net ids are cached.
- The chain: what the Decoder gets is one whole frame, frames come in order,
  and a frame with a good header gets there.
- Transmitter: whole bursts, in order, with one tag each, none forgotten.
- Streams of the chain: no block writes beyond its output, none sleeps while it
  has work, a nibble is decoded with the rate of its own frame.
- Channel simulator: a node hears every sample of the others, once and in order;
  nothing of a signal is left over when all tasks wait.
- Node: a node that exists has both directions of every preset, sends with the one
  it was asked to, and is heard by nodes like it; LongModerate is the exception.
- Encoder against receiver: two programs that compute the same number of
  symbols, the same interleaving, Gray code, Hamming code, header checksum,
  whitening and CRC, each from its own end.

The hazards, at the line where they bite, are listed in `PROJECT.json` with
the properties that cover them.

## Modules

| Module | What it is | Correspondence |
|---|---|---|
| `FrameShape` | lengths both sides compute from a header: symbols, nibbles, blocks | `frame_info()`, `HeaderDecoder::work` and the encoder's loop |
| `FrameSync` | the block, alone | each action is one call of `work()` in one state (`Detect`, `SyncNetId1` ... `SyncQuarterDown`, `CompensateSfo`) or of one handler (`FrameInfo`, `PayloadCrcResult`, `Retune`); variables keep the names of the fields |
| `FftDemod`, `Deinterleaver`, `HeaderDecoder`, `Decoder` | one block each, over the variables that `RxChain` declares | `DemodWork`, `DeinterWork`, `HeaderWork`, `DecoderWork` are calls of `work()` or of the handler |
| `RxChain` | FrameSync and the four blocks connected | one action per task; streams and ports are FIFO queues |
| `FrameDelivery` | abstract: found frames are delivered at most once, in order | implemented by `RxChain` |
| `RxPipeline` | the chain again, with bounded buffers and wakeups, and with `GrayMapping` and `HammingDecoder` as blocks | one action per call of a block's `work()`, also of those that can do nothing; uses `FftDemod`, `Deinterleaver`, `HeaderDecoder` |
| `Transmitter` | handler, `work()`, the reader of its output, wakeups | `MsgPayload`, `MsgFinished`, `Work`, `Consume` |
| `BurstStream` | abstract: the stream is the bursts, whole, in order, each with its tag; it only grows | implemented by `Transmitter` |
| `Encoder` | the lengths in `encode()`: nibbles, the interleaver's loop, padding | one action per block interleaved |
| `BlockCodec` | a block of code words through encoder, Gray code, channel and receiver, bit by bit | one action per function of the two sides |
| `HeaderCodec` | header nibbles and checksum, both sides | one action each for writing, damage, reading |
| `PayloadCodec` | whitening and CRC, both sides; a byte is the set of its bits | likewise |
| `ChannelPublisher`, `ChannelProcessor`, `ChannelSubscriber`, `NodeServer` | one task each, over the variables that `Simulator` declares | `PublisherWork`, `SubscriberWork` are calls of `work()`; `ProcessorRound` is a round of `run()`; `ServeDatagram` is one turn of the server's loop |
| `Simulator` | nodes, processor and movement composed | one action per task |
| `Medium` | abstract: nodes that are apart hear each other's samples, all and in order | implemented by `Simulator` |
| `NodeSetup` | presets, slots, frequencies and `Node::new()` | one action per preset connected |
| `Codecs` | the encoder, the three codecs and `NodeSetup` side by side: what the program computes without an environment | each behaviour is one input of one of them (`part`), the actions are theirs |
| `MC*` | values of the constants for TLC, and properties that belong to one run | |
| `*_proofs` | theorems; `Codecs_proofs` takes those about bytes and CRC from `PayloadCodec_proofs` | |

A definition whose comment calls it a variant is the code with a plausible
mistake. Nothing refers to it but the list of mutants in `PROJECT.json`; it
shows that the property it belongs to can fail.

### Abstractions

- **Signal processing.** A demodulated symbol is its bin, chosen by the environment
  from `UpBins`, `DownBins`, `IdBins`, or `None`. Fractional offsets only show as
  the microsample they add to or take from what a call consumes: one for each of the
  two places where the fractional STO is brought back into its range. It drifts with
  the sampling frequency offset, which has the sign of the CFO, so that both may wrap
  in one call, in that direction. Positions of samples inside a symbol are not
  modelled, except for how many the recovery of a frame one symbol late writes.
- **Panics.** Where a call can leave a table, a full channel or its output, the model
  says so: `panicked` is set, the rest stays as it was, and FrameSync takes no more
  steps (`Panic`). Net ids are kept unmasked where the code keeps them so; only those
  of `NetIds`, 256 by 256, can be cached. The other blocks have no such state:
  `RxPipeline` goes on after an overrun, and `NothingOverrun` says when there is none.
- **Items.** In `RxChain` a symbol is the frame it belongs to and the tags on it; a
  nibble likewise. `GrayMapping` and `HammingDecoder` pass items and tags on one to
  one there, and `BlockCodec` says what they do to the value. The streams between
  blocks are unbounded in `RxChain`. In `RxPipeline` they are bounded, and FrameSync
  is reduced to the symbols it writes and its wait for the header.
- **The channel.** A sample is a number, zero is silence; a sum is the set of the
  frames in it, so that what can be heard of each transmitter remains visible.
  Attenuation is only told apart from silence (equal positions). A round of the
  processor is one step: between its parts it only receives from and sends to
  channels, and reads the positions once, so that no task can tell. The transmitters
  are reduced to what `BurstStream` promises. Calls of the subscriber that only put
  out silence are no steps.
- **Node set-up.** The region, slot and preset are chosen first. A path is what its
  blocks are made with; the transmitter's has a code rate besides, because a receiver
  learns it from the header.
- **Headers.** The content of a header is chosen when the HeaderDecoder reads it,
  from `HeaderMsgs`.
- **Ghosts.** `frame_cnt`, `ids`, `vouched`, `accepted`, `posted`, `retunes`,
  `submitted`, `air`, `heard`, `mixed`, `apart`, and the field `frame` of a
  message record history and are read by no guard but those of the bounds: after
  `MaxFrames` frames the air is silent, after `MaxRetunes` the receiver is left
  alone, after `MaxDatagrams` the clients of a node are, after `MaxMoves` the nodes
  stay.
- **Bursts.** A payload of the Transmitter is the length of its burst; zero stands
  for one on which `encode()` panics (with CRC shorter than two bytes, or longer
  than the whitening sequence).

## Runs

| Run | Instance | Shows |
|---|---|---|
| `frame_sync` | FrameSync, 32 bins, oversampling 2, policy Seen; any message at any time | type invariant, meaning of `symbol_cnt`, slices in bounds, steps fit the input |
| `rx_chain` | chain at SF9, two frames, headers that are bad, of two bytes, and long with CRC, caching on header CRC, retuned at most once | answers, tag channel, one tag per symbol, whole frames, cache; delivery in order |
| `rx_live` | chain, two frames, bad headers, CRC with and without room for it, fair tasks | every header is answered, every accepted frame is delivered |
| `rx_pipeline` | SF7, three frames, each with a bad header, a payload of one block or one of two; buffers of 2, 20, 12, 12 and 16 items; every block called when it was notified | one payload and one header at most between FrameSync and the Deinterleaver, right rates, no lost wakeup, long frames arrive |
| `codecs` | `Encoder` at SF7: every payload length 0 to 24 and 253 to 257, all rates, with and without CRC | the receiver's formula covers the frame |
| | `BlockCodec` at SF7: reduced rate in the header, full rate in the payload; one symbol off by one bin either way, by three, or far (90) | both decoders return the block as far as they can correct; the next bin costs one bit |
| | `HeaderCodec`: five lengths, all rates, both CRC flags, up to two wrong bits | no wrong header accepted, good ones are |
| | `PayloadCodec`: two to four bytes of three values, one or two adjacent nibbles wrong | intact payloads pass, wrong ones never |
| | `NodeSetup`: all regions and presets, slots 0 to 255 (every `u8`) | with which presets a node is heard, slots fill their band, where `Node::new()` panics |
| `transmitter` | bursts of 2 and 3 samples and a bad payload, three payloads, buffer of 2 | refinement of `BurstStream`, nothing forgotten, no lost wakeup |
| `channel` | two nodes with one preset each, one datagram each, one move; frames of 2, bursts of 2 samples and 2 of pad, buffer of 3 | refinement of `Medium`, frames in flight, sums in sequence, no signal left over |

Five further runs check one statement each of the repository's own comments or
assertions and find it violated:

| Run | Statement | What the code does |
|---|---|---|
| `frame_sync_negative` | the assertion against a negative `items_to_consume` | `sync_quarter_down()` holds back four samples whatever the oversampling. At the lower end of the CFO range what remains is `4 - os_factor * (1 + net_id_off)` and the two STO wraps. The run has SF7 and `os_factor` 4: an offset of one gives -4, and the trace, with both wraps, -6. With `os_factor` 2 an offset of one gives 0, negative only with a wrap; larger offsets need a known net id |
| `rx_net_id` | the low bits of a net id are discarded; the tables have 256 by 256 entries | a frame recovered one symbol late has its first net id stored again, unmasked. From SF9 on it can be above 255 (264 in the run, whose masked value 8 is known), and the good header of that frame caches it: the index is out of range |
| `rx_gate` | detection is blocked until the CRC result is in | `reset()` at the end of the frame opens the gate, and the result caches the net id of the next preamble |
| `rx_unanswered` | FrameSync is called again when the header is decoded | at SF9, one byte without CRC: nibbles of a surplus block keep their tag at the HeaderDecoder, with nothing left to collect, in front of the next header; FrameSync waits for good |
| `node_eu868` | `Node::new()` returns a `Result`; `map_region()` offers EU868 | the frequencies of all presets are unwrapped, EU868 has none at 500 kHz: a node for ShortFast in slot 0, which exists, panics, and so does every other one there |

### What the passing runs leave out, and why

Some properties are conditional in ways that a reader should know of.

- **Retuning.** The handlers of `bandwidth` and `center_freq` reset FrameSync
  and leave the rest of the chain as it is. A header tag that waits on the
  writer then meets the tag of the next frame on one sample, which FftDemod
  never gets past; an answer on its way meets another frame. `rx_chain` retunes
  at any moment; `DeliversInOrder` and `FramesAreWhole` hold all the same, and the
  other properties are stated for a receiver that was not retuned and has not
  panicked (`Undisturbed`). After
  retuning the chain may stop, so that this run does not look for deadlocks;
  `rx_live` does.
- **Panics of FrameSync.** One is found by `rx_net_id`. The other is the recovery of a
  frame one symbol late: the first symbol, mistaken for the end of the downchirp, is
  copied from where the CFO puts it to a fixed place, which at a CFO of -N/4 is N/4
  items more than the symbol has, and out of range when the output has just the room
  that was asked for (`next_iteration_possible()` asks for N). `NeverPanics` fails of
  `MCFrameSync` with the net id bins 8 and 17 and `MCBadHeader`. The
  instances of `rx_chain` and `rx_live` have net ids below 256 and an output of two
  symbols, and come to none; the theorems allow for them. In `frame_sync` a
  good header may arrive at any time, so that the tag channel overflows there: the
  chain never lets it (`TagChannelNotFull`).
- **Very short frames above SF6.** Two shapes of one byte without CRC get stuck
  or lost in the chain. `m_sf as isize` in the number of symbols is the
  discriminant of the enum, not the spreading factor, so that the receiver may
  forward a block more than there is. From SF9 on all nibbles of such a frame are in
  the header block, the surplus block belongs to no frame, and blocks the
  HeaderDecoder (`rx_unanswered`). At SF7 the frame has a single payload block
  of fewer than eight symbols: the Deinterleaver, which computes the length of a
  block before it reads the tag in front of it, measures it as a header block
  and drops it with its tag if the next frame is already behind it, so that
  `AcceptedIsPosted` does not hold there; `rx_pipeline` has such frames, and
  states arrival for the longer ones (`LongFramesArrive`). `rx_live` is at SF5,
  where header and payload are in separate blocks and the payload has more than
  one. The safety properties of `rx_chain` do not need that: it is at SF9, where the
  header block holds payload too.
- **Whole frames.** `FramesAreWhole` promises a frame its own first nibble, the
  number of nibbles its header asks for, and none of another frame whose header was
  good. Of the block of a bad header the HeaderDecoder drops five nibbles and
  appends the others to a frame that is still incomplete, as one that lost a
  block or was abandoned by a retuned FrameSync is: those are not excluded.
- **A header that announces no payload.** In explicit mode the HeaderDecoder
  refuses a length of zero, so that a good header always announces symbols after
  its own block. In implicit mode nothing refuses it: with one byte without CRC
  at SF12 the number of symbols is eight, FrameSync tags the next header while the
  payload's tag is still waiting, and `OneTagPerSymbol` fails. The code has a TODO
  about it (`frame_sync.rs:920`). The theorems have the assumption
  `PayloadFollows`, which `ExplicitHeaders` derives for explicit mode.
- **Policy `PayloadCrcOk`** is `rx_gate`; the passing runs cache on the header
  CRC (`rx_chain`), on sight (`frame_sync`) or not at all (`rx_live`).
- **Room in the chain.** FrameSync waits for every header, so that there is never
  more than the payload of one frame and the header of the next between it and the
  Deinterleaver: `HoldsOneFrame`, which holds for buffers of any size. From it follows,
  by proof, `NothingOverrun` if the buffers are as large as that (`RoomForFrames`). Those of
  `rx_pipeline` just are (`words`: 12 symbols of payload and 8 of header; `grays`: the
  payload); with one item less the property is violated. The code does not ask for
  such buffers. It takes the runtime's default ones, which hold a few hundred items at
  the soft decoder's item size; a long payload has more symbols than that, so that
  nothing but the pace of the Deinterleaver keeps FftDemod and GrayMapping from
  writing out of range. So `NothingOverrun` is no statement about the program
  as it is configured, and `HoldsOneFrame` is the one to rely on.
- **Code rate 4/8.** `NodeCanTalk` says that a node is heard with every preset but
  LongModerate. That one has a transmitter and a receiver like the others, but its
  code rate is refused: `GoodHeaderAccepted` says that 4/8 always is. The decoder of
  the payload has it in its table, and `code_rate()` chooses it for SF5 and SF6; the
  range in the HeaderDecoder ends one too early (`header_decoder.rs:244`).
- **Raw payloads.** A datagram that begins with 0xC0 and does not go on with 0x00 is
  taken for a command, ignored and answered READY (`IsConfigCmd`), although the
  comment says that raw frames are forwarded (`node.rs:260`). The simulator's
  datagrams have no meaning beyond what the server tells apart, and no property
  says which of them should be sent.
- **The pad.** The publisher is only called when its transmitter has written
  something, takes one frame at most, and does not ask to be called again.
  What is left in its buffer after the last burst stays there
  (`RestsWhenHeard`). This is harmless as long as the pad after a burst is no
  shorter than the buffer and the frame, less one sample (`PadCoversRest`): the code's
  10000 samples against a buffer of 4096 and frames of 1024. With a shorter pad the
  property fails.

### Bounds, and why they are enough

- **Bins.** For the preamble `N/2`, and `N-1`, which the code counts as an
  additional upchirp. Downchirps at both ends of the CFO range. Net id symbols
  with the offset -1, with 3, and with 4, which the code cannot decide. These
  are the places where the code's comparisons change their result. In the
  chain, net ids with offset 0 and 1: equal ones make a frame, unequal ones
  an abandoned preamble or a frame recovered one symbol late.
- **Input and output.** The shortest input that passes the gate, and one
  with room for more. A shorter one is a call that returns without an effect.
  In the chain the input always passes: what FrameSync does then does not
  depend on how much more there is.
- **Three frames** in `rx_pipeline`: one that is still in the last blocks, one
  that is being received, and one whose header pushes them.
- **Channel.** Frames of 2 and bursts of 2 and 2: bursts begin anywhere in a
  frame, because publishers are woken, and pad, at any moment. Frame numbers
  of the two nodes drift apart by as much as the number of calls. One burst
  per node crosses that of the other; one move separates or joins the two nodes
  in the middle of any of it. Rooms of 3 end in the middle of frames of 2. More
  nodes add receivers, which do not influence each other, and senders, of which
  the theorems take any number.
- **Two frames** in `RxChain`: every property relates a frame to the one
  before it (a tag, a cache entry, a nibble or an answer that is left over).
  Preambles that are abandoned may come in any number.
- **N and SF.** N is 2^SF in the configurations. The proofs cover every N
  divisible by eight from 32 on.
- **Buffer of 2** with bursts of 2 and 3: bursts that fit exactly, that are cut
  once, and that begin in a buffer with one place left.
- **Payload lengths** of the encoder cover several blocks at every rate, and
  the end of the whitening sequence. The theorems cover all lengths and all
  spreading factors.
- **Blocks** with one nibble of any value among equal ones reach every code
  word at two places of the interleaver. The theorems take every block.
- **Bin errors.** One bin either way is where the Gray code matters, three is as far
  as the reduced rate's two spare bits reach, and 90 changes many bits of one
  symbol. The theorems take a symbol that is off by any number.

### Fairness

`rx_live`, `rx_unanswered`: weak fairness of each block's step
and of each message handler. FutureSDR calls a block again when a message
arrives, when a neighbour produced input for it or consumed its output, and
when it asks for it with `call_again`; a block whose step is possible is
therefore called. The wakeups themselves are assumed here, not modelled.
Nothing is assumed of the air: FrameSync's step is fair as a call, not in what
it finds.

`rx_pipeline`: weak fairness of each block's call, which is only possible while
the block was notified: by `call_again`, by its predecessor's `produce()` or its
successor's `consume()`. Here the wakeups are the model's subject. FrameSync and
its message handler are fair likewise: the air goes on, and a symbol is
written when there is room.

`channel`: none. That nothing is left over is an invariant of the states in
which every task waits; safety, and the refinement, hold without fairness.

`transmitter`: weak fairness of `Work` while the block is notified, and of
`Consume`: the flowgraph behind the block keeps reading. Here the
notifications are part of the model, because the block's liveness depends on
which paths of `work()` set `call_again`.

## Theorems

For every value of the constants within the assumptions of the modules:

| Theorem | Statement |
|---|---|
| `FrameSync_proofs!TypeCorrect` | `Spec => []TypeOK`; cached net ids within the tables' 256 by 256 entries, because any other is a panic |
| `FrameSync_proofs!CounterFits` | `Spec => []CounterFitsState` |
| `FrameSync_proofs!SlicesStayInBounds` | `Spec => []SlicesInBounds` |
| `FrameSync_proofs!StepsFit` | `Spec => []StepFitsInput`, with both wraps of the STO in one call |
| `Codecs_proofs!FrameIsNeverCut` | `Spec => []NeverCutsFrame` (of `Encoder`) |
| `Codecs_proofs!PayloadTagFindsSymbol` | `Spec => []PayloadTagHasSymbol` |
| `Codecs_proofs!EncoderTypeCorrect` | `Spec => []TypeOK` |
| `Codecs_proofs!BlocksHaveTypes` | `CodecsSpec => []BlockTypeOK` |
| `Codecs_proofs!HardBlocksArrive` | `CodecsSpec => []HardBlocksSurvive`: encoder and receiver are inverse to each other, and hard decoding corrects a wrong symbol at 4/7 |
| `Codecs_proofs!SoftBlocksArrive` | `CodecsSpec => []SoftBlocksSurvive`: likewise, soft decoding at 4/7 and 4/8 |
| `Codecs_proofs!NextBinCostsOneBit` | `CodecsSpec => []NextBinHitsOneWord`: what the Gray code is for |
| `Codecs_proofs!GoodHeaderIsAccepted` | `CodecsSpec => []GoodHeaderAccepted`: accepted up to 4/7, refused with 4/8 |
| `Codecs_proofs!WrongHeaderIsRefused` | `CodecsSpec => []NoWrongHeader`: with up to two wrong bits |
| `Codecs_proofs!IntactPayloadIsAccepted` | `CodecsSpec => []IntactPayloadPasses`: whitening and CRC, for payloads of any bytes and any length the code takes |
| `Codecs_proofs!WrongNibblesAreFound` | `CodecsSpec => []WrongNibblesFail` |
| `Codecs_proofs!ReadyNodeCanTalk` | `CodecsSpec => []NodeCanTalk`: both directions of every preset, and all heard but LongModerate |
| `Codecs_proofs!SlotsFillTheBand` | `CodecsSpec => []SlotsFillBand` |
| `Codecs_proofs!NodeNeedsWideSlot` | `CodecsSpec => []NeedsWideSlot` |
| `Transmitter_proofs!TransmitterTypeCorrect` | `Spec => []TypeOK` |
| `Transmitter_proofs!StreamIsWholeBursts` | `Spec => []Promise!WholeBursts`: the stream is the bursts, whole, in order, tagged once |
| `Transmitter_proofs!LeavesDrained` | `Spec => []FinishesDrained`: when the block has left the flowgraph, everything submitted is written |
| `Transmitter_proofs!TransmitterImplementsBurstStream` | `Spec => SendsBursts`: the refinement of `BurstStream` |
| `Simulator_proofs!SimTypeCorrect` | `SimSpec => []SimTypeOK` |
| `Simulator_proofs!FramesStayInFlight` | `SimSpec => []FramesInFlight` |
| `Simulator_proofs!SumsStayInSequence` | `SimSpec => SumsInSequence` |
| `Simulator_proofs!SimulatorImplementsMedium` | `SimSpec => CarriesSignals`: the refinement of `Medium` |
| `Simulator_proofs!NothingIsLeftAtRest` | `SimSpec => []RestsWhenHeard`, for pads that cover what a publisher may keep (`PadCoversRest`) |
| `RxChain_proofs!ChainTypeCorrect` | `ChainSpec => []ChainTypeOK` |
| `RxChain_proofs!FramesStayInLine` | `ChainSpec => []InLine(Line)`: all that is between FrameSync and the Decoder is in line |
| `RxChain_proofs!FramesStayWhole` | `ChainSpec => []FramesAreWhole` |
| `RxChain_proofs!ChainDelivers` | `ChainSpec => DeliversInOrder`: the refinement of `FrameDelivery` |
| `RxChain_proofs!AnswersFindTheirFrame` | `ChainSpec => []AnswerIsForWaitingFrame` |
| `RxChain_proofs!TagChannelHasRoom` | `ChainSpec => []TagChannelNotFull`, and the channel is empty when an answer arrives |
| `RxChain_proofs!TagsStayApart` | `ChainSpec => []OneTagPerSymbol` |
| `RxChain_proofs!CachedIdsAreVouched` | `ChainSpec => []CacheIsVouched`, for the policies that wait for the header or never cache |
| `RxPipeline_proofs!ChainHoldsOneFrame` | `PipeSpec => []HoldsOneFrame`, for buffers of any size; `NothingIsOverrun` is a corollary for buffers that hold that much (`RoomForFrames`) |
| `RxPipeline_proofs!NibblesKeepTheirRate` | `PipeSpec => []DecodedAtOwnRate`, for buffers of any size |
| `FrameShape_proofs!SymbNumbNat` | the number of symbols of any header is a natural number |

**FrameSync.** The inductive invariant is `IInv = TypeOK /\ CounterFitsState /\
StepFitsInput`. None of the three is inductive alone: which range
`symbol_cnt` has depends on the state (`CounterFitsState`), and a new state is
typed only if the counter is in that range. There is one lemma for each
action, and inside it one step for each conjunct the action can disturb;
`Reset`, called by six of them, has a lemma of its own. `SlicesInBounds` is not part
of the invariant: it follows from `TypeOK` by arithmetic about `cfo_int`,
`k_hat` and the lengths of the buffers (`TypedSlices`). `StepsFit` rests on
`QuarterDownInput` and `QuarterDownRange`, which bound both sides for all CFOs,
offsets and spreading factors. The assumptions are `ShapeAssumption` (N a
multiple of 8 of at least 32, a positive oversampling factor, a preamble of at
least five symbols) and `InputAssumption` (bins are below N, net ids are
bytes).

**Encoder.** `EInv = TypeOK /\ LoopInv`, where `LoopInv` relates the symbols
written to the nibbles taken. From it and a bound on the receiver's rounded
division (`SymbNumbBlocks`) the theorems about lengths follow for every payload.

**Codecs.** `CodecsInv` says of the part that runs what its own invariant says:
`BlockInv`, `HeaderInv`, `PayloadInv` or `SetupInv`. The assumptions are
`BlockAssumption` (blocks are sequences of nibbles, bin errors are integers),
`HeaderAssumption` (a length is a byte, at most two bits are wrong) and
`BytesAssumption` (payloads of 2 to 255 bytes, any bytes, errors in nibbles);
TLC evaluates them in the run `codecs`.

**Blocks.** `BlockInv` says at each stage what the block is, in terms of its
nibbles: the words and rows sent, the symbols sent with one of them off, then
what the receiver has. Going back takes five facts.

- Bins and rows. `Parity` and `UndoGray` are recursive functions over the bits of a
  row; `ParityRun` and `UndoRun` show that they exist and what a step does. A
  number's bits are seen through its halves (`IsHalving`): a bit of the Gray code is
  the parity of two neighbouring halves (`GrayHalving`), which gives back the row
  that was sent (`RowSent`), whether a division by four cuts the parity and the zero
  bit of the reduced rate or not. Bins are one too high on the way: `BinShift` takes
  it off again around the end, and `RowReceived` joins the two.
- The next bin. Two numbers next to each other differ in one bit of their Gray
  codes, also the first and the last (`NextInGray`, `GrayNext`).
- Rows and words. The interleaver's index is its own inverse (`WordOfWordOf`), so
  that a wrong row is at most one wrong bit in each word, and a wrong bit of a row
  is one bit of one word (`RowsToWords`).
- Hard decoding at 4/7: the syndrome of each of the seven positions and what it
  corrects (`HardCorrects`).
- Soft decoding. Both tables hold the code words of the encoder (`Entries`). Two
  different ones differ in three places from 4/7 on (`CodeDistance`); by the
  triangle inequality (`Triangle`) the word sent is nearer than every other one to a
  word with one wrong bit, and the decoder's choice, the last of those that agree
  most, is that one (`SoftCorrects`).

**Headers.** `HeaderInv` keeps the five nibbles as those of the header with the bits
of `flips` inverted. The checksum is linear (`Syndromes`): inverting bits inverts
the sums they take part in (`FlipParity`), and one bit or two leave a sum different,
unless they are bits that the HeaderDecoder does not look at.

**Payloads** (`PayloadCodec_proofs`). A byte is the set of its bits, XOR is
symmetric difference. The CRC of two payloads differs by the CRC of their difference
(`CrcDifference`), since its register is linear in both what it holds and what is
fed (`ShiftByteLinear`). The difference of a payload with one or two wrong
neighbouring nibbles is zero but for one byte or two neighbours. Before them the
register is zero (`RunBefore`); the first of them leaves a bit in its upper byte
(`RunAt`), which one more byte cannot bring to zero, and from then on a zero byte
leaves zero only where zero was (`ShiftByteBack`, `RunAfter`). The last two bytes,
which the code adds to the CRC instead of shifting them in, are compared directly,
as is the CRC itself (`CrcFinds`). That the recursive function in `Crc16` exists for
a payload of any length, and equals a register that is run step by step, is shown
with a least counterexample (`SmallestExists`, `RecursionExists`, `CrcRun`).

**Node set-up.** `SetupInv` says what was connected so far: one path, in both
directions, for each of the first presets in the order of the code's list, which is
that of the enum (`PresetOrder`); HeaderDecoder accepts the code rates of all but one
(`RateOfPreset`). The two tables of slots agree, and where there is
a slot of 500 kHz there is one of every other bandwidth (`SlotTables`).

**Transmitter.** `TInv = TypeOK /\ BurstInv /\ QueueInv /\ StreamEnd /\ WholeBursts
/\ FinishedInv`. `WholeBursts` says of each two neighbouring samples that the
second follows the first: the next of the same burst, or the first of the next
one. That is not inductive, because it does not say where the stream ends:
`StreamEnd` ties its last sample to `current_frame` and `current_offset`,
`BurstInv` ties the pending tag to the offset, and `QueueInv` says that the queue
continues with the frame after the current one. `Produce` appends several samples
at once; `Extend` proves the step for any number of them.

`BurstStream` speaks of the same samples, so that its refinement needs little more:
what `Produce` appends makes the old stream a prefix of the new one
(`ProduceExtends`), and `WholeBursts` holds in the next state; all other steps
leave `air` and `submitted` alone. `FinishedInv` gives `FinishesDrained`: the block only
leaves with an empty queue at the end of a burst, and `QueueInv` and `StreamEnd`
say that this is the last burst submitted.

**The chain, retuned or not** (`RxChain_proofs`). The invariant is `ChainInv = IInv
/\ ChainTypeOK /\ OrderInv /\ CollectInv`. Six places make a line, from the Decoder
backwards: what was handed over or is being collected, the nibbles, the words, the
block FftDemod collects, the symbols, the tags that wait on the writer. An item has
the frames of the symbols it was made of, and those of the header tags it carries.
`OrderInv` says that every item is `Before` every item behind it: what the later one
announces is newer than everything in the earlier one, and what the earlier one
announces is not newer than what the later one is made of. Every step of a block
takes an item from one place to the next, drops one, or splits one; the lemma
`Advance` proves once that a line in which one item went a place forward, and the
others lost at most something, is in line again, and each action only has to show
which item it moved. Retuning drops nothing and leaves gaps, which the order does
not mind. `CollectInv` adds what the HeaderDecoder has counted so far, and that it
contains its own frame's first nibble. From the order follows that a header at the
HeaderDecoder is newer than every frame handed over: `DeliversInOrder`; and that
nibbles of an accepted frame are behind its header and in front of the next:
`FramesAreWhole`.

**The chain that is not retuned** (`RxChain_proofs`). `PlaceInv = TagInv /\
HeaderInv /\ CountInv`. At most one header is under way, as a tag or as an answer
(`HeaderInv`), and its place tells how many symbols FrameSync has sent (`CountInv`):
none while the tag waits on the writer; as many as there are from the tag to the end
while it is on the stream or in the block; eight when it is in the words or nibbles,
because FftDemod only lets a header block go when it is full. FrameSync stops after
eight. So an answer finds it waiting with the eighth symbol, and no second tag can
be put before the first is answered. `TagInv` is the same for the payload's tag: it
leaves with the ninth symbol, and there is one (`PayloadFollows`), before FrameSync
can begin another frame. `IdsInv` ties `net_id`, which the handler caches, to the
frame the answer is about.

The assumptions are those of the modules, and `HeadersAskForNibbles` (every good
header asks for at least one nibble) or the stronger `PayloadFollows` (and for at
least one symbol after the header's block). `ExplicitHeaders` derives
`PayloadFollows` from what the HeaderDecoder checks in explicit mode, for all
spreading factors, rates and lengths.

**The pipeline** (`RxPipeline_proofs`). The invariant is `PInv`. The symbols between
FrameSync and the Deinterleaver are one line again, this time place by place: a
payload, with its tag in front while that has not passed, and behind it the header
of the current frame (`Shape`). From the tag of a header to the end of the line are
as many symbols as FrameSync has written of the frame, which makes the line as long
as `Fits` says, and `HoldsOneFrame` follows: one payload and one header. FftDemod
moves symbols into its block, GrayMapping words to the next buffer: the line stays
what it is (`GrayMoves`), unless a tag arrives while FftDemod collects a block,
which drops what it had (`DemodCuts`). `DemodInv` says that a header leaves
FftDemod's block only when it is complete, and `TakenInv` that the line is empty and
no other header under way once the Deinterleaver has taken one; so the answer comes
to an empty line, and the payload that FrameSync then writes is alone in it.

Behind the Deinterleaver tags are settings. A tag has those of its code word's frame
(`TagsTrue`), code words up to the next tag are of one frame (`OriginsAlike`), and
those without a tag in front of them are read with the settings HammingDecoder has
(`SettingsTrue`). The last two are only kept with `TailInv`: when the payload's tag
has left the line, what comes next without one continues the frame of the last code
word, or of the settings when there is none. Blocks that the Deinterleaver drops
take their tag with them, and `TailInv` is why the next block in the line then has
one of its own. The answer raises the number of rates and never changes an old one
(`RatesKept`). Capacities, headers (with at least one nibble, as above) and the
number of frames are arbitrary; `MCRxPipeline` has TLC evaluate both assumptions for
the run's constants.

**Simulator.** `SimTypeOK /\ FramesInFlight`. The conjuncts of `FramesInFlight` need
each other: that the processor takes a transmitter's frames in sequence
(`SumsInSequence`) follows from numbers in range (`IndexInRange`), none missing
(`NoneLost`), and earlier ones ahead of later ones inside the channel
(`ChannelInOrder`) and between channel and processor (`ProcessorAhead`): were the
first frame of a transmitter in the group not its next one, the next one would be in
flight behind it. `OwnChannel` is needed because transmitters of one node share a
channel and those of different nodes do not. Frame lengths, buffers, the number of
nodes and the moves are arbitrary.

`Medium` speaks of single samples: those of a transmitter's bursts are numbered from
1. `CarryInv` follows the numbers on their way to one node: samples heard, places of
the sums that the subscriber has still to put out (`Ready`), frames in flight,
samples the publisher has not sent (`Rest`). In each of these the numbers ascend
(`Rising`), and whatever is further on its way is lower (`Below`), so that what a
node hears next is higher than everything it heard: `HeardInv`. That alone would
allow gaps. `NoneGone` says that for nodes that always were apart every number
written is `Somewhere` on the way. Together: were the i-th sample heard not number
i, take the first such i; what is heard there is higher than i, and number i is not
heard, so that it is further back and higher than all that is heard
(`CountsFromOne`). Each step moves numbers along: `Transmit` appends the next ones
(`NextNumbers`: division of the samples written into bursts), `Publish` cuts `Rest`
in two or moves it (`PublishRest`), `Mix` takes at most one frame of a transmitter,
with nothing of it in front (`MixFlight`, from `FramesInFlight`), and adds a sum
(`SumAdded`), and `Subscribe` takes the first places of `Ready` (`SubscriberTakes`)
and appends their numbers (`ListsAll`). Induction over the numbers is done with a
least counterexample (`SmallestExists`).

`NothingIsLeftAtRest` needs two more invariants: what the publisher keeps is the
last that was written (`EndInv`), and if it is not going to be called, that is less
than a buffer or less than a frame (`WakeInv`). `PadCoversRest` asks for a pad as
long as that; then it is silence, and by `NoneGone` all numbers are heard.
`MCSimulator` has TLC evaluate `PadCoversRest` for the runs' constants.

Model-checked only:

- liveness (`HeaderIsAnswered`, `AcceptedIsPosted`, `WaitEnds`, `LongFramesArrive`,
  `EveryPayloadIsSent`, `FinishedStops`): fairness is outside what the prover handles.
- `CacheIsVouched` under policy `Seen` (where `frame_sync` has another property); under
  `PayloadCrcOk` it is false (`rx_gate`).

## Not modelled

- `Modulator`, and the signal processing inside FrameSync, FftDemod and
  `utils.rs` (chirps, FFT, interpolation): floating point and filters.
- Soft decisions of `FftDemod` as likelihoods: `BlockCodec` takes their signs.
- The binaries, except for the start of the channel and its position task
  (`bin/channel_process.rs`): they parse arguments and connect blocks; their
  connections are those of `RxChain`. `spectrum_viewer.rs` only displays.
- The encryption of one message in `meshtastic.rs`.
- `kiss_driver.rs`: `create_cmd()` formats, and hands data on unframed;
  `escape()` and `descape()` are never called.
- `Node::set_preset()`, which is private and never called; the server works on a
  copy of `selected_tx` anyway.
- `stream_adder.rs`, `awgn.rs`: arithmetic on samples.
- `packet_forwarder_client.rs`: one message to one datagram, for an external
  server.
- Positions of samples inside a symbol; of the recovery of a frame one symbol late
  (`frame_sync.rs:639`) only how many it writes.

## Plan

Done, in this order: `FrameShape`, `FrameSync`, its proofs; the four blocks and
`RxChain`; `Encoder` and its proofs; `Transmitter`; the codecs; the channel
simulator and its proofs; `RxPipeline`; `NodeSetup`; the proofs about
`Transmitter` with the refinement of `BurstStream`; the proofs about `RxChain`; the
proofs about `RxPipeline`; the refinement of `Medium`; the proofs about node
set-up, headers, payloads and blocks.

What is left: every safety property of the passing runs is proved, but for the case
named under "Model-checked only"; liveness stays with TLC.
