# motatool in TLA+

motatool builds, checks and serves `.mota` firmware containers for MeshCore nodes. This directory holds TLA+
models of the parts of it where something can go wrong that a test hardly reaches, the TLC runs that check them
on small instances, and TLAPS proofs of what matters most for every instance. Paths such as `serve.rs:687` are
relative to the repository's `src/`.

## 1. Inventory

| Component | State | Operations | What makes it correct |
|---|---|---|---|
| Seeder core and capture store (`serve.rs`) | folder of `<mid>.mota` and `<mid>.mota.part`; snapshot of verified containers taken at start | `Folder::scan`; COUNT, DESCRIBE, READ; STAT, BEGIN, WRITE, SREAD, FIN | only verified content is served, at a stable index; a published file is never torn, whatever the client, an I/O error or a crash does |
| Byte-stream framing (`serve.rs`) | `StreamState`: pending `M`, deferred byte, unfinished line | `pump`, `read_request`, `push_text`, `push_literal`, `accept_unframed` | console text and binary requests share one wire and neither loses, repeats or invents anything of the other |
| Serial session (`serve.rs`, `main.rs`) | phase, stop flag, deadline, attempts, retry time | `attach_serial_folder`, `serve_loop`, `detach_serial_folder`, Ctrl-C | the text command is not sent into binary framing; the session ends; the console is released |
| Pull-to-folder, end to end | the store, the link, the node | the storage operations driven by a node over a lossy link | the capture is byte-exact and completes |
| In-place planning and geometry (`build.rs`, `encode.rs`, `endf.rs`) | options, layout records, window, container size; on the device, flash | `plan_inplace`, `validate_staging_fit`, `calc_shift`, the segment loop | the device, which overwrites its only copy of the base, rebuilds the target, and neither loses base nor container bytes it still needs |
| Container build, parse, verify (`build.rs`, `format.rs`, `verify.rs`, `merkle.rs`, `endf.rs`, `crypto.rs`) | a file | `build`, `build_bootloader`, `Manifest::parse`, `verify`, `verify --pub` | what is built verifies, what is damaged does not, what passes as signed is what was signed |
| DEFLATE block transport (`serve.rs`, `transport.rs`) | per-block cache of compressed streams | `prepare_deflate_cache`, `OP_DEFLATE_BLOCK`, `transport-size` | slices of a block join to one stream; the estimate equals the traffic |
| Delta encoding (`encode.rs`) | none between calls; scan, match, score and alignment within one | `suffix_array`, `search`, `bsdiff`, `crle_compress`, `pack_size`, `encode_sequential`, `encode_in_place` | decode(encode) is the identity, whatever match the search offers |
| Bootloader packages (`bootloader.rs`) | none | image contract, board inventory, HEX extraction | nothing but a qualified image for the named board is packaged |
| Firmware input (`input.rs`) | none | Intel HEX (raw binaries and downloads pass through) | the memory image is the one the records describe |
| Targets, key files, command line (`targets.rs`, `crypto.rs`, `main.rs`) | none | lookups, argument parsing, printing | - |

How they interact. `cmd_serve` scans a folder into a `Folder`, wraps it in a `SeederCore`, opens a link and, on
a serial port, runs the attach handshake. Handshake and serve loop both call `StreamState::pump`, which hands
complete requests to `SeederCore::handle` and console lines to its caller. The node stores a capture through the
same requests. `build` produces the containers that `verify` and `scan` accept; `scan` calls `verify` on every
file. Its in-place branch plans a window from layout records found in base and target.

There are no threads besides the Ctrl-C handler. What is hard is in the other actors and in failure: a device
that sends text and binary, falls silent or hangs up at any byte; a time-driven retry racing its first request;
lost requests and replies, and requests repeated because of it; a host that fails a write or dies half-way and
is started again on what it left; a decoder that overwrites its own input; files damaged between `build` and
`verify`. `PROJECT.json` lists these hazards at their lines with the properties that cover them.

## 2. Modules

| Module | Models | Role |
|---|---|---|
| `SeederStore` | `Folder`, `SeederCore` | component; unconstrained client, crashes, restarts |
| `SeederStoreProofs` | | theorems about it |
| `StreamPump` | `StreamState` | component; unconstrained device |
| `SerialSession` | `cmd_serve`, attach, serve, detach | EXTENDS `StreamPump`: one session around the pump |
| `SerialSessionProofs` | | theorems about pump and session |
| `Publication` | what pull-to-folder promises of one file | abstract specification |
| `Capture` | node, link, host | composes `SeederStore` (INSTANCE) with a node; implements `Publication` |
| `CaptureProofs` | | theorems about it |
| `InPlace` | planner, packer, applying device | component |
| `InPlaceProofs` | | theorems about it |
| `Container` | `build`, `build_bootloader`, `parse`, `verify`, Merkle tree, EndF | component; the file is damaged in between |
| `ContainerProofs` | | theorems about it |
| `Bsdiff` | the loop of `bsdiff`, for any match the search may offer | abstract specification of the encoder's core |
| `DeltaEncode` | suffix array, search, varints, crle, both patch encoders | EXTENDS `Bsdiff`; implements its specification |
| `DeltaEncodeProofs` | | theorems about both |
| `DeflateTransport` | the seeder's cache of compressed blocks, slices, `transport-size` | component; a node fetches blocks, the seeder is restarted |
| `DeflateTransportProofs` | | theorems about it |
| `HexInput` | `parse_intel_hex`, `extract_bootloader_region_from_hex` | component; the file is the environment |
| `HexInputProofs` | | theorems about it |
| `MC*` | | TLC instances |

Definitions whose comment begins with `MUTANT of` are no part of a model. Each is a plausible bug in the
operator it names; substituted for it, it makes TLC violate the property `PROJECT.json` pairs it with.

### SeederStore

A file is a sequence of cells: cell 1 stands for MAGIC and declared size, the others for chunks. Files are named
by mid; the catalogue is ordered as paths sort. `part` and `done` are the files, `catalog` the snapshot
`Folder::scan` made at start; `view` (what DESCRIBE told the node), `captured` (what FIN published) and
`renewed` (what it published since the last start) are history. One action per operation: `Describe`, `Begin`
(`begin_part` with the seed overlay), `Write` (`write_at`, growing past the end with zeros), `Fin` (`publish`),
`Start` (scan), `Stop`. COUNT, READ, STAT and SREAD change nothing and are operators. `Begin` and `Write` take
the number of cells that reached the disk and whether the process died there, so an I/O error and a crash at any
point of a write are part of the action. A write that returned is taken as durable.

### StreamPump

One step consumes one byte, or one whole request after its magic, and yields one event, as one call of `pump`
does. `raw`, `text` and `handled` are histories: all that was read, all that was pushed as text, all requests
handled. The properties compare the incremental machine with a reference reading of the complete `raw`. Opcodes,
header lengths, the announced data length and the checksum are constants; a request may be cut short at any
byte. The line buffer counts one per byte; the code's `String` counts two for bytes above 0x7F, so there it
flushes earlier, which no property depends on.

### SerialSession

Phases are those of `cmd_serve`: settle, attach, attached, serve, detach, exit. Time counts link time-outs from
the first command and stops at the deadline. One loop iteration is one step: stop, deadline, pump, event, retry.
A write may fail at any command. A TCP session or `--no-enable` is the serve phase alone.

### Capture and Publication

`Capture` puts `SeederStore` behind two queues that lose messages and adds a node. The node's firmware is not in
this repository: it is modelled from the protocol and README's description of `ota pull ... folder validate` -
STAT to resume, SREAD to compare each chunk, WRITE where it differs, FIN at the end, repeating a request that
gets no answer. A reply carries its opcode and nothing that ties it to its request, as in `serve.rs:488`.
`Publication` is the promise: the `.mota` of that mid changes only by becoming the image, whole, and eventually
is it.

### InPlace

Addresses are relative to the application base. `flash` maps an address to the ORIGIN of its byte (base, target,
container, nothing), never to a value. `Plan` is `plan_inplace` with every refusal; `Pack` is
`validate_staging_fit` for some container size; `Shift`, `WriteSegment` and `Finish` are the device (external),
from the geometry `encode_in_place` documents and encodes for. What a segment's patch says is abstracted to
which base bytes it may read (`from_offset`). Page size, flash boundaries and lengths are constants.

### Container

A file is its manifest fields plus `rest`, the cells between manifest and trailer; `Leaves` and `Payload` cut it
by the declared sizes, as the parser does. SHA-256, the embedded CRC and signatures are symbolic: equal exactly
when computed from equal things. A leaf and a node keep four bytes of their SHA-256 (`mh::<4>`), and those may
be equal for different inputs: `Mh4` is built on a constant operator `Short`, any function. The instance's
`Short` does not tell a `Forged` cell from the one it replaces. A bootloader image is
reduced to vector table, capability markers and embedded manifest; a board stands for its target id and hardware
id, which the inventory check makes injective. `Damage` is the environment: it changes cells and every field,
cuts the end off, exchanges payload for anything or for what has the same leaf, recomputes what needs no key,
and signs with other keys. The tree's loops over pending
peaks are recursive functions (`Free`, `Carry`, `AddLeaf`, `Peaks`, `Bag`).

### Bsdiff and DeltaEncode

`Bsdiff` is one call of `bsdiff` after another: `Outer` and `Scan` are the turns of the two loops, `Continue`
and `Emit` the two ways out of a found match. A maximum found by a scan (forward and backward extension,
division of their overlap) is stated as what that scan returns, the first best. `search` is left open: it may
offer any position of the base with the length that matches there, because the source says that a shorter match
is still exact. The detools decoder, not in this repository, follows in lock-step (`out`, `cursor`), so being
decodable is a state invariant.

`DeltaEncode` supplies the rest: one `SortRound` per doubling of `suffix_array`, `Search` as the binary search,
`PackSize`, `CrlePackSize` and `CrleCompress` on bytes, and the segments of `encode_sequential` and
`encode_in_place`. A second decoder reads the finished patch byte by byte. It takes the base of a segment to be
intact from the segment's offset on, which is what `InPlace` shows (`NeededBaseIntact`). The radix of the
varints, the slack of the match rule and the shortest run are constants; the header's type byte is a symbol.
Requests respect what `plan_inplace` guarantees (the window is a multiple of the segment and holds two).

### DeflateTransport

One container is served. A byte of it is its offset; a byte of a stream names its block and encoder, and a
stream inflates only if it is the whole output of one encoder for one block. What each of the four encoder
configurations makes of a block is an input: a length, or failure. `Prepare` is one block of
`prepare_deflate_cache`, `OpenLink` the rest of `cmd_serve` that waits for it, `DeflateBlock` and `Lookup` the
handler of `OP_DEFLATE_BLOCK` with its lazy cell. `Restart` loses the cache. The node (external) asks for the
length, fetches slices of any size, and reads raw where it is refused; `Stray` is a request whose reply is lost.
`sent` is what the radio carried.

### HexInput

One action per record. The two readers share the records and differ as the code does: the flattener keeps
segments and lets the last one win, with unchecked sums; the extractor clips to the region, refuses conflicts,
and checks its sums. `checked` chooses between a build whose overflow panics and one whose overflow wraps. The
address space is scaled, keeping the relation of offsets, banks and segments. The `ihex` crate is external: its
records are the input, `malformed` among them.

## 3. Runs

| Run | Properties | Instance | Shows |
|---|---|---|---|
| `seeder_store` | TypeOK, CapturedWellFormed, DescribedStillServed, ServedBackedByFile, PublishAtomic, RestartKeepsOffer | 2 mids, files of at most 2 cells, count byte saturating at 1, a valid, an invalid or no file at the first start | any client, torn write, crash and restart: published files stay whole, served ones keep their index and file, and a restart offers again what was not captured anew |
| `stream_pump` | PumpTypeOK, TextConserved, RequestsHandledOnce, LineContiguous | 6 byte values, 7 bytes, two opcodes (with and without header and data), line buffer of 2 | the demultiplexer agrees with the reference reading |
| `serial_session` | TypeOK, RetryOutsideFraming, ConsoleReleased | 5 bytes, deadline 3, retry after 1, 2 attempts, line buffer of 1 | no retry in the magic the code knows of; the console is released unless the link is gone |
| `session_ends` | AttachEnds, StopEndsSession | the same, 4 bytes | attaching ends, Ctrl-C ends the session |
| `capture` | TypeOK, BelievedChunksStored, CaptureExact, CaptureImplements | 3 chunks, 2 messages each way, 2 failures, four kinds of left-over file, a seed laid over the wrong chunk | the capture is exact and completes |
| `in_place` | TypeOK, WindowHoldsBoth, NeededBaseIntact, ImageRebuilt, ContainerIntact | images of 0 to 7 bytes, pages of 2, segments 0, 2 and 5, eight layouts, windows on and off page boundaries | every accepted plan can be applied |
| `container` | TypeOK, BuiltVerifies, DamageCaught, SignedAuthentic, RootIsReference | images of 1 to 15 cells, 1 to 7 blocks (8 is refused), deltas, keys, five bootloader images, 3 changes, cells with colliding leaves | built verifies, damaged does not, signed fields and signed full images are authentic, the root is the tree |
| `delta_encode` | DecoderInStep, SuffixesSorted, ScoreIsWindow, PatchDecodes, OffersAreMatches, EncodeEnds | all bases and targets of up to 5 bytes over two values, 36 pairs of longer images over eight, in-place windows of 8/2 and 12/3 | the patches of both encoders decode to the target; the encoder is an instance of `Bsdiff`; it ends |
| `deflate_transport` | BlocksExact, CostAsPredicted, ServedFromCache | 1 to 3 blocks of 4 bytes with a short last one, seven outcomes of the encoders per block, slices and packets of 2, one restart | the node's blocks are the payload, at the predicted cost, from the cache |
| `hex_input` | ImageExact, RegionExact | 16 addresses in four banks, five record contents, 3 records before the end, both builds | both readers return what the records mean |
| `split_magic` | RetryBeforeFraming (violated) | as `serial_session` | finding 1 |
| `seed_overlay` | HeaderAndLeavesBlank (violated) | 3 chunks, an empty folder | finding 2 |

Why the bounds are enough. `seeder_store`: two mids are needed for order and for one capture beside another
served file; two cells separate head from body, so a short, torn, grown or wrong file all occur. Its properties
are also proved. `stream_pump`: the longest thing the machine remembers is a magic, an opcode, one header byte,
one data byte and a checksum; seven bytes hold such a request with a false magic before it or text after it, and
a line buffer of two overflows with an `M` pending and with an opcode being replayed. `serial_session`: five
bytes hold an overflow, a split magic and an opcode, the deadline leaves room for both attempts. `capture`:
head, leaf and payload chunk are all the store distinguishes; two failures allow one during the recovery from
the other. `in_place`: two pages and three segments, base shorter, equal and longer, every kind of layout; the
proofs remove the bounds. `container`: 7 leaves are the first number with three peaks, and three coordinated
changes are one more than moving the leaf/payload boundary consistently takes. `delta_encode`: five symbols over
two values give every pattern of ties, periods and runs the suffix array and the search can meet at that size;
the longer images are rotations, periods, runs and insertions, with sizes of several digits; two pairs are there
because they make forward and backward extension overlap and the overlap be divided. The in-place windows have
several segments, with bases that the shift cuts and that it does not. `deflate_transport`: streams of 0 to 6
bytes against blocks of 4 and 2 (and of 1) meet every comparison on both sides and at equality, encoders tie and
fail first or later, and one restart falls between any two requests. `hex_input`: three records hold two
overlapping data records and an extension between or before them; the region crosses a bank boundary and the
values run off the top. `stream_pump` and `container` allow a stop (`CHECK_DEADLOCK FALSE`): the device hung up,
build refused, or the bound on changes is reached.

Fairness. `SerialSession` assumes weak fairness of the host process alone: reads return within LINK_TIMEOUT, so
each iteration ends. Nothing is assumed of the device, whose silence is an iteration too. `DeltaEncode` assumes
that the encoder, a plain loop, takes its next step. `Capture` assumes that the host is started again (WF), that
the node keeps sending (WF), and that a link used again and again does not lose everything (SF of serving a
request and of receiving a reply), with finitely many failures (`MaxFailures`). It also assumes that the node
repeats a request only when neither it nor its answer is still in flight (`EarlyTimeout = FALSE`). That is a
property of the node's time-outs, which are not in this repository. With `TRUE` a late SREAD reply can be taken
for the answer to the next one, and `BelievedChunksStored` fails: the protocol itself does not exclude it.

## 4. Proofs

`SeederStoreProofs` proves, for every set of mids and cells, any validity and head predicates and any bounds:
type correctness, `CapturedWellFormed`, `PublishAtomic`, `RestartKeepsOffer`, `ServedBackedByFile` and
`DescribedStillServed`. Assumptions: those of the module (mids are a finite set of naturals, blank and hole are
cells). `CapturedWellFormed` is inductive with `TypeOK`, since `Fin` checks MAGIC and declared size and nothing
else writes `done`. `RestartKeepsOffer` and `ServedBackedByFile` rest on `OfferInv`: of every mid not published
since the last start, the catalogue is what a scan of the folder would find now; torn writes, crashes and FINs
of other mids keep it so, also while the process is down. `DescribedStillServed` is about indices, which are
cardinalities: `IndexOrder` shows that the number of listed names below a name determines it, and `ReadWhole`
that READ over the announced length returns the container.

`InPlaceProofs` proves, for every page size, address map, image length, segment size, window and layout: type
correctness, `WindowHoldsBoth`, `NeededBaseIntact`, `ImageRebuilt` and `ContainerIntact`. The arithmetic is a
lemma, `Geometry`: what the accepted conditions say about window, shift and segments. The inductive invariant
adds to the properties what the planner established and the device relies on later (`Accepted`, `Packed`) and
what flash holds after each segment (`SegmentsRebuilt`): the target up to the current segment, the shifted base
above.

`DeltaEncodeProofs` proves of `Bsdiff`, whatever matches are offered, and of `DeltaEncode`, for every base and
target, radix, slack, shortest run and in-place window: `DecoderInStep`, `SuffixesSorted`, `ScoreIsWindow`, the
refinement `OffersAreMatches`, and `PatchDecodes`. The argument has four layers, each with its invariant.

- `BsdiffInv`: the indices stay in bounds, and what the decoder has written is the target up to `lastscan`. A
  loop that has reached the end of the target has also emitted up to it; without that the last triple could be
  missing. `EmitInv` shows that the divided overlap leaves no byte out and repeats none. Only the bounds of a
  match are used, not that it is the best.
- `DeltaInv`: after a round the ranks order two positions as their first `k` symbols do (`Ranks`, `KeyOrder`,
  `RankedRanks`), so the round that stops the loop leaves no tie, either because all ranks differ or because
  `2k` covers every suffix (`LastRound`). With a sorted array the binary search returns a byte wherever the base
  has it, and no byte between `scsc` and `scan` was predicted by the old alignment: that makes the subtraction
  from `oldscore` sound. Each offer is a match, which is the refinement.
- `BodyInv`: whatever bytes come behind the triples emitted so far, the byte decoder reads these triples, has
  then written `out`, stands at `cursor`, and has left what comes behind (`Reconstructs`).
- `StreamInv`: the same of segments: whatever comes behind `stream`, it is decoded to the target up to the
  current segment (`Streamed`). What follows is quantified because the decoder's run on a beginning must be its
  run on the whole; so `PatchDecodes` needs no induction over the patch, only one over the encoder's steps.

The codecs have theorems of their own: `UnpacksBack` (a size of either sign is read back and the rest left) and
`ExpandsBack` (crle expands to what was compressed; the runs and the bytes between them tile the stream). Of the
requests the proofs use that images are sequences of bytes and that window and segment have a size, the
segment's above 0.

`AlwaysAdvances` is what `EncodeEnds` rests on besides fairness: every step lowers `Remaining` (segments, then
phases of one, then rounds of the sort or turns of the two loops), compared lexicographically. That a turn of
the outer loop is never idle is the point: the inner loop breaks only if a match beats `oldscore` by more than
the slack, and `ScoreIsWindow` keeps `oldscore` from becoming negative, so the match has a byte at least.

`SerialSessionProofs` proves of the pump, for every set of bytes and opcodes, every request format, line limit
and stream: `PumpTypeOK`, `TextConserved`, `RequestsHandledOnce` and `LineContiguous`; and of the session around
it, for every deadline, retry time and number of attempts: `TypeOK`, `ConsoleReleased` and
`RetryOutsideFraming`. `TextConserved` compares the machine with a reading of the whole stream and is not
inductive, because a byte read may still become either text or part of a request. `PumpInv` says which: all of
the stream but the bytes `pending_m` and `deferred` hold back is settled, whatever comes later, and the
unfinished line is its end. The reference reading is a recursive function over positions of the stream; that it
reads a settled beginning the same way in every longer stream is an induction (`SetInduction`, below).
`SessionInv` adds that as long as no request was seen, everything read is text, also at the places where a
command was sent. `SessionStopAdvances` is the safety half of `StopEndsSession`: after Ctrl-C every step is one
of at most three towards the exit, and no reply, retry or deadline adds one.

`CaptureProofs` proves, for every image, folder, queue length and number of failures: `TypeOK`,
`BelievedChunksStored`, `CaptureExact`, and `CaptureRefines`: every step of node, link and host is a step of
`Publication` or a stutter. These theorems have the hypothesis `~EarlyTimeout` (see Fairness above): with early
repetitions `BelievedChunksStored` is false. `CaptureInv` is about the one message that may be under way: it
belongs to the node's current step, and a reply that would let the node count a chunk as right is true of the
file on disk now. Crashes are why this is needed: they may only take away what was not acknowledged. `FIN` is
sent with every chunk known, and the head then fixes the size, so that the light check of `publish` suffices.

`DeflateTransportProofs` proves, for every payload, block size, outcome of the encoders, slicing and number of
restarts: `BlocksExact`, `CostAsPredicted` and the action property `ServedFromCache`. `TransferInv` says that
the cache holds of each block nothing or what would be computed again, that what the node has of a block is a
beginning of the one stream it is fetching, which a restart in the middle does not change, and that the cost so
far is what the blocks fetched were predicted to cost (sums are recursive functions).

`HexInputProofs` proves, for every address space, segment size, file and either build: `ImageExact` and
`RegionExact`. `HexInv` is the state of each reader as a function of the records so far. The flattener's
invariant keeps lowest address and highest wrapped end apart, since in an unchecked build an end may wrap below
its start; which of two overlapping segments wins is an induction over the segments.

`ContainerProofs` proves, for every set of images, patches, boards and keys, every block size and any number of
changes: `TypeOK`, `BuiltVerifies`, `DamageCaught`, `SignedAuthentic` and `RootIsReference`. Two facts about
`merkle::root` carry it. `RootInjective`: two lists of leaf hashes of the same length with the same root are
equal. It is an induction over the leaves; the pending peaks of two lists stay alike (`Alike`: a peak waits at a
level in the one if it does in the other), so adding a leaf and bagging both can be undone. `RootIs`: the root
is that of the tree which splits at the largest power of two below the number of leaves; the invariant of the
loop (`Covers`) says which leaves a pending peak is the tree of. `LeavesDetermine` goes on from leaves to
payload, and `SameCells` shows that the parser's length check pins the boundary between the two. `ContainerInv`
holds what build promised of its result (`Good`), how far one change can move a file (`OneChange`), and that a
signature in the file is the builder's, blank or of another key (`Unforged`). Assumed are block sizes above 0, a
bootloader of a whole number of blocks that fit the manifest's count, and that images and patches are sequences.

How far the hashes carry. SHA-256 and Ed25519 are taken as collision-free and unforgeable. The four bytes of a
leaf or node are not: `TypeOK`, `BuiltVerifies`, `SignedAuthentic` and `RootIsReference` hold whatever `Short`
is. `DamageCaught` (`RootInjective`, `LeavesDetermine`) has the hypothesis `CollisionFree`: it is about one
accidental change, which slips through once in 2^32. `SignedAuthentic` is about someone who wants to deceive,
and does not use the tree: the signature covers every field up to the signer, and `verify` compares the SHA-256
of a full image's payload with the signed `image_hash`. It does not for a delta (the result is not at hand). A
signed delta's payload is held only by leaves and root, which can be made to collide, so nothing is claimed of
it; what remains signed is the hash of the image it has to produce.

Induction over data. The library's induction theorems cannot be instantiated here. Where a proof needs one, the
claim is made a set of naturals and `SetInduction` is proved from well-foundedness of `<`, and a recursive
function is shown to exist, by building it up, before its equation is used (`PeaksExists`, `TreeExists`,
`DigitsExist`, `NarrowExists` and their likes).

Only model-checked: the liveness properties `AttachEnds`, `StopEndsSession`, `EncodeEnds` and the eventuality in
`CaptureImplements`. Liveness under fairness is out of the prover's reach; for two of them the measure that
every step lowers is proved (`AlwaysAdvances`, `SessionStopAdvances`), and that a step stays possible until the
end is TLC's deadlock check and the run itself. Every invariant and every safety
property of a passing run is also a theorem; those of `Capture` and `DamageCaught` have the hypotheses named
above.

## 5. Findings

1. `split_magic` (`serve.rs:687`). The retry of `ota folder on` must stop once binary framing appears, also
   between the two bytes of the magic (`serve.rs:612`, test `attach_does_not_retry_between_split_magic_bytes`).
   The condition looks at `pending_m` only, and an `M` may wait in `deferred` instead. Two paths put it there,
   both when an over-long line is flushed: the `MS` of a false magic is replayed as text and the byte in the
   opcode's place is an `M` (`serve.rs:537-538`; the run's trace), or the pending `M` is and the byte that broke
   the magic is an `M` (`serve.rs:548-551`). If that `M` begins a request, a due retry is sent between it and
   its `S`.
2. `seed_overlay` (`serve.rs:294`). `begin_part` promises that header and leaves stay 0xFF, but places the seed
   by the seed's own block count. One with fewer blocks than the captured container covers its last leaves; one
   with more is shifted against the payload. The capture stays exact, as the node compares every chunk.

Met while reading, without a run: a node that loses FIN's reply repeats FIN and is answered ERR. If it then
starts over, STAT finds the published file, every SREAD matches, and the next FIN is answered ERR again: the
file stays published, as `CaptureImplements` shows, but whether the node ends is up to the firmware. FIN checks
MAGIC and size only, so an early FIN publishes an incomplete file (which scan does not offer: it verifies every
file). The seeder's comment at `format.rs:109` has requests going from host to node; the node sends them.
WRITE_MAX is documented for WRITE and SREAD, and SREAD does not cap its length. `verify.rs` refers to a
`verify --base` that the command line does not have. An explicit target or hardware id changes the manifest and not the
trailer of an image that has one. `verify` cannot notice a cleared SIGNED flag: only `--pub` demands it. The
repository's README (line 107) lists the boards on S140 v7 without SenseCAP Solar P1 and Wio Tracker L1, which
`compatibility` puts there.

`search` does not always return the longest match: base and target "aba" give one byte at the start. It always
finds at least one byte where the base has the byte, on which `ScoreIsWindow` rests. A HEX file whose only data
records are empty passes the "no data records" test of `parse_intel_hex` and yields an empty image. A sparse
one, as with UICR records, makes it allocate the whole span. `transport-size` fails where the first encoder
fails, while the seeder falls back to raw; `CostAsPredicted` is stated for the sizes it does report.
`encode_in_place` relies on `plan_inplace` for a window of two segments.

## 6. Not modelled

Third-party code (SHA-256, Ed25519, zopfli, zlib, serial and file system libraries) is abstracted by what the
code relies on. Printing, argument parsing and the table of target names have no behaviour to explore.
Durability below a completed write (page cache, fsync) is left out; the missing fsync before FIN's rename is
listed as a hazard. The inventory tables of `bootloader.rs` and the full list of its image rules are represented
by the board and capability tests `Container` makes. A folder that changes between two starts of the seeder, so
that a running transfer finds another container at its index, is left to the node, which is not in this
repository; `DeflateTransport` serves one unchanging container.

## 7. Plan

Done, in this order: store, framing, session, capture, in-place geometry, container, delta encoding, DEFLATE
transport, HEX input. To come:

1. `BootloaderContract`: the inventory tables and the full image rules as decision procedures over abstract
   images.
