-------------------------- MODULE DeflateTransport --------------------------
(***************************************************************************)
(* DEFLATE block transport (src/transport.rs, src/serve.rs): the seeder    *)
(* compresses every payload block into an independent stream before it     *)
(* opens the link, the node fetches the streams in slices and falls back   *)
(* to raw reads, and transport-size predicts what that costs on the radio. *)
(*                                                                         *)
(* One container is served.  A byte of it is its offset in the file; a     *)
(* byte of a stream says which block and encoder it came from, so a stream *)
(* inflates only if it is the whole output of one encoder for one block.   *)
(* The encoders (zopfli, zlib) and the node are not part of the repository *)
(* and are modelled from how the code uses them.                           *)
(***************************************************************************)
EXTENDS Integers, Sequences, FiniteSetsExt

CONSTANTS
    BlockSize, PayloadOff, PayloadSizes,
    Codings,       \* what the encoders may make of a block: encoder -> length
    Fail,          \* the encoder returns an error
    Unset, Raw,    \* OnceLock not initialised; initialised with None
    ReadMax,       \* DEFLATE_READ_MAX
    Packet,        \* 171: payload of a radio DATA packet
    MaxRestarts

\* deflate_raw: zopfli with falling effort, then zlib
Encoders == <<"zopfli1000", "zopfli15", "zopfli100", "zlib">>

\* a byte of a stream: block, encoder, position
StreamByte == Nat \X {Encoders[i] : i \in 1..4} \X Nat

ASSUME TransportAssumption ==
    /\ BlockSize \in Nat \ {0} /\ PayloadOff \in Nat /\ PayloadSizes \subseteq Nat
    /\ ReadMax \in Nat /\ Packet \in Nat \ {0}
ASSUME EncoderAssumption == Codings \subseteq [{Encoders[i] : i \in 1..4} -> Nat \cup {Fail}]
ASSUME RawAssumption == Raw \notin Seq(StreamByte) \cup [total : Nat, bytes : Seq(StreamByte)]

VARIABLES
    size, coding,    \* payload size; block -> what the encoders make of it
    host,            \* "prepare" or "serve"
    next,            \* prepare_deflate_cache: blocks compressed
    cache,           \* deflate_cache
    desc,            \* what the node was told of the container, or Unset
    block, mode,     \* block the node fetches: "ask", "deflate" or "raw"
    total, got,      \* bytes it expects and has of it
    image,           \* payload it rebuilt
    sent,            \* what the radio carried: [bytes, deflated, packets]
    restarts

served == <<size, coding>>
fetch == <<block, mode, total, got>>
node == <<desc, fetch, image, sent>>
vars == <<served, host, next, cache, node, restarts>>

----------------------------------------------------------------------------
(* The container and the encoders.                                         *)

CeilDiv(n, d) == (n + d - 1) \div d
BlockCount == CeilDiv(size, BlockSize)
Blocks == 0..BlockCount - 1
File(i, j) == [k \in 1..j - i |-> i + k - 1]

\* ServedMota::raw_block: the last block ends with the payload
RawBlock(b) ==
    File(PayloadOff + b * BlockSize, Min({PayloadOff + (b + 1) * BlockSize, PayloadOff + size}))

Stream(b, e) == [i \in 1..coding[b][e] |-> <<b, e, i>>]

\* deflate_raw: the first encoder must succeed, a later one replaces the best
\* only when it is strictly shorter
DeflateRaw(b) ==
    LET Ok == {i \in 1..4 : coding[b][Encoders[i]] # Fail}
        Length(i) == coding[b][Encoders[i]]
        Best == CHOOSE i \in Ok : \A j \in Ok : Length(i) < Length(j) \/ (Length(i) = Length(j) /\ i <= j)
    IN  IF 1 \notin Ok THEN Fail ELSE Stream(b, Encoders[Best])

\* What cached_deflate_block keeps of it
\* MUTANT of Worthwhile: the filter is lost
WorthwhileAlways(b) == IF DeflateRaw(b) = Fail THEN Raw ELSE DeflateRaw(b)
Worthwhile(b) ==
    LET s == DeflateRaw(b)
    IN  IF s = Fail \/ s = <<>> THEN Raw ELSE IF Len(s) < Len(RawBlock(b)) THEN s ELSE Raw

CachedDeflateBlock(b) == IF cache[b] = Unset THEN Worthwhile(b) ELSE cache[b]

----------------------------------------------------------------------------
(* deflate_transport_size, asked for the same payload and block size.      *)

Shrinks(b) == DeflateRaw(b) # <<>> /\ Len(DeflateRaw(b)) < Len(RawBlock(b))

SelectedLen(b) == IF Shrinks(b) THEN Len(DeflateRaw(b)) ELSE Len(RawBlock(b))

\* the loop's counters after each block: f[0], f[0] + f[1], ...
RunningSum(f, count) ==
    LET s[n \in 0..count] == IF n = 0 THEN 0 ELSE s[n - 1] + f[n - 1] IN s

Predicted(n) ==
    [bytes |-> RunningSum([b \in Blocks |-> SelectedLen(b)], BlockCount)[n],
     deflated |-> RunningSum([b \in Blocks |-> IF Shrinks(b) THEN 1 ELSE 0], BlockCount)[n],
     packets |-> RunningSum([b \in Blocks |-> CeilDiv(SelectedLen(b), Packet)], BlockCount)[n]]

DeflateTransportSize ==
    IF \E b \in Blocks : DeflateRaw(b) = Fail THEN Fail ELSE Predicted(BlockCount)

----------------------------------------------------------------------------
(* The seeder.                                                             *)

Init ==
    /\ size \in PayloadSizes
    /\ coding \in [Blocks -> Codings]
    /\ host = "prepare" /\ next = 0
    /\ cache = [b \in Blocks |-> Unset]
    /\ desc = Unset
    /\ block = 0 /\ mode = "ask" /\ total = 0 /\ got = <<>>
    /\ image = <<>>
    /\ sent = [bytes |-> 0, deflated |-> 0, packets |-> 0]
    /\ restarts = 0

\* prepare_deflate_cache
Prepare ==
    /\ host = "prepare" /\ next < BlockCount
    /\ cache' = [cache EXCEPT ![next] = CachedDeflateBlock(next)]
    /\ next' = next + 1
    /\ UNCHANGED <<served, host, node, restarts>>

\* cmd_serve opens the link once everything is compressed
\* MUTANT of Prepared: the last block is forgotten
PreparedButLast == next + 1 >= BlockCount
Prepared == next = BlockCount

OpenLink ==
    /\ host = "prepare" /\ Prepared
    /\ host' = "serve"
    /\ UNCHANGED <<served, next, cache, node, restarts>>

\* serve is ended and started again: the cache is only in memory
Restart ==
    /\ restarts < MaxRestarts
    /\ restarts' = restarts + 1
    /\ host' = "prepare" /\ next' = 0
    /\ cache' = [b \in Blocks |-> Unset]
    /\ UNCHANGED <<served, node>>

\* MUTANT of Portion: the offset is forgotten
PortionFromStart(s, off, n) == SubSeq(s, 1, n)
Portion(s, off, n) == SubSeq(s, off + 1, off + n)

\* deflate_block: Raw stands for STATUS_ERR
DeflateBlock(b, off, n) ==
    IF n > ReadMax \/ (n = 0 /\ off # 0) \/ b \notin Blocks THEN Raw
    ELSE LET s == CachedDeflateBlock(b)
         IN  IF s = Raw THEN Raw
             ELSE IF off + n > Len(s) THEN Raw
             ELSE [total |-> Len(s), bytes |-> Portion(s, off, n)]

\* The lookup initialises the block's cell
Lookup(b, off, n) ==
    cache' = IF n > ReadMax \/ (n = 0 /\ off # 0) \/ b \notin Blocks THEN cache
             ELSE [cache EXCEPT ![b] = CachedDeflateBlock(b)]

\* OP_READ within the file
Read(off, n) == IF off + n <= PayloadOff + size THEN File(off, off + n) ELSE Raw

\* describe
Describe ==
    /\ host = "serve" /\ desc = Unset
    /\ desc' = [payload_off |-> PayloadOff, payload_size |-> size,
                block_count |-> BlockCount, block_size |-> BlockSize]
    /\ UNCHANGED <<served, host, next, cache, fetch, image, sent, restarts>>

----------------------------------------------------------------------------
(* The node, one request at a time.  A lost request or reply is a request  *)
(* it makes again.                                                         *)

Fetching == host = "serve" /\ desc # Unset /\ block < desc.block_count

\* The length the node computes for a raw block
RawLen == Min({desc.block_size, desc.payload_size - block * desc.block_size})

\* A zero-length request asks for the length of the stream
AskLength ==
    /\ Fetching /\ mode = "ask"
    /\ Lookup(block, 0, 0)
    /\ LET r == DeflateBlock(block, 0, 0)
       IN  IF r = Raw
             THEN mode' = "raw" /\ total' = RawLen
             ELSE mode' = "deflate" /\ total' = r.total
    /\ UNCHANGED <<served, host, next, desc, block, got, image, sent, restarts>>

\* A slice of the stream; the whole block is read raw if it is refused
FetchSlice(n) ==
    /\ Fetching /\ mode = "deflate" /\ Len(got) < total /\ n <= total - Len(got)
    /\ Lookup(block, Len(got), n)
    /\ LET r == DeflateBlock(block, Len(got), n)
       IN  IF r = Raw
             THEN mode' = "raw" /\ total' = RawLen /\ got' = <<>>
             ELSE got' = got \o r.bytes /\ UNCHANGED <<mode, total>>
    /\ UNCHANGED <<served, host, next, desc, block, image, sent, restarts>>

FetchRaw(n) ==
    /\ Fetching /\ mode = "raw" /\ Len(got) < total /\ n <= total - Len(got)
    /\ LET r == Read(desc.payload_off + block * desc.block_size + Len(got), n)
       IN  r # Raw /\ got' = got \o r
    /\ UNCHANGED <<served, host, next, cache, desc, block, mode, total, image, sent, restarts>>

\* A request with any arguments, whose reply never reaches the node
Stray(b, off, n) ==
    /\ Fetching
    /\ Lookup(b, off, n)
    /\ UNCHANGED <<served, host, next, node, restarts>>

Inflate(s) ==
    UNION {{RawBlock(b) : e \in {x \in DOMAIN coding[b] : coding[b][x] # Fail /\ s = Stream(b, x)}} : b \in Blocks}

EndBlock ==
    /\ Fetching /\ mode # "ask" /\ Len(got) = total
    /\ image' = image \o (IF mode = "raw" THEN got ELSE CHOOSE i \in Inflate(got) : TRUE)
    /\ sent' = [bytes |-> sent.bytes + total,
                deflated |-> sent.deflated + (IF mode = "deflate" THEN 1 ELSE 0),
                packets |-> sent.packets + CeilDiv(total, Packet)]
    /\ block' = block + 1 /\ mode' = "ask" /\ total' = 0 /\ got' = <<>>
    /\ UNCHANGED <<served, host, next, cache, desc, restarts>>

Complete == desc # Unset /\ block = desc.block_count

Idle == host = "serve" /\ Complete /\ UNCHANGED vars

Next ==
    \/ Prepare \/ OpenLink \/ Restart \/ Describe
    \/ AskLength
    \/ \E n \in 1..ReadMax : FetchSlice(n)
    \/ \E n \in 1..Packet : FetchRaw(n)
    \/ \E b \in 0..BlockCount, off \in 0..1, n \in 0..1 : Stray(b, off, n)
    \/ EndBlock
    \/ Idle

Spec == Init /\ [][Next]_vars

----------------------------------------------------------------------------
\* Whatever slices the node asks for, in whatever portions and across however
\* many restarts of the seeder, the pieces of a block are a beginning of one
\* encoder's stream for that block (or of the block itself), and the blocks
\* put together are the payload from its first byte on.
BlocksExact ==
    /\ image = File(PayloadOff, PayloadOff + Len(image))
    /\ mode = "raw" => got = SubSeq(RawBlock(block), 1, Len(got))
    /\ mode = "deflate" =>
         \E e \in DOMAIN coding[block] :
             /\ coding[block][e] = total
             /\ got = SubSeq(Stream(block, e), 1, Len(got))
    /\ Complete => Len(image) = size

\* What transport-size predicts is what the transfer costs: bytes on the
\* radio, blocks sent compressed and DATA packets (transport.rs: "Measure the
\* v2 representation selected by the live folder seeder").
CostAsPredicted ==
    Complete /\ DeflateTransportSize # Fail => sent = DeflateTransportSize

\* Once the link is open no request compresses anything: every answer comes
\* from what was prepared (serve.rs: "The cache is populated before serving,
\* so bounded slice requests are immediate").
ServedFromCache == [][host = "serve" /\ host' = "serve" => UNCHANGED cache]_vars
=============================================================================
