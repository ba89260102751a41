----------------------------- MODULE Container -----------------------------
(***************************************************************************)
(* The .mota container: build (src/build.rs) assembles it from a firmware  *)
(* image or a delta, Manifest::parse (src/format.rs) and verify            *)
(* (src/verify.rs) accept or reject it after it was stored, carried around *)
(* and possibly damaged.  src/endf.rs stamps and reads the identity        *)
(* trailer, src/merkle.rs computes the root.                               *)
(*                                                                         *)
(* A file is its manifest fields plus `rest`, the cells between manifest   *)
(* and trailer; leaves and payload are cut out of it the way the parser    *)
(* does, from the declared sizes.  A cell is a byte of firmware, a leaf,   *)
(* an EndF trailer or a piece of a patch.  SHA-256 and signatures are      *)
(* symbolic: equal exactly when what they were computed from is equal.  A  *)
(* leaf and an inner node of the tree keep four bytes of a SHA-256, which  *)
(* may be equal for different inputs: Short is any function.               *)
(***************************************************************************)
EXTENDS Integers, SequencesExt

CONSTANTS
    AppOptions,      \* the BuildOpts build is called with
    BootOptions,     \* the BootloaderBuildOpts build_bootloader is called with
    NoIdent,         \* FwIdent::default
    AppBlockSizes,   \* powers of two from 2 to MAX_APPLICATION_BLOCK_SIZE
    BootBlockSize,   \* BOOTLOADER_BLOCK_SIZE
    BootSize,        \* IMAGE_SIZE of a bootloader
    BlockCountMax,   \* 0xFFFF
    Keys,            \* signing keys
    Storage,         \* qualified_storage: the storage profiles of each board
    Platform,        \* qualified_platform / compatibility of each board
    Patch(_, _),     \* external: the cells of the patch from a base to an image
    Short(_),        \* the first four bytes of a SHA-256
    None,
    Meta,            \* size of header, manifest and trailer
    MaxDamage        \* bound: changes made to a stored container

ASSUME ContainerAssumption ==
    /\ {Meta, MaxDamage, BootSize, BootBlockSize, BlockCountMax} \subseteq Nat
    /\ None \notin Keys
    /\ AppBlockSizes \subseteq Nat \ {0}
    /\ BootBlockSize > 0 /\ BootSize % BootBlockSize = 0
    /\ BootSize \div BootBlockSize \in 1..BlockCountMax
    /\ DOMAIN Storage = DOMAIN Platform

VARIABLES
    opts,      \* BuildOpts or BootloaderBuildOpts
    built,     \* what build returned, or NoFile
    file,      \* the container as it is now, or NoFile
    damage     \* changes made to it

vars == <<opts, built, file, damage>>

\* no container yet: a record without fields
NoFile == <<>>

----------------------------------------------------------------------------
(* Hashes, signatures and the EndF trailer.                                *)

Hash(x) == <<"hash", x>>
Mh4(x) == <<"mh4", Short(x)>>
Zero == <<"zero">>
Sign(key, msg) == <<"sig", key, msg>>
SignatureOk(key, msg, sig) == sig = Sign(key, msg)

Body(image) == SubSeq(image, 1, Len(image) - 1)
\* the trailer's eight bytes of hash are taken whole: no property rests on them
EndF(body, ident) == <<"EndF", Len(body), Hash(body), ident>>

HasEndf(image) ==
    /\ image # <<>>
    /\ Last(image)[1] = "EndF"
    /\ Last(image)[2] = Len(image) - 1
    /\ Last(image)[3] = Hash(Body(image))

ParseIdent(image) ==
    IF HasEndf(image) THEN Last(image)[4] ELSE NoIdent

\* an image that has a trailer keeps it, whatever identity is asked for
EnsureEndf(image, ident) ==
    IF HasEndf(image) THEN image ELSE Append(image, EndF(image, ident))

----------------------------------------------------------------------------
(* The Merkle tree.                                                        *)

Ceil(n, unit) == (n + (unit - 1)) \div unit
BlockOf(payload, size, i) ==
    SubSeq(payload, (i - 1) * size + 1, IF i * size < Len(payload) THEN i * size ELSE Len(payload))
LeafHashes(payload, size) ==
    [i \in 1..Ceil(Len(payload), size) |-> Mh4(BlockOf(payload, size, i))]

Combine(left, right) == Mh4(<<left, right>>)

\* peaks[k] waits for its sibling at level k - 1, Zero stands for no peak; a
\* leaf is carried up past every pending one, like a bit of a counter
Free(peaks) ==
    CHOOSE k \in 1..(Len(peaks) + 1) : /\ k <= Len(peaks) => peaks[k] = Zero
                                       /\ \A j \in 1..(k - 1) : peaks[j] # Zero

\* MUTANT of Carry: the pending peak taken for the right subtree
CarrySwapped(peaks, leaf, level) ==
    LET cur[k \in 0..level] == IF k = 0 THEN leaf ELSE Combine(cur[k - 1], peaks[k])
    IN  cur[level]

\* the pending peak is the earlier, left subtree
Carry(peaks, leaf, level) ==
    LET cur[k \in 0..level] == IF k = 0 THEN leaf ELSE Combine(peaks[k], cur[k - 1])
    IN  cur[level]

AddLeaf(peaks, leaf) ==
    LET free == Free(peaks)
    IN  [k \in 1..(IF free > Len(peaks) THEN free ELSE Len(peaks)) |->
           IF k < free THEN Zero
           ELSE IF k = free THEN Carry(peaks, leaf, free - 1) ELSE peaks[k]]

\* after the first n leaves
Peaks(leaves, n) ==
    LET peaks[i \in 0..n] == IF i = 0 THEN <<>> ELSE AddLeaf(peaks[i - 1], leaves[i])
    IN  peaks[n]

\* the peaks that are left join upwards, each as the left child
Bag(peaks) ==
    LET acc[k \in 0..Len(peaks)] ==
            IF k = 0 THEN Zero
            ELSE IF peaks[k] = Zero THEN acc[k - 1]
            ELSE IF acc[k - 1] = Zero THEN peaks[k]
            ELSE Combine(peaks[k], acc[k - 1])
    IN  acc[Len(peaks)]

\* merkle::root
Root(leaves) == Bag(Peaks(leaves, Len(leaves)))

----------------------------------------------------------------------------
(* Manifest::parse and verify.                                             *)

KnownFlags == {"full", "signed", "bootloader"}
FileLen(c) == Meta + Len(c.rest)
BlockCount(c) == Ceil(c.payload_size, c.block_size)
Leaves(c) == SubSeq(c.rest, 1, BlockCount(c))
Payload(c) == SubSeq(c.rest, BlockCount(c) + 1, BlockCount(c) + c.payload_size)

(* A bootloader image: a vector table first, the embedded manifest (with a *)
(* checksum over all the rest) last, one capability marker in between.     *)
(* board_id and device_name determine target and hardware id injectively   *)
(* (validate_bootloader_inventory): the board stands for both.             *)

EmbeddedManifests(image) ==
    {i \in DOMAIN image : image[i][1] = "BLM" /\ image[i][2] = Hash(RemoveAt(image, i))}
Markers(image) == {i \in DOMAIN image : image[i][1] = "CAPS"}

\* validate_bootloader_image: exactly one manifest, at the exact offset, and
\* exactly one marker; identity, version, storage and platform agree.  Boards
\* outside the inventory (internal storage, no platform rule) are left out.
BootImageOk(image, target, hw, version) ==
    /\ Len(image) = BootSize
    /\ image[1][1] = "vector"
    /\ EmbeddedManifests(image) = {BootSize}
    /\ LET found == image[BootSize] IN
         /\ found[3] = target /\ found[3] = hw /\ found[4] = version /\ version # 0
         /\ \E i \in Markers(image) :
              Markers(image) = {i} /\ image[i][2] \in Storage[found[3]]
         /\ found[5] = Platform[found[3]]

\* the extra rules of a format-3 manifest
BootManifestOk(c) ==
    /\ c.hash_algo = "sha256" /\ c.fw_version # 0 /\ c.codec = "full" /\ c.base_hash = Zero
    /\ c.image_size = BootSize /\ c.payload_size = BootSize
    /\ BootImageOk(Payload(c), c.target, c.hw, c.fw_version)

Parses(c) ==
    /\ c.magic /\ c.total = FileLen(c) /\ c.trailer
    /\ \/ c.version = 2 /\ "bootloader" \notin c.flags
       \/ c.version = 3 /\ c.flags = KnownFlags
    /\ c.payload_size # 0
    /\ IF c.version = 2 THEN c.block_size \in AppBlockSizes ELSE c.block_size = BootBlockSize
    /\ BlockCount(c) \in 1..BlockCountMax
    /\ Meta + BlockCount(c) + c.payload_size = FileLen(c)
    /\ "bootloader" \in c.flags => BootManifestOk(c)

\* MUTANT of SignedPart: the signed prefix ends before the hardware id and the base
SignedPartShort(c) ==
    <<c.version, c.flags, c.hash_algo, c.target, c.fw_version, c.image_size, c.payload_size, c.block_size,
      c.root, c.image_hash, c.codec>>

\* manifest[0, 129)
SignedPart(c) ==
    <<c.version, c.flags, c.hash_algo, c.target, c.fw_version, c.image_size, c.payload_size, c.block_size,
      c.root, c.image_hash, c.codec, c.hw, c.base_hash, c.signer>>

\* MUTANT of Problems: hashes the payload once, for the root, and skips leaves[]
ProblemsWithoutLeaves(c) ==
    IF ~Parses(c) THEN {"unparseable"}
    ELSE {p \in {"root", "image_hash", "signature", "approval"} :
            CASE p = "root" -> Root(Leaves(c)) # c.root
              [] p = "image_hash" -> "full" \in c.flags /\ Hash(Payload(c)) # c.image_hash
              [] p = "signature" ->
                   "signed" \in c.flags /\ ~SignatureOk(c.signer, SignedPart(c), c.signature)
              [] p = "approval" -> c.approval # "none"}

\* MUTANT of Problems: the tree stands in for the hash of a full image
ProblemsWithoutImageHash(c) ==
    IF ~Parses(c) THEN {"unparseable"}
    ELSE {p \in {"leaves", "root", "signature", "approval"} :
            CASE p = "leaves" -> LeafHashes(Payload(c), c.block_size) # Leaves(c)
              [] p = "root" -> Root(Leaves(c)) # c.root
              [] p = "signature" ->
                   "signed" \in c.flags /\ ~SignatureOk(c.signer, SignedPart(c), c.signature)
              [] p = "approval" -> c.approval # "none"}

\* verify: everything wrong with a container
Problems(c) ==
    IF ~Parses(c) THEN {"unparseable"}
    ELSE {p \in {"leaves", "root", "image_hash", "signature", "approval"} :
            CASE p = "leaves" -> LeafHashes(Payload(c), c.block_size) # Leaves(c)
              [] p = "root" -> Root(Leaves(c)) # c.root
              [] p = "image_hash" -> "full" \in c.flags /\ Hash(Payload(c)) # c.image_hash
              [] p = "signature" ->
                   "signed" \in c.flags /\ ~SignatureOk(c.signer, SignedPart(c), c.signature)
              [] p = "approval" -> c.approval # "none"}

\* motatool verify --pub
ProblemsWithPub(c, want) ==
    Problems(c) \cup IF Parses(c) /\ ("signed" \notin c.flags \/ c.signer # want)
                    THEN {"pub"} ELSE {}

----------------------------------------------------------------------------
(* build.                                                                  *)

\* flags win over the firmware's own identity
Resolve(o) == [f \in {"target", "hw", "fw_version"} |->
                 IF o[f] # None THEN o[f] ELSE ParseIdent(o.fw)[f]]

\* build_delta's conditions on the base
BaseFits(o) ==
    o.base # None =>
        HasEndf(o.base) /\ (o.force \/ ParseIdent(o.base).hw = Resolve(o).hw)

Image(o) == EnsureEndf(o.fw, Resolve(o))
BuiltPayload(o) == IF o.base = None THEN Image(o) ELSE Patch(o.base, Image(o))

Buildable(o) ==
    /\ o.block_size \in AppBlockSizes
    /\ BaseFits(o)
    /\ Ceil(Len(BuiltPayload(o)), o.block_size) \in 1..BlockCountMax

\* MUTANT of Signed: the signature is made before the signer is written
SignedEarly(c, key) == [c EXCEPT !.signature = Sign(key, SignedPart([c EXCEPT !.signer = None]))]

Signed(c, key) == [c EXCEPT !.signature = Sign(key, SignedPart(c))]

\* the container around a payload, before it is signed
Unsigned(version, flags, ident, image, payload, block_size, codec, base_hash, key) ==
    LET leaves == LeafHashes(payload, block_size) IN
    [magic |-> TRUE, trailer |-> TRUE, total |-> Meta + Len(leaves) + Len(payload),
     version |-> version, flags |-> flags, hash_algo |-> "sha256",
     target |-> ident.target, hw |-> ident.hw, fw_version |-> ident.fw_version,
     image_size |-> Len(image), payload_size |-> Len(payload), block_size |-> block_size,
     root |-> Root(leaves), image_hash |-> Hash(image), codec |-> codec, base_hash |-> base_hash,
     signer |-> key, signature |-> Zero, approval |-> "none", rest |-> leaves \o payload]

\* MUTANT of Assemble: an unknown flag bit marks a delta
AssembleUnknownFlag(o) ==
    LET full == o.base = None
        plain == Unsigned(2, IF full THEN {"full"} ELSE {"delta"}, Resolve(o), Image(o), BuiltPayload(o),
                          o.block_size, IF full THEN "full" ELSE "delta", Zero, o.key)
    IN  IF o.key = None THEN plain ELSE Signed(plain, o.key)

Assemble(o) ==
    LET full == o.base = None
        plain == Unsigned(2, (IF full THEN {"full"} ELSE {}) \cup (IF o.key # None THEN {"signed"} ELSE {}),
                          Resolve(o), Image(o), BuiltPayload(o), o.block_size,
                          IF full THEN "full" ELSE "delta",
                          IF full THEN Zero ELSE Last(o.base)[3], o.key)
    IN  IF o.key = None THEN plain ELSE Signed(plain, o.key)

\* validate_bootloader_image_for_profile
ProfileOk(o) ==
    LET found == Last(o.image) IN
    /\ o.storage \in Storage[o.board]
    /\ Len(o.image) = BootSize
    /\ found[1] = "BLM" /\ found[3] = o.board
    /\ BootImageOk(o.image, o.board, o.board, found[4])
    /\ \A i \in Markers(o.image) : o.image[i][2] = o.storage

AssembleBootloader(o) ==
    Signed(Unsigned(3, KnownFlags,
                    [target |-> o.board, hw |-> o.board, fw_version |-> Last(o.image)[4]],
                    o.image, o.image, BootBlockSize, "full", Zero, o.key),
           o.key)

\* images, patches and the cells of a file are sequences of anything
IsSeq(s) == s \in Seq({s[i] : i \in DOMAIN s})

ASSUME AppAssumption ==
    \A o \in AppOptions :
        /\ IsSeq(o.fw) /\ o.key \in Keys \cup {None}
        /\ o.base # None => IsSeq(Patch(o.base, Image(o)))
ASSUME BootAssumption ==
    \A o \in BootOptions : IsSeq(o.image) /\ o.key \in Keys

----------------------------------------------------------------------------

Init ==
    /\ opts \in AppOptions \cup BootOptions
    /\ built = NoFile /\ file = NoFile /\ damage = 0

\* The bytes of a successful build, before build's own Manifest::parse of
\* them; BuiltVerifies shows that this last check cannot fail.
Build ==
    /\ built = NoFile /\ opts \in AppOptions
    /\ Buildable(opts)
    /\ built' = Assemble(opts) /\ file' = built'
    /\ UNCHANGED <<opts, damage>>

BuildBootloader ==
    /\ built = NoFile /\ opts \in BootOptions
    /\ ProfileOk(opts)
    /\ built' = AssembleBootloader(opts) /\ file' = built'
    /\ UNCHANGED <<opts, damage>>

(* What can happen to a stored file: a cell or a field changes, two cells  *)
(* trade places, the end is lost; or someone who has not got the signing   *)
(* key changes the payload, to anything or to something chosen for its     *)
(* leaf, and recomputes whatever needs no key, or signs it with another    *)
(* key.                                                                    *)

Change(new, weight) ==
    /\ built # NoFile /\ damage + weight <= MaxDamage
    /\ new # file
    /\ file' = new /\ damage' = damage + weight
    /\ UNCHANGED <<opts, built>>

Junk == <<"junk">>
\* a cell made to leave the four bytes of its block's hash as c left them
Forged(c) == <<"forged", c>>

DamageCell == \E i \in DOMAIN file.rest : Change([file EXCEPT !.rest[i] = Junk], 1)

SwapCells ==
    \E i \in 1..(Len(file.rest) - 1) :
        Change([file EXCEPT !.rest = [@ EXCEPT ![i] = file.rest[i + 1], ![i + 1] = file.rest[i]]], 1)

Truncate == file.rest # <<>> /\ Change([file EXCEPT !.rest = Front(@), !.trailer = FALSE], 1)

DamageField ==
    \/ Change([file EXCEPT !.magic = FALSE], 1)
    \/ Change([file EXCEPT !.total = @ - 1], 1)
    \/ \E v \in {2, 3} : Change([file EXCEPT !.version = v], 1)
    \/ \E f \in KnownFlags : Change([file EXCEPT !.flags = (@ \ {f}) \cup ({f} \ @)], 1)
    \/ \E n \in 0..(Len(file.rest) + 1) : Change([file EXCEPT !.payload_size = n], 1)
    \/ \E n \in AppBlockSizes \cup {1, BootBlockSize} : Change([file EXCEPT !.block_size = n], 1)
    \/ \E n \in {0, 1} : Change([file EXCEPT !.image_size = n], 1)
    \/ \E n \in {0, 2} : Change([file EXCEPT !.fw_version = n], 1)
    \/ \E c \in {"full", "delta"} : Change([file EXCEPT !.codec = c], 1)
    \/ \E h \in {Zero, Hash(Junk)} : Change([file EXCEPT !.base_hash = h], 1)
    \/ Change([file EXCEPT !.hash_algo = "other"], 1)
    \/ Change([file EXCEPT !.target = None], 1)
    \/ Change([file EXCEPT !.hw = None], 1)
    \/ Change([file EXCEPT !.root = Zero], 1)
    \/ Change([file EXCEPT !.image_hash = Zero], 1)
    \/ Change([file EXCEPT !.signature = Zero], 1)
    \/ \E k \in Keys : Change([file EXCEPT !.signer = k], 1)
    \/ \E a \in {"torn", "APRV"} : Change([file EXCEPT !.approval = a], 1)

Repack ==
    /\ Parses(file)
    /\ \E i \in 1..file.payload_size :
         \E cell \in {Junk, Forged(Payload(file)[i])} :
           LET payload == [Payload(file) EXCEPT ![i] = cell]
               leaves == LeafHashes(payload, file.block_size)
           IN  \E hash \in {file.image_hash, Hash(payload)} :
                 Change([file EXCEPT !.root = Root(leaves), !.rest = leaves \o payload,
                                     !.image_hash = hash], 2)

Resign == \E k \in Keys \ {built.signer} : Change(Signed([file EXCEPT !.signer = k], k), 1)

Damage == file # NoFile /\ (DamageCell \/ SwapCells \/ Truncate \/ DamageField \/ Repack \/ Resign)

Next == Build \/ BuildBootloader \/ Damage

Spec == Init /\ [][Next]_vars

----------------------------------------------------------------------------

TypeOK ==
    /\ opts \in AppOptions \cup BootOptions
    /\ damage \in 0..MaxDamage
    /\ (built = NoFile) <=> (file = NoFile)
    /\ file # NoFile => DOMAIN file = DOMAIN built /\ file.flags \subseteq KnownFlags

\* What build and build_bootloader return parses and verifies: the final
\* "our own output must parse" of build.rs cannot fail, whatever the block
\* size, the length of the last block, the base or the key, and verify finds
\* no problem in it.
BuiltVerifies == built # NoFile => Problems(built) = {}

\* Any one accidental change (a cell, a field, a swap, a lost tail) is caught
\* by verify or leaves the payload, its leaves and the root as they were: no
\* change of payload_size or block_size can move the boundary between leaves
\* and payload unnoticed, also in a delta, whose image_hash verify does not
\* compare.  (For a cell or a swap inside the payload this is only as good as
\* the four bytes of a leaf: see CollisionFree in ContainerProofs.)
DamageCaught ==
    file # NoFile /\ damage <= 1 /\ Problems(file) = {} =>
        /\ Payload(file) = Payload(built)
        /\ Leaves(file) = Leaves(built)
        /\ file.root = built.root

\* Whatever is done to a signed container without its key, a file that still
\* passes verify --pub with that key has every field that was signed and, when
\* it holds a full image, the payload that was signed.  This rests on SHA-256
\* (image_hash) and on the signature, not on the tree: leaves and root are four
\* bytes, and a payload can be made to fit them.  verify does not compare the
\* image_hash of a delta, so of a delta's payload nothing is claimed: the
\* signature fixes the hash of the image it has to make of the base.
SignedFields ==
    {"version", "flags", "hash_algo", "target", "hw", "fw_version", "image_size", "payload_size",
     "block_size", "root", "image_hash", "codec", "base_hash", "signer"}
SignedAuthentic ==
    file # NoFile /\ built.signer # None /\ ProblemsWithPub(file, built.signer) = {} =>
       /\ \A f \in SignedFields : file[f] = built[f]
       /\ "full" \in built.flags => Payload(file) = Payload(built)

\* The powers of two up to 2^n, and the largest one smaller than k.
Powers(n) ==
    LET power[e \in 0..n] == IF e = 0 THEN 1 ELSE 2 * power[e - 1]
    IN  {power[e] : e \in 0..n}
Split(k, n) == CHOOSE p \in Powers(n) : p < k /\ k <= 2 * p

\* The tree by its definition: k leaves from lo on split at the largest power
\* of two that is smaller than k.
Tree(leaves, n) ==
    LET tree[k \in 1..n] ==
            [lo \in 1..(n - k + 1) |->
               IF k = 1 THEN leaves[lo]
               ELSE Combine(tree[Split(k, n)][lo], tree[k - Split(k, n)][lo + Split(k, n)])]
    IN  tree
ReferenceRoot(leaves) == Tree(leaves, Len(leaves))[Len(leaves)][1]

\* merkle::root's counter of pending peaks and its bagging compute exactly
\* that tree, left and right in order, for every number of leaves built here.
RootIsReference == built # NoFile => built.root = ReferenceRoot(Leaves(built))

=============================================================================
