---------------------------- MODULE DeltaEncode ----------------------------
(***************************************************************************)
(* The patch encoders (src/encode.rs): encode_sequential and               *)
(* encode_in_place cut the images into segments, sort the suffixes of each *)
(* base slice by prefix doubling, run bsdiff with a binary search over     *)
(* them, and write the triples as size varints inside a crle stream.       *)
(*                                                                         *)
(* The radix of the varints is LowBase, the shortest run crle folds is     *)
(* MinRepeat; both are scaled down in the instances, so that sizes of      *)
(* several bytes and runs occur.  The header byte is the patch type.       *)
(***************************************************************************)
EXTENDS Bsdiff, FiniteSetsExt, SequencesExt

CONSTANTS
    MinRepeat,  \* CRLE_MIN_REPEAT
    Requests    \* what the encoders are called with

ASSUME DeltaAssumption ==
    /\ MinRepeat \in Nat \ {0}
    /\ \A r \in Requests :
         /\ r.type \in {"sequential", "in-place"}
         /\ r.from \in Seq(Byte) /\ r.to \in Seq(Byte)
         /\ r.type = "in-place" =>
              /\ r.seg \in Nat \ {0} /\ r.mem \in Nat
              /\ r.mem % r.seg = 0 /\ 2 * r.seg <= r.mem

VARIABLES
    req,          \* the arguments
    phase,        \* "segment", "sort", "diff" or "done"
    sa, rank, k,  \* suffix_array: 0-based positions, ranks and width
    segment,      \* segments finished
    stream,       \* the bytes to compress
    patch         \* the result

sort == <<sa, rank, k>>
result == <<segment, stream, patch>>
vars == <<bsdiffVars, req, phase, sort, result>>

----------------------------------------------------------------------------
(* Geometry of an in-place patch; a sequential one has a single segment.   *)

Ceiling(n, d) == (n + d - 1) \div d
InPlaceType(r) == r.type = "in-place"

\* calc_shift
CalcShift(r) ==
    LET spare == Ceiling(r.mem, r.seg) - Ceiling(Len(r.from), r.seg)
    IN  Greatest(spare * r.seg, 2 * r.seg)

SegmentCount(r) ==
    IF InPlaceType(r) THEN Ceiling(Len(r.to), r.seg) ELSE IF r.to = <<>> THEN 0 ELSE 1

\* Segment s is written before the base bytes from here on are read
\* MUTANT of FromOffset: the segment about to be written still counts as base
FromOffsetEarly(r, s) == Greatest(s * r.seg - CalcShift(r), 0)
FromOffset(r, s) == Greatest((s + 1) * r.seg - CalcShift(r), 0)

\* The base survives the shift only up to mem - shift
SegmentFrom(r, s) ==
    IF InPlaceType(r)
      THEN Slice(r.from, FromOffset(r, s), Least(Len(r.from), r.mem - CalcShift(r)))
      ELSE r.from

SegmentTo(r, s) ==
    IF InPlaceType(r) THEN Slice(r.to, s * r.seg, Least((s + 1) * r.seg, Len(r.to))) ELSE r.to

----------------------------------------------------------------------------
(* suffix_array and search.                                                *)

Key(rk, i, w) == <<At(rk, i), IF i + w < Len(rk) THEN At(rk, i + w) ELSE -1>>
KeyLess(a, b) == a[1] < b[1] \/ (a[1] = b[1] /\ a[2] < b[2])

\* sort_by_key is stable: entries with equal keys keep their order
SortedByKey(s, rk, w) ==
    LET key == [i \in 1..Len(s) |-> Key(rk, s[i], w)]
        Ahead(i) == {j \in 1..Len(s) : KeyLess(key[j], key[i]) \/ (key[j] = key[i] /\ j < i)}
        place == [i \in 1..Len(s) |-> Cardinality(Ahead(i)) + 1]
    IN  [n \in 1..Len(s) |-> s[CHOOSE i \in 1..Len(s) : place[i] = n]]

\* Equal keys get equal ranks
Ranked(rk, w) ==
    [i \in 1..Len(rk) |->
        Cardinality({v \in {Key(rk, j, w) : j \in 0..Len(rk) - 1} : KeyLess(v, Key(rk, i - 1, w))})]

\* MUTANT of SortedEnough: one doubling too few
SortedEnoughEarly(rk, w) ==
    Cardinality({rk[i] : i \in 1..Len(rk)}) = Len(rk) \/ 4 * w >= Len(rk)

SortedEnough(rk, w) ==
    Cardinality({rk[i] : i \in 1..Len(rk)}) = Len(rk) \/ 2 * w >= Len(rk)

\* suffix_array_with_sentinel
SuffixArray == <<Len(from)>> \o sa

LexLess(a, b) ==
    \E i \in 1..Least(Len(a), Len(b)) : a[i] < b[i] /\ \A j \in 1..i - 1 : a[j] = b[j]

\* matchlen(from[p..], to[scan..])
\* MUTANT of MatchLen: the comparison starts at the second byte
MatchLenSkips(p) ==
    Max({l \in 0..Least(Len(from) - p, Len(to) - scan) :
            Slice(from, p + 1, p + l) = Slice(to, scan + 1, scan + l)})

MatchLen(p) ==
    Max({l \in 0..Least(Len(from) - p, Len(to) - scan) :
            Slice(from, p, p + l) = Slice(to, scan, scan + l)})

\* The last two candidates of search
\* MUTANT of Better: they are not compared
BetterFirst(p, q) == p
Better(p, q) == IF MatchLen(p) > MatchLen(q) THEN p ELSE q

\* search: a binary search over the suffix array for to[scan..]
Search ==
    LET at == SuffixArray
        Below(p) == LET n == Least(Len(from) - p, Len(to) - scan)
                    IN  LexLess(Slice(from, p, p + n), Slice(to, scan, scan + n))
        narrow[r \in (0..Len(from)) \X (0..Len(from))] ==
            LET x == r[1] + (r[2] - r[1]) \div 2
            IN  IF r[2] - r[1] < 2 THEN Better(at[r[1] + 1], at[r[2] + 1])
                ELSE IF Below(at[x + 1]) THEN narrow[<<x, r[2]>>] ELSE narrow[<<r[1], x>>]
    IN  narrow[<<0, Len(from)>>]

----------------------------------------------------------------------------
(* pack_size and crle.                                                     *)

Cont == 2 * LowBase  \* 0x80, and the radix of the bytes after the first

Abs(v) == IF v < 0 THEN -v ELSE v

\* crle_pack_size
CrlePackSize(v) ==
    LET digits[u \in 0..v] ==
            IF u < Cont THEN <<u>> ELSE <<Cont + (u % Cont)>> \o digits[u \div Cont]
    IN  digits[v]

\* pack_size: sign and low bits first, then Cont per byte
PackSize(v) ==
    LET a == Abs(v)
        sign == IF v < 0 THEN LowBase ELSE 0
    IN  IF a < LowBase THEN <<sign + a>>
        ELSE <<Cont + sign + (a % LowBase)>> \o CrlePackSize(a \div LowBase)

Scattered == 0  \* CRLE_SCATTERED
Repeated == 1   \* CRLE_REPEATED

RunLen(d, i) == Max({l \in 1..Len(d) - i : \A j \in i..i + l - 1 : At(d, j) = At(d, i)})

\* first_run: the first maximal run from i on that is long enough, or the end
FirstRun(d, i) ==
    Min({Len(d)} \cup {j \in i..Len(d) - 1 : /\ j = i \/ At(d, j - 1) # At(d, j)
                                             /\ RunLen(d, j) >= MinRepeat})

\* crle_compress
CrleCompress(d) ==
    LET rest[i \in 0..Len(d)] ==
            LET j == FirstRun(d, i)
            IN  CASE i = Len(d) -> <<>>
                  [] i < j -> <<Scattered>> \o CrlePackSize(j - i) \o Slice(d, i, j) \o rest[j]
                  [] OTHER -> <<Repeated>> \o CrlePackSize(RunLen(d, i)) \o <<At(d, i)>>
                                \o rest[i + RunLen(d, i)]
    IN  IF d = <<>> THEN <<Scattered>> \o CrlePackSize(0) ELSE rest[0]

TripleBytes(t) ==
    PackSize(Len(t.diff)) \o t.diff \o PackSize(Len(t.extra)) \o t.extra \o PackSize(t.seek)

Header(r) ==
    IF InPlaceType(r)
      THEN <<r.type>> \o PackSize(r.mem) \o PackSize(r.seg) \o PackSize(CalcShift(r))
             \o PackSize(Len(r.from)) \o PackSize(Len(r.to))
      ELSE <<r.type>> \o PackSize(Len(r.to))

----------------------------------------------------------------------------
Init ==
    /\ BsdiffInit
    /\ req \in Requests
    /\ phase = "segment"
    /\ sa = <<>> /\ rank = <<>> /\ k = 1
    /\ segment = 0 /\ stream = <<>> /\ patch = <<>>

\* The next segment is diffed; an empty base needs no sorting
NextSegment ==
    /\ phase = "segment" /\ segment < SegmentCount(req)
    /\ Start(SegmentFrom(req, segment), SegmentTo(req, segment))
    /\ phase' = IF from' = <<>> THEN "diff" ELSE "sort"
    /\ sa' = [i \in 1..Len(from') |-> i - 1] /\ rank' = from' /\ k' = 1
    /\ UNCHANGED <<req, result>>

\* One round of prefix doubling
SortRound ==
    /\ phase = "sort"
    /\ sa' = SortedByKey(sa, rank, k)
    /\ rank' = Ranked(rank, k)
    /\ IF SortedEnough(rank', k)
         THEN phase' = "diff" /\ UNCHANGED k
         ELSE k' = 2 * k /\ UNCHANGED phase
    /\ UNCHANGED <<bsdiffVars, req, result>>

\* One step of bsdiff, with the match search finds
DiffStep ==
    /\ phase = "diff"
    /\ \/ Outer
       \/ pc = "inner" /\ \E p \in {Search} : \E l \in {MatchLen(p)} : Scan(l, p)
       \/ ScanEnd
       \/ Continue
       \/ Emit
    /\ UNCHANGED <<req, phase, sort, result>>

\* bsdiff has returned: the triples follow the data-format marker
EndSegment ==
    /\ phase = "diff" /\ pc = "done"
    /\ stream' = stream \o PackSize(0) \o FlattenSeq([i \in 1..Len(body) |-> TripleBytes(body[i])])
    /\ segment' = segment + 1
    /\ phase' = "segment"
    /\ UNCHANGED <<bsdiffVars, req, sort, patch>>

\* An empty target has no body in place, and only the marker in sequence
Finish ==
    /\ phase = "segment" /\ segment = SegmentCount(req)
    /\ patch' = IF req.to # <<>>         THEN Header(req) \o CrleCompress(stream)
                ELSE IF InPlaceType(req) THEN Header(req)
                                         ELSE Header(req) \o CrleCompress(PackSize(0))
    /\ phase' = "done"
    /\ UNCHANGED <<bsdiffVars, req, sort, segment, stream>>

Done == phase = "done" /\ UNCHANGED vars

Next == NextSegment \/ SortRound \/ DiffStep \/ EndSegment \/ Finish \/ Done

\* The encoders are plain loops: they take every step they can
Spec == Init /\ [][Next]_vars /\ WF_vars(Next)

----------------------------------------------------------------------------
(* The detools decoder (external), on bytes.                               *)

\* The number spelled from the start of s, low digits first, and its last byte
Number(s) ==
    LET read[i \in 1..Len(s)] ==
            IF s[i] < Cont \/ i = Len(s) THEN [value |-> s[i] % Cont, last |-> i]
            ELSE LET more == read[i + 1]
                 IN  [value |-> (s[i] % Cont) + Cont * more.value, last |-> more.last]
    IN  read[1]

\* A value and what follows it
CrleUnpackSize(s) == [value |-> Number(s).value, rest |-> Slice(s, Number(s).last, Len(s))]

\* The part of a size after its first byte, and then all of it
More(s) == IF s[1] < Cont THEN [value |-> 0, rest |-> Tail(s)] ELSE CrleUnpackSize(Tail(s))

UnpackSize(s) ==
    LET a == (s[1] % LowBase) + LowBase * More(s).value
    IN  [value |-> IF s[1] % Cont >= LowBase THEN -a ELSE a, rest |-> More(s).rest]

\* One segment of a crle stream more
CrleStep(d) ==
    LET u == CrleUnpackSize(Tail(d.rest))
    IN  IF Head(d.rest) = Repeated
          THEN [rest |-> Tail(u.rest), out |-> d.out \o [j \in 1..u.value |-> u.rest[1]]]
          ELSE [rest |-> Slice(u.rest, u.value, Len(u.rest)),
                out |-> d.out \o Slice(u.rest, 0, u.value)]

CrleExpand(s) ==
    LET after[n \in 0..Len(s)] ==
            IF n = 0 THEN [rest |-> s, out |-> <<>>]
            ELSE LET d == after[n - 1] IN IF d.rest = <<>> THEN d ELSE CrleStep(d)
    IN  after[Len(s)].out

\* One triple more
TripleStep(base, d) ==
    LET x == UnpackSize(d.rest)
        y == UnpackSize(Slice(x.rest, x.value, Len(x.rest)))
        z == UnpackSize(Slice(y.rest, y.value, Len(y.rest)))
    IN  [rest |-> z.rest, at |-> d.at + x.value + z.value,
         img |-> d.img \o Patched(base, d.at, Slice(x.rest, 0, x.value)) \o Slice(y.rest, 0, y.value)]

\* A segment of size bytes: its marker, and triples until it is complete
Segment(base, size, bytes) ==
    LET after[n \in 0..Len(bytes)] ==
            IF n = 0 THEN [rest |-> UnpackSize(bytes).rest, img |-> <<>>, at |-> 0]
            ELSE LET d == after[n - 1] IN IF Len(d.img) >= size THEN d ELSE TripleStep(base, d)
    IN  after[Len(bytes)]

ApplySequential(base, p) ==
    LET size == UnpackSize(p)
    IN  Segment(base, size.value, CrleExpand(size.rest)).img

\* The s-th segment, of an image of size bytes, at its offset in the base
SegmentStep(base, seg, shift, size, s, d) ==
    LET slice == Slice(base, Greatest(s * seg - shift, 0), Len(base))
        one == Segment(slice, Least(seg, size - Len(d.img)), d.rest)
    IN  [rest |-> one.rest, img |-> d.img \o one.img]

Segments(base, seg, shift, size, bytes) ==
    LET done[s \in 0..Ceiling(size, seg)] ==
            IF s = 0 THEN [rest |-> bytes, img |-> <<>>]
            ELSE SegmentStep(base, seg, shift, size, s, done[s - 1])
    IN  done[Ceiling(size, seg)].img

ApplyInPlace(base, p) ==
    LET mem == UnpackSize(p)
        seg == UnpackSize(mem.rest)
        shift == UnpackSize(seg.rest)
        fromSize == UnpackSize(shift.rest)
        size == UnpackSize(fromSize.rest)
    IN  Segments(base, seg.value, shift.value, size.value, CrleExpand(size.rest))

Apply(base, p) ==
    IF Head(p) = "in-place" THEN ApplyInPlace(base, Tail(p)) ELSE ApplySequential(base, Tail(p))

----------------------------------------------------------------------------
\* Prefix doubling leaves the suffixes of the base in strict order, however
\* many of them share long prefixes: after the round that stops the loop no
\* two of them are tied or swapped (suffix_array).
SuffixesSorted ==
    phase = "diff" =>
        \A i \in 1..Len(sa) - 1 :
            LET a == Slice(from, sa[i], Len(from))
                b == Slice(from, sa[i + 1], Len(from))
            IN  a # b /\ (IsPrefix(a, b) \/ LexLess(a, b))

\* While bsdiff scans, oldscore counts the bytes of the window from scan to
\* scsc that the old alignment already predicts, and so never drifts below
\* zero.  The loop subtracts a byte it may never have counted; that is sound
\* only because search offers a match of at least one byte wherever the base
\* has the byte at all.
ScoreIsWindow ==
    pc = "inner" => oldscore = Cardinality({i \in scan..scsc - 1 : Aligned(i)})

\* The finished patch, decoded byte by byte, is the target: varints, runs,
\* segment boundaries and the empty images included (encode.rs, Correctness
\* contract: "the real detools decoder rebuilds the target byte-for-byte").
PatchDecodes == phase = "done" => Apply(req.from, patch) = req.to

\* bsdiff with the suffix array is bsdiff with some offer at every position:
\* what holds for every choice of matches holds for the encoder.
OffersAreMatches == BsdiffSpec

\* Every call of an encoder ends: each turn of the outer loop gets further.
EncodeEnds == <>(phase = "done")
=============================================================================
