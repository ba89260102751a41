--------------------------- MODULE HexInputProofs ---------------------------
(***************************************************************************)
(* Proofs about the two readers of Intel HEX, for every address space,     *)
(* region, set of records and length of file: what they return is what the *)
(* records mean, including at the top of the address space, in the debug   *)
(* and in the release build.                                               *)
(***************************************************************************)
EXTENDS HexInput, SequenceTheorems, WellFoundedInduction, TLAPS

----------------------------------------------------------------------------
(* Numbers.                                                                *)

\* A bounded set of numbers that is not empty has a greatest element, Max.
LEMMA MaxIs ==
    ASSUME NEW S \in SUBSET Nat, NEW n \in Nat, S # {}, \A x \in S : x <= n
    PROVE  Max(S) \in S /\ \A y \in S : y <= Max(S)
<1> DEFINE Less == OpToRel(<, Nat)
           D == {n - x : x \in S}
<1>1. IsWellFoundedOn(Less, Nat)
  BY NatLessThanWellFounded
<1>2. \A i, j \in Nat : <<i, j>> \in Less <=> i < j
  BY DEF OpToRel
<1> HIDE DEF Less
<1>3. D \subseteq Nat /\ D # {}
  <2>1. \A x \in S : x \in Nat /\ x <= n
    OBVIOUS
  <2>2. \A x \in S : n - x \in Nat
    BY <2>1
  <2> QED
    BY <2>2
<1>4. PICK d \in D : \A e \in D : ~(<<e, d>> \in Less)
  BY <1>1, <1>3, WFMin
<1>5. PICK x \in S : d = n - x
  BY <1>4
<1>6. ASSUME NEW y \in S PROVE x >= y
  <2>1. n - y \in D /\ n - y \in Nat /\ n - x \in Nat
    BY <1>3, <1>5
  <2>2. ~(n - y < n - x)
    BY <1>2, <1>4, <1>5, <2>1
  <2>3. x \in Nat /\ y \in Nat
    OBVIOUS
  <2> QED
    BY <2>2, <2>3
<1>7. \E z \in S : \A y \in S : z >= y
  BY <1>6
<1>8. Max(S) \in S /\ \A y \in S : Max(S) >= y
  BY <1>7 DEF Max
<1>9. \A y \in S : y \in Nat
  OBVIOUS
<1> QED
  BY <1>8, <1>9

LEMMA MaxEquals ==
    ASSUME NEW S \in SUBSET Nat, NEW x \in S, \A y \in S : y <= x
    PROVE  Max(S) = x
<1>1. Max(S) \in S /\ \A y \in S : y <= Max(S)
  BY MaxIs
<1>2. x <= Max(S) /\ Max(S) <= x /\ x \in Nat /\ Max(S) \in Nat
  BY <1>1
<1> QED
  BY <1>2

LEMMA MinEquals ==
    ASSUME NEW S \in SUBSET Nat, NEW x \in S, \A y \in S : x <= y
    PROVE  Min(S) = x
<1>1. Min(S) \in S /\ \A y \in S : Min(S) <= y
  BY DEF Min
<1>2. x <= Min(S) /\ Min(S) <= x /\ x \in Nat /\ Min(S) \in Nat
  BY <1>1
<1> QED
  BY <1>2

LEMMA SpaceIs ==
    /\ AddrSpace \in Nat \ {0} /\ OffsetSpan \in Nat \ {0} /\ OffsetSpan <= AddrSpace
    /\ \A u \in 0..(OffsetSpan - 1) :
         /\ u * OffsetSpan \in 0..(AddrSpace - OffsetSpan)
         /\ u * SegmentStep \in 0..(AddrSpace - OffsetSpan)
<1>1. OffsetSpan \in Nat \ {0} /\ SegmentStep \in 1..OffsetSpan /\ AddrSpace = OffsetSpan * OffsetSpan
  BY HexAssumption
<1>2. AddrSpace \in Nat \ {0} /\ OffsetSpan <= AddrSpace
  BY <1>1
<1>3. ASSUME NEW u \in 0..(OffsetSpan - 1)
      PROVE  /\ u * OffsetSpan \in 0..(AddrSpace - OffsetSpan)
             /\ u * SegmentStep \in 0..(AddrSpace - OffsetSpan)
  <2>1. u \in Nat /\ u <= OffsetSpan - 1
    BY <1>1
  <2>2. u * OffsetSpan \in Nat /\ u * OffsetSpan <= (OffsetSpan - 1) * OffsetSpan
    BY <1>1, <2>1
  <2>3. u * SegmentStep \in Nat /\ u * SegmentStep <= u * OffsetSpan
    BY <1>1, <2>1
  <2>4. (OffsetSpan - 1) * OffsetSpan = AddrSpace - OffsetSpan
    BY <1>1
  <2> QED
    BY <1>1, <1>2, <2>2, <2>3, <2>4
<1> QED
  BY <1>1, <1>2, <1>3

\* A sum that passes the top of the space once wraps to what is past it, a
\* difference below zero to what is missing from the top.
LEMMA WrapIs ==
    ASSUME NEW x \in Int
    PROVE  /\ x \in 0..(AddrSpace - 1) => x % AddrSpace = x
           /\ x \in AddrSpace..(2 * AddrSpace - 1) => x % AddrSpace = x - AddrSpace
           /\ x \in (-AddrSpace)..(-1) => x % AddrSpace = x + AddrSpace
<1> DEFINE A == AddrSpace
           q == x \div A
           r == x % A
<1>1. A \in Nat \ {0}
  BY SpaceIs
<1> HIDE DEF A
<1>2. q \in Int /\ r \in 0..(A - 1) /\ x = A * q + r
  BY <1>1
<1> HIDE DEF q, r
<1>3. q >= 2 => A * q >= A * 2
  BY <1>1, <1>2
<1>4. q <= -2 => A * q <= A * (-2)
  BY <1>1, <1>2
<1>5. q = 1 => A * q = A
  BY <1>1, <1>2
<1>6. q = 0 => A * q = 0
  BY <1>1, <1>2
<1>7. q = -1 => A * q = -A
  BY <1>1, <1>2
<1>8. q >= 2 \/ q <= -2 \/ q = 1 \/ q = 0 \/ q = -1
  BY <1>2
<1> DEFINE p == A * q
<1>9. /\ p \in Int /\ x = p + r
      /\ p >= 2 * A \/ p <= -(2 * A) \/ p = A \/ p = 0 \/ p = -A
  BY <1>1, <1>2, <1>3, <1>4, <1>5, <1>6, <1>7, <1>8
<1> HIDE DEF p
<1>10. /\ x \in 0..(A - 1) => r = x
       /\ x \in A..(2 * A - 1) => r = x - A
       /\ x \in (-A)..(-1) => r = x + A
  BY <1>1, <1>2, <1>9
<1> QED
  BY <1>10 DEF r, A

----------------------------------------------------------------------------
(* Reading one more record.                                                *)

Extends(r) == r.k \in {"linear", "segment"}

LEMMA RecordIs ==
    ASSUME NEW r \in Records
    PROVE  /\ r.k \in {"data", "linear", "segment", "start", "malformed"}
           /\ r.k = "data" => r.off \in 0..(OffsetSpan - 1) /\ r.value \in Values
           /\ Extends(r) => r.upper \in 0..(OffsetSpan - 1)
BY DEF Records, Extends

\* the extended addresses among the first i records
Extensions(i) == {j \in 1..i : Extends(file[j])}

BaseAt(i) == file[i].upper * (IF file[i].k = "linear" THEN OffsetSpan ELSE SegmentStep)

LEMMA BaseIs ==
    ASSUME NEW i \in Nat
    PROVE  /\ Extensions(i) = {} => BaseOf(i) = 0
           /\ Extensions(i) # {} => BaseOf(i) = BaseAt(Max(Extensions(i)))
BY DEF BaseOf, BaseAt, Extensions, Extends

LEMMA ExtensionMax ==
    ASSUME NEW i \in Nat, Extensions(i) # {}
    PROVE  Max(Extensions(i)) \in Extensions(i)
<1>1. Extensions(i) \in SUBSET Nat /\ \A x \in Extensions(i) : x <= i
  BY DEF Extensions
<1> QED
  BY <1>1, MaxIs

\* What a record means does not change when another one is read.
LEMMA AppendIs ==
    ASSUME NEW S, file \in Seq(S), NEW r, file' = Append(file, r),
           NEW n \in Nat, Len(file) = n
    PROVE  /\ Len(file') = n + 1 /\ file'[n + 1] = r
           /\ \A i \in 1..n : file'[i] = file[i]
           /\ \A i \in 0..n : BaseOf(i)' = BaseOf(i)
           /\ BaseOf(n + 1)' = IF r.k = "linear" THEN r.upper * OffsetSpan
                               ELSE IF r.k = "segment" THEN r.upper * SegmentStep
                               ELSE BaseOf(n)
<1>1. Len(file') = n + 1 /\ file'[n + 1] = r /\ \A i \in 1..n : file'[i] = file[i]
  OBVIOUS
<1>2. ASSUME NEW i \in 0..n PROVE Extensions(i)' = Extensions(i)
  <2>1. \A j \in 1..i : j \in 1..n
    BY <1>1
  <2>2. \A j \in 1..i : file'[j] = file[j]
    BY <1>1, <2>1
  <2> QED
    BY <2>2 DEF Extensions, Extends
<1>3. ASSUME NEW i \in 0..n PROVE BaseOf(i)' = BaseOf(i)
  <2>1. i \in Nat
    BY <1>1
  <2>2. CASE Extensions(i) = {}
    <3>1. BaseOf(i) = 0
      BY <2>1, <2>2, BaseIs
    <3>2. BaseOf(i)' = 0
      BY <1>2, <2>2 DEF BaseOf, Extensions, Extends
    <3> QED
      BY <3>1, <3>2
  <2>3. CASE Extensions(i) # {}
    <3> DEFINE m == Max(Extensions(i))
    <3>1. m \in 1..n /\ file'[m] = file[m]
      BY <1>1, <2>1, <2>3, ExtensionMax DEF Extensions
    <3>2. BaseOf(i) = BaseAt(m)
      BY <2>1, <2>3, BaseIs
    <3>3. BaseOf(i)' = file'[m].upper * (IF file'[m].k = "linear" THEN OffsetSpan ELSE SegmentStep)
      BY <1>2, <2>3 DEF BaseOf, Extensions, Extends
    <3> QED
      BY <3>1, <3>2, <3>3 DEF BaseAt
  <2> QED
    BY <2>2, <2>3
<1>4. Extensions(n + 1)' = Extensions(n)' \cup (IF Extends(r) THEN {n + 1} ELSE {})
  <2>1. \A j : j \in 1..(n + 1) <=> j \in 1..n \/ j = n + 1
    BY <1>1
  <2> QED
    BY <1>1, <2>1 DEF Extensions, Extends
<1>5. BaseOf(n + 1)' = IF r.k = "linear" THEN r.upper * OffsetSpan
                       ELSE IF r.k = "segment" THEN r.upper * SegmentStep
                       ELSE BaseOf(n)
  <2>1. n \in 0..n
    BY <1>1
  <2>2. CASE Extends(r)
    <3>1. n + 1 \in Extensions(n + 1)'
      BY <1>4, <2>2
    <3>2. Extensions(n + 1)' \in SUBSET Nat /\ \A y \in Extensions(n + 1)' : y <= n + 1
      BY <1>1 DEF Extensions
    <3>3. Max(Extensions(n + 1)') = n + 1
      BY <3>1, <3>2, MaxEquals
    <3>4. BaseOf(n + 1)' =
            file'[n + 1].upper * (IF file'[n + 1].k = "linear" THEN OffsetSpan ELSE SegmentStep)
      BY <3>1, <3>3 DEF BaseOf, Extensions, Extends
    <3> QED
      BY <1>1, <2>2, <3>4 DEF Extends
  <2>3. CASE ~Extends(r)
    <3>1. Extensions(n + 1)' = Extensions(n)'
      BY <1>4, <2>3
    <3>2. BaseOf(n + 1)' = BaseOf(n)'
      BY <3>1 DEF BaseOf, Extensions, Extends
    <3> QED
      BY <1>3, <2>1, <2>3, <3>2 DEF Extends
  <2> QED
    BY <2>2, <2>3
<1> QED
  BY <1>1, <1>3, <1>5

\* The data records, once one more record has been read.
LEMMA DataIs ==
    ASSUME NEW S, file \in Seq(S), NEW r, file' = Append(file, r),
           NEW n \in Nat, Len(file) = n
    PROVE  /\ Data \subseteq 1..n
           /\ Data' = Data \cup (IF r.k = "data" THEN {n + 1} ELSE {})
           /\ \A i \in Data : /\ file'[i] = file[i]
                              /\ From(i)' = From(i) /\ UpTo(i)' = UpTo(i)
                              /\ \A a : Wrote(i, a)' = Wrote(i, a)
           /\ r.k = "data" =>
                /\ From(n + 1)' = BaseOf(n) + r.off
                /\ UpTo(n + 1)' = BaseOf(n) + r.off + Len(r.value)
                /\ \A a : Wrote(n + 1, a)' = r.value[a - (BaseOf(n) + r.off) + 1]
<1>1. /\ Len(file') = n + 1 /\ file'[n + 1] = r
      /\ \A i \in 1..n : file'[i] = file[i]
      /\ \A i \in 0..n : BaseOf(i)' = BaseOf(i)
      /\ BaseOf(n + 1)' = IF r.k = "linear" THEN r.upper * OffsetSpan
                          ELSE IF r.k = "segment" THEN r.upper * SegmentStep
                          ELSE BaseOf(n)
  BY AppendIs
<1>2. Data \subseteq 1..n
  BY DEF Data
<1>3. Data' = Data \cup (IF r.k = "data" THEN {n + 1} ELSE {})
  <2>1. \A j : j \in 1..(n + 1) <=> j \in 1..n \/ j = n + 1
    OBVIOUS
  <2> QED
    BY <1>1, <2>1 DEF Data
<1>4. ASSUME NEW i \in Data
      PROVE  /\ file'[i] = file[i] /\ From(i)' = From(i) /\ UpTo(i)' = UpTo(i)
             /\ \A a : Wrote(i, a)' = Wrote(i, a)
  <2>1. file'[i] = file[i] /\ BaseOf(i)' = BaseOf(i)
    BY <1>1, <1>2
  <2>2. From(i)' = From(i)
    BY <2>1 DEF From
  <2> QED
    BY <2>1, <2>2 DEF UpTo, Wrote
<1>5. ASSUME r.k = "data"
      PROVE  /\ From(n + 1)' = BaseOf(n) + r.off
             /\ UpTo(n + 1)' = BaseOf(n) + r.off + Len(r.value)
             /\ \A a : Wrote(n + 1, a)' = r.value[a - (BaseOf(n) + r.off) + 1]
  <2>1. BaseOf(n + 1)' = BaseOf(n) /\ file'[n + 1] = r
    BY <1>1, <1>5
  <2>2. From(n + 1)' = BaseOf(n) + r.off
    BY <2>1 DEF From
  <2> QED
    BY <2>1, <2>2 DEF UpTo, Wrote
<1> QED
  BY <1>2, <1>3, <1>4, <1>5

WriterOf(i, a) == i \in Data /\ From(i) <= a /\ a < UpTo(i)

LEMMA WritersAre == \A i, a : i \in Writers(a) <=> WriterOf(i, a)
BY DEF Writers, WriterOf

----------------------------------------------------------------------------
(* The invariant.                                                          *)

\* What has been read, and that its addresses lie in the address space.
SoFar ==
    /\ file \in Seq(Records)
    /\ base = BaseOf(Len(file)) /\ base \in 0..(AddrSpace - OffsetSpan)
    /\ \A i \in Data : From(i) \in 0..(AddrSpace - 1) /\ Len(file[i].value) \in 0..OffsetSpan

\* The segments are the data records in the order of the file.
Enumerates(place) ==
    /\ place \in [1..Len(segments) -> Data]
    /\ \A j, k \in 1..Len(segments) : j < k => place[j] < place[k]
    /\ \A i \in Data : \E j \in 1..Len(segments) : place[j] = i
    /\ \A j \in 1..Len(segments) :
         segments[j].addr = From(place[j]) /\ segments[j].value = file[place[j]].value

\* parse_intel_hex: lo is the lowest address, hi the highest end as it wrapped.
ImageSoFar ==
    /\ segments \in Seq([addr : Int, value : Values])
    /\ \E place : Enumerates(place)
    /\ lo \in 0..(AddrSpace - 1) /\ hi \in 0..(AddrSpace - 1)
    /\ \A i \in Data : lo <= From(i) /\ UpTo(i) % AddrSpace <= hi
    /\ Data # {} => \E i \in Data : lo = From(i)
    /\ hi = 0 \/ \E i \in Data : hi = UpTo(i) % AddrSpace
    /\ Data = {} => lo = AddrSpace - 1
    /\ checked => \A i \in Data : UpTo(i) < AddrSpace

\* extract_bootloader_region_from_hex: the region holds what was written, on
\* which the records agree.
RegionSoFar ==
    /\ written = {a \in Region : Writers(a) # {}}
    /\ image = [a \in Region |-> image[a]]
    /\ \A a \in Region :
         /\ Writers(a) = {} => image[a] = Erased
         /\ \A i \in Writers(a) : image[a] = Wrote(i, a)
    /\ \A i \in Data : UpTo(i) < AddrSpace

Reading ==
    /\ SoFar
    /\ reader = "image" => ImageSoFar
    /\ reader = "region" => RegionSoFar

HexInv ==
    /\ reader \in {"image", "region"} /\ checked \in BOOLEAN
    /\ outcome \in {"reading", "error", "panic", "ok"}
    /\ outcome = "reading" => Reading
    /\ ImageExact /\ RegionExact

LEMMA NotEnded == SoFar => ~Ended
<1> SUFFICES ASSUME SoFar, Len(file) > 0 PROVE file[Len(file)].k # "eof"
  BY DEF Ended
<1>1. file[Len(file)] \in Records
  BY DEF SoFar
<1> QED
  BY <1>1, RecordIs

\* Nothing is claimed of a reader that is still reading.
LEMMA ReadingIsExact == SoFar /\ outcome = "reading" => ImageExact /\ RegionExact
BY NotEnded DEF ImageExact, RegionExact

LEMMA HexStart == Init => HexInv
<1> SUFFICES ASSUME Init PROVE HexInv
  OBVIOUS
<1>1. file = <<>> /\ Len(file) = 0 /\ Data = {} /\ \A a : Writers(a) = {}
  BY EmptySeq DEF Init, Data, Writers
<1>2. SoFar
  <2>1. Extensions(0) = {}
    BY DEF Extensions
  <2>2. BaseOf(0) = 0 /\ 0 \in 0..(AddrSpace - OffsetSpan)
    BY <2>1, BaseIs, SpaceIs
  <2> QED
    BY <1>1, <2>2, EmptySeq DEF Init, SoFar
<1>3. ImageSoFar
  <2>1. Enumerates([j \in {} |-> 0])
    BY <1>1, EmptySeq DEF Init, Enumerates
  <2>2. 0 \in 0..(AddrSpace - 1) /\ AddrSpace - 1 \in 0..(AddrSpace - 1)
    BY SpaceIs
  <2>3. \E place : Enumerates(place)
    BY <2>1
  <2> QED
    BY <1>1, <2>2, <2>3, EmptySeq DEF Init, ImageSoFar
<1>4. RegionSoFar
  <2>1. image = [a \in Region |-> Erased]
    BY DEF Init
  <2> QED
    BY <1>1, <2>1 DEF Init, RegionSoFar
<1> QED
  BY <1>2, <1>3, <1>4, ReadingIsExact DEF Init, HexInv, Reading

----------------------------------------------------------------------------
(* The steps.                                                              *)

LEMMA SoFarStep ==
    ASSUME SoFar, NEW r \in Records, file' = Append(file, r),
           base' = IF r.k = "linear" THEN r.upper * OffsetSpan
                   ELSE IF r.k = "segment" THEN r.upper * SegmentStep
                   ELSE base
    PROVE  SoFar'
<1>1. PICK n \in Nat : n = Len(file)
  BY DEF SoFar
<1>2. file \in Seq(Records) /\ Len(file) = n /\ base = BaseOf(n) /\ base \in 0..(AddrSpace - OffsetSpan)
  BY <1>1 DEF SoFar
<1>3. file' \in Seq(Records) /\ Len(file') = n + 1
  BY <1>2
<1>4. base' = BaseOf(n + 1)'
  BY <1>2, AppendIs
<1>5. base' \in 0..(AddrSpace - OffsetSpan)
  BY <1>2, RecordIs, SpaceIs DEF Extends
<1>6. ASSUME NEW i \in Data'
      PROVE  From(i)' \in 0..(AddrSpace - 1) /\ Len(file'[i].value) \in 0..OffsetSpan
  <2>1. CASE i \in Data
    <3>1. From(i) \in 0..(AddrSpace - 1) /\ Len(file[i].value) \in 0..OffsetSpan
      BY <2>1 DEF SoFar
    <3>2. From(i)' = From(i) /\ file'[i] = file[i]
      BY <1>2, <2>1, DataIs
    <3> QED
      BY <3>1, <3>2
  <2>2. CASE i \notin Data
    <3>1. r.k = "data" /\ i = n + 1
      BY <1>2, <2>2, DataIs
    <3>2. file'[n + 1] = r
      BY <1>2, AppendIs
    <3>3. From(n + 1)' = BaseOf(n) + r.off
      BY <1>2, <3>1, DataIs
    <3>4. r.off \in 0..(OffsetSpan - 1) /\ Len(r.value) \in 0..OffsetSpan
      BY <3>1, RecordIs, HexAssumption
    <3>5. BaseOf(n) + r.off \in 0..(AddrSpace - 1)
      BY <1>2, <3>4, SpaceIs
    <3> QED
      BY <3>1, <3>2, <3>3, <3>4, <3>5
  <2> QED
    BY <2>1, <2>2
<1>7. base' = BaseOf(Len(file))'
  BY <1>3, <1>4
<1> QED
  BY <1>3, <1>5, <1>6, <1>7 DEF SoFar

\* A record that carries no data leaves both readers' state alone.
LEMMA NoDataStep ==
    ASSUME SoFar, NEW r \in Records, file' = Append(file, r), r.k # "data",
           UNCHANGED <<segments, lo, hi, image, written, checked>>
    PROVE  (ImageSoFar => ImageSoFar') /\ (RegionSoFar => RegionSoFar')
<1>1. PICK n \in Nat : n = Len(file)
  BY DEF SoFar
<1>2. file \in Seq(Records) /\ Len(file) = n
  BY <1>1 DEF SoFar
<1>3. /\ Data' = Data
      /\ \A i \in Data : /\ file'[i] = file[i] /\ From(i)' = From(i) /\ UpTo(i)' = UpTo(i)
                         /\ \A a : Wrote(i, a)' = Wrote(i, a)
  BY <1>2, DataIs
<1>4. \A a : Writers(a)' = Writers(a)
  BY <1>3 DEF Writers
<1>5. ASSUME ImageSoFar PROVE ImageSoFar'
  <2>1. PICK place : Enumerates(place)
    BY <1>5 DEF ImageSoFar
  <2>2. Enumerates(place)'
    <3>1. place \in [1..Len(segments) -> Data] /\ \A j \in 1..Len(segments) : place[j] \in Data
      BY <2>1 DEF Enumerates
    <3> QED
      BY <1>3, <2>1, <3>1 DEF Enumerates
  <2> QED
    BY <1>3, <1>5, <2>2 DEF ImageSoFar
<1>6. ASSUME RegionSoFar PROVE RegionSoFar'
  <2>1. \A a : \A i \in Writers(a) : i \in Data
    BY DEF Writers
  <2> QED
    BY <1>3, <1>4, <1>6, <2>1 DEF RegionSoFar
<1> QED
  BY <1>5, <1>6

\* parse_intel_hex keeps one more segment.
LEMMA ImageDataStep ==
    ASSUME SoFar, ImageSoFar, NEW r \in Records, r.k = "data", file' = Append(file, r),
           NEW addr, addr = base + r.off, NEW end, end = addr + Len(r.value),
           ~(checked /\ end >= AddrSpace), checked' = checked,
           lo' = Smaller(lo, addr), hi' = Highest(end % AddrSpace),
           segments' = Append(segments, [addr |-> addr, value |-> r.value])
    PROVE  ImageSoFar'
<1>1. PICK n \in Nat : n = Len(file)
  BY DEF SoFar
<1>2. file \in Seq(Records) /\ Len(file) = n /\ base = BaseOf(n) /\ base \in 0..(AddrSpace - OffsetSpan)
  BY <1>1 DEF SoFar
<1>3. /\ file'[n + 1] = r
      /\ Data \subseteq 1..n /\ Data' = Data \cup {n + 1}
      /\ \A i \in Data : file'[i] = file[i] /\ From(i)' = From(i) /\ UpTo(i)' = UpTo(i)
      /\ From(n + 1)' = addr /\ UpTo(n + 1)' = end
  BY <1>2, AppendIs, DataIs
<1>4. /\ addr \in 0..(AddrSpace - 1) /\ end \in Nat /\ end % AddrSpace \in 0..(AddrSpace - 1)
      /\ r.value \in Values
  <2>1. r.off \in 0..(OffsetSpan - 1) /\ r.value \in Values /\ Len(r.value) \in Nat
    BY RecordIs, HexAssumption
  <2>2. OffsetSpan \in Nat /\ AddrSpace \in Nat \ {0} /\ OffsetSpan <= AddrSpace
    BY SpaceIs
  <2>3. addr \in 0..(AddrSpace - 1)
    BY <1>2, <2>1, <2>2, SMTT(30)
  <2> DEFINE len == Len(r.value)
  <2>4. len \in Nat /\ end = addr + len
    BY <2>1
  <2> HIDE DEF len
  <2>5. end \in Nat
    BY <2>2, <2>3, <2>4, SMTT(30)
  <2>6. end % AddrSpace \in 0..(AddrSpace - 1)
    BY <2>2, <2>5
  <2> QED
    BY <2>1, <2>3, <2>5, <2>6
<1> DEFINE e == end % AddrSpace
<1>5. e \in 0..(AddrSpace - 1) /\ UpTo(n + 1)' % AddrSpace = e
  BY <1>3, <1>4
<1> HIDE DEF e
<1>6. /\ lo \in 0..(AddrSpace - 1) /\ hi \in 0..(AddrSpace - 1)
      /\ \A i \in Data : lo <= From(i) /\ UpTo(i) % AddrSpace <= hi
      /\ Data # {} => \E i \in Data : lo = From(i)
      /\ hi = 0 \/ \E i \in Data : hi = UpTo(i) % AddrSpace
      /\ Data = {} => lo = AddrSpace - 1
      /\ segments \in Seq([addr : Int, value : Values])
  BY DEF ImageSoFar
<1>7. /\ lo' = (IF lo < addr THEN lo ELSE addr)
      /\ hi' = (IF hi < e THEN e ELSE hi)
  BY DEF Smaller, Highest, Greater, e
<1>8. lo' \in 0..(AddrSpace - 1) /\ hi' \in 0..(AddrSpace - 1)
  BY <1>4, <1>5, <1>6, <1>7
<1>9. ASSUME NEW i \in Data' PROVE lo' <= From(i)' /\ UpTo(i)' % AddrSpace <= hi'
  <2>1. CASE i \in Data
    <3>1. /\ From(i)' = From(i) /\ UpTo(i)' = UpTo(i) /\ lo <= From(i) /\ UpTo(i) % AddrSpace <= hi
          /\ From(i) \in Int
      BY <1>3, <1>6, <2>1 DEF SoFar
    <3>2. UpTo(i) % AddrSpace \in Int
      <4>1. Len(file[i].value) \in Int
        BY <2>1 DEF SoFar
      <4>2. UpTo(i) \in Int
        BY <3>1, <4>1 DEF UpTo
      <4> QED
        BY <4>2, SpaceIs
    <3> DEFINE u == UpTo(i) % AddrSpace
               f == From(i)
    <3>3. lo <= f /\ u <= hi /\ f \in Int /\ u \in Int
      BY <3>1, <3>2
    <3> HIDE DEF u, f
    <3>4. lo' <= f /\ u <= hi'
      BY <1>4, <1>5, <1>6, <1>7, <3>3, SMTT(30)
    <3> QED
      BY <3>1, <3>4 DEF u, f
  <2>2. CASE i = n + 1
    <3>1. lo' <= addr /\ e <= hi'
      BY <1>4, <1>5, <1>6, <1>7
    <3> QED
      BY <1>3, <1>5, <2>2, <3>1
  <2> QED
    BY <1>3, <2>1, <2>2
<1>10. n + 1 \in Data' /\ From(n + 1)' = addr
  BY <1>3
<1>11. \E i \in Data' : lo' = From(i)'
  <2>1. CASE lo' = addr
    BY <1>10, <2>1
  <2>2. CASE lo' = lo /\ lo < addr
    <3>1. Data # {}
      BY <1>4, <1>6, <2>2, SpaceIs
    <3>2. PICK i \in Data : lo = From(i)
      BY <1>6, <3>1
    <3> QED
      BY <1>3, <2>2, <3>2
  <2> QED
    BY <1>7, <2>1, <2>2
<1>12. hi' = 0 \/ \E i \in Data' : hi' = UpTo(i)' % AddrSpace
  <2>1. CASE hi' = e
    BY <1>5, <1>10, <2>1
  <2>2. CASE hi' = hi
    BY <1>3, <1>6, <2>2
  <2> QED
    BY <1>7, <2>1, <2>2
<1>13. checked' => \A i \in Data' : UpTo(i)' < AddrSpace
  <2>1. checked => end < AddrSpace
    BY <1>4, SpaceIs
  <2> QED
    BY <1>3, <2>1 DEF ImageSoFar
<1>17. Data' # {}
  BY <1>10
<1> DEFINE seg == [addr |-> addr, value |-> r.value]
<1>14. seg \in [addr : Int, value : Values] /\ seg.addr = addr /\ seg.value = r.value
  BY <1>4
<1>15. segments' \in Seq([addr : Int, value : Values])
  <2> HIDE DEF seg
  <2>1. segments' = Append(segments, seg)
    BY DEF seg
  <2> QED
    BY <1>6, <1>14, <2>1, AppendProperties
<1>16. \E place : Enumerates(place)'
  <2>1. PICK place : Enumerates(place)
    BY DEF ImageSoFar
  <2>2. PICK m \in Nat : m = Len(segments)
    BY <1>6
  <2>3. /\ Len(segments') = m + 1 /\ segments'[m + 1] = seg
        /\ \A j \in 1..m : segments'[j] = segments[j]
    <3> HIDE DEF seg
    <3>1. segments' = Append(segments, seg)
      BY DEF seg
    <3> QED
      BY <1>6, <1>14, <2>2, <3>1, AppendProperties
  <2>4. /\ \A j \in 1..m : place[j] \in Data
        /\ \A j, k \in 1..m : j < k => place[j] < place[k]
        /\ \A i \in Data : \E j \in 1..m : place[j] = i
        /\ \A j \in 1..m : segments[j].addr = From(place[j]) /\ segments[j].value = file[place[j]].value
    BY <2>1, <2>2 DEF Enumerates
  <2> DEFINE longer == [j \in 1..(m + 1) |-> IF j = m + 1 THEN n + 1 ELSE place[j]]
  <2>5. longer[m + 1] = n + 1 /\ \A j \in 1..m : longer[j] = place[j]
    <3>1. m + 1 \in 1..(m + 1) /\ \A j \in 1..m : j \in 1..(m + 1) /\ j # m + 1
      OBVIOUS
    <3> QED
      BY <3>1
  <2>6. \A j \in 1..(m + 1) : j \in 1..m \/ j = m + 1
    OBVIOUS
  <2>7. longer \in [1..(m + 1) -> Data']
    BY <1>3, <2>4
  <2> HIDE DEF longer
  <2>8. ASSUME NEW j \in 1..(m + 1), NEW k \in 1..(m + 1), j < k PROVE longer[j] < longer[k]
    <3>1. j \in 1..m
      <4>1. j \in Nat /\ k \in Nat /\ 1 <= j /\ k <= m + 1
        BY <2>2
      <4> QED
        BY <2>2, <2>8, <4>1
    <3>2. CASE k = m + 1
      <4>1. longer[k] = n + 1 /\ longer[j] = place[j] /\ place[j] \in 1..n
        BY <1>3, <2>4, <2>5, <3>1, <3>2
      <4> QED
        BY <1>1, <4>1
    <3>3. CASE k \in 1..m
      <4>1. longer[k] = place[k] /\ longer[j] = place[j] /\ place[j] < place[k]
        BY <2>4, <2>5, <2>8, <3>1, <3>3
      <4> QED
        BY <4>1
    <3> QED
      BY <2>6, <3>2, <3>3
  <2>9. ASSUME NEW i \in Data' PROVE \E j \in 1..(m + 1) : longer[j] = i
    <3>1. CASE i = n + 1
      <4>1. m + 1 \in 1..(m + 1)
        OBVIOUS
      <4> QED
        BY <2>5, <3>1, <4>1
    <3>2. CASE i \in Data
      <4>1. PICK j \in 1..m : place[j] = i
        BY <2>4, <3>2
      <4>2. j \in 1..(m + 1)
        OBVIOUS
      <4> QED
        BY <2>5, <4>1, <4>2
    <3> QED
      BY <1>3, <3>1, <3>2
  <2>10. ASSUME NEW j \in 1..(m + 1)
         PROVE  segments'[j].addr = From(longer[j])' /\ segments'[j].value = file'[longer[j]].value
    <3>1. CASE j = m + 1
      BY <1>3, <1>14, <2>3, <2>5, <3>1
    <3>2. CASE j \in 1..m
      <4>1. PICK i \in Data : i = place[j]
        BY <2>4, <3>2
      <4>2. longer[j] = i /\ segments'[j] = segments[j]
        BY <2>3, <2>5, <3>2, <4>1
      <4>3. segments[j].addr = From(i) /\ segments[j].value = file[i].value
        BY <2>4, <3>2, <4>1
      <4>4. From(i)' = From(i) /\ file'[i] = file[i]
        BY <1>3
      <4> QED
        BY <4>2, <4>3, <4>4
    <3> QED
      BY <2>6, <3>1, <3>2
  <2>11. Enumerates(longer)'
    BY <2>3, <2>7, <2>8, <2>9, <2>10 DEF Enumerates
  <2> QED
    BY <2>11
<1> QED
  BY <1>8, <1>9, <1>10, <1>11, <1>12, <1>13, <1>15, <1>16, <1>17 DEF ImageSoFar

\* One more data record writes the addresses of its data.
LEMMA WritersStep ==
    ASSUME SoFar, NEW r \in Records, r.k = "data", file' = Append(file, r),
           NEW n \in Nat, Len(file) = n
    PROVE  \A a : /\ \A i \in Writers(a) : i \in Data /\ i # n + 1
                  /\ Writers(a)' = Writers(a) \cup
                       (IF /\ base + r.off <= a
                           /\ a < base + r.off + Len(r.value) THEN {n + 1} ELSE {})
<1>1. file \in Seq(Records) /\ base = BaseOf(n)
  BY DEF SoFar
<1>2. /\ Data \subseteq 1..n /\ Data' = Data \cup {n + 1}
      /\ \A i \in Data : From(i)' = From(i) /\ UpTo(i)' = UpTo(i)
      /\ From(n + 1)' = base + r.off /\ UpTo(n + 1)' = base + r.off + Len(r.value)
  BY <1>1, DataIs
<1>3. n + 1 \notin Data
  BY <1>2
<1>4. ASSUME NEW a
      PROVE  Writers(a)' = Writers(a) \cup
               (IF base + r.off <= a /\ a < base + r.off + Len(r.value) THEN {n + 1} ELSE {})
  BY <1>2, <1>3 DEF Writers
<1>5. ASSUME NEW a, NEW i \in Writers(a) PROVE i \in Data /\ i # n + 1
  BY <1>3 DEF Writers
<1> QED
  BY <1>4, <1>5

\* extract_bootloader_region_from_hex copies what lies inside the region.
LEMMA RegionDataStep ==
    ASSUME SoFar, RegionSoFar, NEW r \in Records, r.k = "data", file' = Append(file, r),
           NEW addr, addr = base + r.off, NEW end, end = addr + Len(r.value),
           NEW copied, copied = Region \cap addr..(end - 1), ~(end >= AddrSpace),
           \A a \in copied \cap written : image[a] = ByteAt(r.value, addr, a),
           image' = [a \in Region |-> IF a \in copied THEN ByteAt(r.value, addr, a) ELSE image[a]],
           written' = written \cup copied
    PROVE  RegionSoFar'
<1>1. PICK n \in Nat : n = Len(file)
  BY DEF SoFar
<1>2. file \in Seq(Records) /\ Len(file) = n /\ base = BaseOf(n) /\ base \in 0..(AddrSpace - OffsetSpan)
  BY <1>1 DEF SoFar
<1>3. addr \in Int /\ end \in Int /\ AddrSpace \in Int
  <2>1. r.off \in Int /\ Len(r.value) \in Int /\ AddrSpace \in Int
    BY RecordIs, HexAssumption, SpaceIs
  <2>2. addr \in Int
    BY <1>2, <2>1
  <2> QED
    BY <2>1, <2>2
<1>4. /\ Data' = Data \cup {n + 1}
      /\ \A i \in Data : UpTo(i)' = UpTo(i) /\ \A a : Wrote(i, a)' = Wrote(i, a)
      /\ UpTo(n + 1)' = end
      /\ \A a : Wrote(n + 1, a)' = r.value[a - addr + 1]
  BY <1>2, DataIs
<1>5. \A a : /\ \A i \in Writers(a) : i \in Data /\ i # n + 1
             /\ Writers(a)' = Writers(a) \cup (IF addr <= a /\ a < end THEN {n + 1} ELSE {})
  BY <1>2, WritersStep
<1>6. \A a \in Region : a \in copied <=> addr <= a /\ a < end
  <2>1. Region \subseteq Int
    BY HexAssumption DEF Region
  <2>2. \A a \in Int : a \in addr..(end - 1) <=> addr <= a /\ a < end
    BY <1>3
  <2> QED
    BY <2>1, <2>2
<1>7. \A a \in Region : Writers(a)' = Writers(a) \cup (IF a \in copied THEN {n + 1} ELSE {})
  BY <1>5, <1>6
<1>8. written = {a \in Region : Writers(a) # {}}
  BY DEF RegionSoFar
<1>9. written' = {a \in Region : Writers(a)' # {}}
  <2>1. \A a : a \in written' <=> a \in written \/ a \in copied
    OBVIOUS
  <2>2. \A a : a \in copied => a \in Region
    OBVIOUS
  <2>3. \A a : a \in written <=> a \in Region /\ Writers(a) # {}
    BY <1>8
  <2>4. \A a \in Region : Writers(a)' # {} <=> a \in written \/ a \in copied
    BY <1>7, <2>3
  <2>5. \A a : a \in written' <=> a \in Region /\ Writers(a)' # {}
    BY <2>1, <2>2, <2>3, <2>4
  <2> QED
    BY <2>5
<1>10. \A a \in Region : image'[a] = IF a \in copied THEN ByteAt(r.value, addr, a) ELSE image[a]
  OBVIOUS
<1>11. image' = [a \in Region |-> image'[a]]
  BY <1>10
<1>12. ASSUME NEW a \in Region
       PROVE  /\ Writers(a)' = {} => image'[a] = Erased
              /\ \A i \in Writers(a)' : image'[a] = Wrote(i, a)'
  <2>1. /\ Writers(a) = {} => image[a] = Erased
        /\ \A i \in Writers(a) : image[a] = Wrote(i, a)
    BY DEF RegionSoFar
  <2>2. CASE a \in copied
    <3>1. image'[a] = ByteAt(r.value, addr, a) /\ Writers(a)' = Writers(a) \cup {n + 1}
      BY <1>7, <1>10, <2>2
    <3>2. Wrote(n + 1, a)' = ByteAt(r.value, addr, a)
      BY <1>4 DEF ByteAt
    <3>3. ASSUME NEW i \in Writers(a) PROVE image'[a] = Wrote(i, a)'
      <4>1. a \in written
        BY <1>8
      <4>2. image[a] = image'[a]
        BY <2>2, <3>1, <4>1
      <4>3. Wrote(i, a)' = Wrote(i, a)
        BY <1>4, <1>5
      <4> QED
        BY <2>1, <4>2, <4>3
    <3> QED
      BY <3>1, <3>2, <3>3
  <2>3. CASE a \notin copied
    <3>1. image'[a] = image[a] /\ Writers(a)' = Writers(a)
      BY <1>7, <1>10, <2>3
    <3>2. \A i \in Writers(a) : Wrote(i, a)' = Wrote(i, a)
      BY <1>4, <1>5
    <3> QED
      BY <2>1, <3>1, <3>2
  <2> QED
    BY <2>2, <2>3
<1>13. \A i \in Data' : UpTo(i)' < AddrSpace
  BY <1>3, <1>4 DEF RegionSoFar
<1> QED
  BY <1>9, <1>11, <1>12, <1>13 DEF RegionSoFar

\* A reader that fails before the end of the file claims nothing of the file.
LEMMA FailsEarly == ~Ended /\ outcome = "error" => ImageExact /\ RegionExact
BY DEF ImageExact, RegionExact

LEMMA RecordStep ==
    ASSUME HexInv, NEW r \in Records, ReadRecord(r)
    PROVE  HexInv'
<1>1. /\ outcome = "reading" /\ file' = Append(file, r) /\ reader' = reader /\ checked' = checked
      /\ reader \in {"image", "region"} /\ checked \in BOOLEAN
  BY DEF ReadRecord, HexInv
<1>2. SoFar /\ (reader = "image" => ImageSoFar) /\ (reader = "region" => RegionSoFar)
  BY <1>1 DEF HexInv, Reading
<1>3. PICK n \in Nat : n = Len(file)
  BY <1>2 DEF SoFar
<1>4. file \in Seq(Records) /\ Len(file) = n /\ base = BaseOf(n)
  BY <1>2, <1>3 DEF SoFar
<1>5. ~Ended'
  <2>1. Len(file') = n + 1 /\ file'[n + 1] = r
    BY <1>1, <1>4, AppendIs
  <2> QED
    BY <2>1, RecordIs DEF Ended
<1>6. reader' \in {"image", "region"} /\ checked' \in BOOLEAN
  BY <1>1
<1>7. CASE outcome' = "error"
  <2>1. (~Ended /\ outcome = "error" => ImageExact /\ RegionExact)'
    BY FailsEarly, PTL
  <2> QED
    BY <1>5, <1>6, <1>7, <2>1 DEF HexInv
<1>8. ASSUME Reading', outcome' = "reading" PROVE HexInv'
  <2>1. (SoFar /\ outcome = "reading" => ImageExact /\ RegionExact)'
    BY ReadingIsExact, PTL
  <2> QED
    BY <1>6, <1>8, <2>1 DEF HexInv, Reading
<1> DEFINE addr == base + r.off
           end == addr + Len(r.value)
           copied == Region \cap addr..(end - 1)
<1>9. CASE r.k = "data" /\ reader = "image"
  <2>1. ImageData(r)
    BY <1>9 DEF ReadRecord
  <2>2. CASE checked /\ end >= AddrSpace
    <3>1. outcome' = "panic"
      BY <2>1, <2>2 DEF ImageData
    <3>2. n + 1 \in Data' /\ UpTo(n + 1)' = end
      BY <1>1, <1>4, <1>9, DataIs
    <3>3. PastTop'
      BY <2>2, <3>2 DEF PastTop
    <3>4. ImageExact' /\ RegionExact'
      BY <1>1, <1>9, <3>1, <3>3 DEF ImageExact, RegionExact
    <3> QED
      BY <1>6, <3>1, <3>4 DEF HexInv
  <2>3. CASE ~(checked /\ end >= AddrSpace)
    <3>1. /\ lo' = Smaller(lo, addr) /\ hi' = Highest(end % AddrSpace)
          /\ segments' = Append(segments, [addr |-> addr, value |-> r.value])
          /\ base' = base /\ outcome' = outcome
      BY <2>1, <2>3 DEF ImageData
    <3>2. SoFar'
      BY <1>1, <1>2, <1>9, <3>1, SoFarStep
    <3> HIDE DEF end, addr
    <3>3. ImageSoFar'
      BY <1>1, <1>2, <1>9, <2>3, <3>1, ImageDataStep DEF end, addr
    <3> QED
      BY <1>1, <1>8, <1>9, <3>1, <3>2, <3>3 DEF Reading
  <2> QED
    BY <2>2, <2>3
<1>10. CASE r.k = "data" /\ reader = "region"
  <2>1. RegionData(r)
    BY <1>10 DEF ReadRecord
  <2> DEFINE clash == \E a \in copied \cap written : image[a] # ByteAt(r.value, addr, a)
  <2>2. CASE end >= AddrSpace \/ clash
    BY <1>7, <2>1, <2>2 DEF RegionData
  <2>3. CASE ~(end >= AddrSpace \/ clash)
    <3>1. /\ image' = [a \in Region |-> IF a \in copied THEN ByteAt(r.value, addr, a) ELSE image[a]]
          /\ written' = written \cup copied
          /\ base' = base /\ outcome' = outcome
      BY <2>1, <2>3 DEF RegionData
    <3>2. SoFar'
      BY <1>1, <1>2, <1>10, <3>1, SoFarStep
    <3>3. ~(end >= AddrSpace) /\ \A a \in copied \cap written : image[a] = ByteAt(r.value, addr, a)
      BY <2>3
    <3>4. RegionSoFar'
      BY <1>1, <1>2, <1>10, <3>1, <3>3, RegionDataStep
    <3> QED
      BY <1>1, <1>8, <1>10, <3>1, <3>2, <3>4 DEF Reading
  <2> QED
    BY <2>2, <2>3
<1>11. CASE r.k \in {"linear", "segment", "start"}
  <2>1. /\ base' = IF r.k = "linear" THEN r.upper * OffsetSpan
                   ELSE IF r.k = "segment" THEN r.upper * SegmentStep
                   ELSE base
        /\ UNCHANGED <<segments, lo, hi, image, written, outcome>>
    BY <1>11 DEF ReadRecord, locals
  <2>2. SoFar'
    BY <1>1, <1>2, <2>1, SoFarStep
  <2>3. (ImageSoFar => ImageSoFar') /\ (RegionSoFar => RegionSoFar')
    BY <1>1, <1>2, <1>11, <2>1, NoDataStep
  <2> QED
    BY <1>1, <1>2, <1>8, <2>1, <2>2, <2>3 DEF Reading
<1>12. CASE r.k = "malformed"
  BY <1>7, <1>12 DEF ReadRecord
<1> QED
  BY <1>1, <1>9, <1>10, <1>11, <1>12, RecordIs

LEMMA TruncatedStep == HexInv /\ Truncated => HexInv'
<1> SUFFICES ASSUME HexInv, Truncated PROVE HexInv'
  OBVIOUS
<1>1. SoFar /\ outcome' = "error" /\ UNCHANGED <<reader, checked, file>>
  BY DEF HexInv, Reading, Truncated
<1>2. ~Ended'
  BY <1>1, NotEnded DEF Ended
<1>3. (~Ended /\ outcome = "error" => ImageExact /\ RegionExact)'
  BY FailsEarly, PTL
<1> QED
  BY <1>1, <1>2, <1>3 DEF HexInv

LEMMA ReturnedStep == HexInv /\ UNCHANGED vars => HexInv'
<1> SUFFICES ASSUME HexInv, UNCHANGED vars PROVE HexInv'
  OBVIOUS
<1>1. UNCHANGED <<reader, checked, file, base, segments, lo, hi, image, written, outcome, bytes>>
  BY DEF vars, locals
<1>2. \A i : BaseOf(i)' = BaseOf(i)
  BY <1>1 DEF BaseOf
<1>3. \A i : From(i)' = From(i)
  BY <1>1, <1>2 DEF From
<1>4. \A i : UpTo(i)' = UpTo(i) /\ \A a : Wrote(i, a)' = Wrote(i, a)
  BY <1>1, <1>3 DEF UpTo, Wrote
<1>5. Data' = Data
  BY <1>1 DEF Data
<1>6. \A a : Writers(a)' = Writers(a)
  BY <1>3, <1>4, <1>5 DEF Writers
<1>7. SoFar => SoFar'
  BY <1>1, <1>2, <1>3, <1>5 DEF SoFar
<1>8. ASSUME ImageSoFar PROVE ImageSoFar'
  <2>1. PICK place : Enumerates(place)
    BY <1>8 DEF ImageSoFar
  <2>2. Enumerates(place)'
    BY <1>1, <1>3, <1>5, <2>1 DEF Enumerates
  <2> QED
    BY <1>1, <1>3, <1>4, <1>5, <1>8, <2>2 DEF ImageSoFar
<1>9. RegionSoFar => RegionSoFar'
  BY <1>1, <1>4, <1>5, <1>6 DEF RegionSoFar
<1>10. (PastTop <=> PastTop') /\ (Ended <=> Ended')
  BY <1>1, <1>4, <1>5 DEF PastTop, Ended
<1>11. ImageExact'
  <2>1. {From(i)' : i \in Data'} = {From(i) : i \in Data} /\ {UpTo(i)' : i \in Data'} = {UpTo(i) : i \in Data}
    BY <1>3, <1>4, <1>5
  <2> QED
    BY <1>1, <1>4, <1>5, <1>6, <1>10, <2>1 DEF HexInv, ImageExact
<1>12. RegionExact'
  BY <1>1, <1>4, <1>6, <1>10 DEF HexInv, RegionExact
<1> QED
  BY <1>1, <1>7, <1>8, <1>9, <1>11, <1>12 DEF HexInv, Reading

----------------------------------------------------------------------------
(* The end of the file: the image.                                         *)

LEMMA SpansAre ==
    SoFar => \A i \in Data : /\ From(i) \in 0..(AddrSpace - 1)
                             /\ UpTo(i) \in Nat /\ From(i) <= UpTo(i) /\ UpTo(i) <= 2 * AddrSpace - 1
<1> SUFFICES ASSUME SoFar, NEW i \in Data
             PROVE  /\ From(i) \in 0..(AddrSpace - 1)
                    /\ UpTo(i) \in Nat /\ From(i) <= UpTo(i) /\ UpTo(i) <= 2 * AddrSpace - 1
  OBVIOUS
<1> DEFINE f == From(i)
           len == Len(file[i].value)
<1>1. f \in 0..(AddrSpace - 1) /\ len \in 0..OffsetSpan /\ UpTo(i) = f + len
  BY DEF SoFar, UpTo
<1> HIDE DEF f, len
<1>2. /\ f \in 0..(AddrSpace - 1)
      /\ UpTo(i) \in Nat /\ f <= UpTo(i) /\ UpTo(i) <= 2 * AddrSpace - 1
  BY <1>1, SpaceIs
<1> QED
  BY <1>2 DEF f

\* The segments span what the data records span.
LEMMA FitsIs ==
    ASSUME SoFar, ImageSoFar
    PROVE  /\ Fits <=> (checked => lo <= hi) /\ \A i \in Data : UpTo(i) - lo <= FlatSize
           /\ segments = <<>> <=> Data = {}
<1>1. PICK place : Enumerates(place)
  BY DEF ImageSoFar
<1>2. PICK m \in Nat : m = Len(segments)
  BY DEF ImageSoFar
<1>3. /\ \A j \in 1..m : /\ place[j] \in Data
                         /\ segments[j].addr = From(place[j]) /\ segments[j].value = file[place[j]].value
      /\ \A i \in Data : \E j \in 1..m : place[j] = i
  BY <1>1, <1>2 DEF Enumerates
<1>4. lo \in Int
  BY DEF ImageSoFar
<1>5. ASSUME NEW j \in 1..m
      PROVE  segments[j].addr - lo + Len(segments[j].value) = UpTo(place[j]) - lo
  <2> DEFINE f == From(place[j])
             len == Len(file[place[j]].value)
  <2>1. f \in Int /\ len \in Int
    BY <1>3 DEF SoFar
  <2>2. segments[j].addr = f /\ Len(segments[j].value) = len /\ UpTo(place[j]) = f + len
    BY <1>3 DEF UpTo
  <2> HIDE DEF f, len
  <2> QED
    BY <1>4, <2>1, <2>2
<1>6. (\A j \in 1..m : segments[j].addr - lo + Len(segments[j].value) <= FlatSize)
        <=> \A i \in Data : UpTo(i) - lo <= FlatSize
  BY <1>3, <1>5
<1>7. segments = <<>> <=> m = 0
  BY <1>2, EmptySeq DEF ImageSoFar
<1>8. m = 0 <=> Data = {}
  <2>1. m = 0 => 1..m = {}
    OBVIOUS
  <2>2. m # 0 => 1 \in 1..m
    OBVIOUS
  <2> QED
    BY <1>3, <2>1, <2>2
<1> QED
  BY <1>2, <1>6, <1>7, <1>8 DEF Fits

Low == Min({From(i) : i \in Data})
High == Max({UpTo(i) : i \in Data})

LEMMA LowIs ==
    ASSUME SoFar, ImageSoFar, Data # {}
    PROVE  Low = lo
<1> DEFINE S == {From(i) : i \in Data}
<1>1. S \in SUBSET Nat
  BY SpansAre
<1>2. lo \in S /\ \A y \in S : lo <= y
  BY DEF ImageSoFar
<1> HIDE DEF S
<1>3. Min(S) = lo
  BY <1>1, <1>2, MinEquals
<1> QED
  BY <1>3 DEF S, Low

LEMMA HighIs ==
    ASSUME SoFar, Data # {}
    PROVE  High \in Nat /\ (\E t \in Data : High = UpTo(t)) /\ \A i \in Data : UpTo(i) <= High
<1> DEFINE S == {UpTo(i) : i \in Data}
<1>1. S \in SUBSET Nat /\ S # {} /\ \A x \in S : x <= 2 * AddrSpace - 1
  BY SpansAre
<1>2. 2 * AddrSpace - 1 \in Nat
  BY SpaceIs
<1>3. (\A i \in Data : UpTo(i) \in S) /\ \A x \in S : \E i \in Data : x = UpTo(i)
  OBVIOUS
<1> HIDE DEF S
<1>4. Max(S) \in S /\ \A y \in S : y <= Max(S)
  BY <1>1, <1>2, MaxIs
<1>5. High = Max(S)
  BY DEF S, High
<1> QED
  BY <1>1, <1>3, <1>4, <1>5

\* Sums that stay inside the address space do not wrap.
LEMMA InsideSpace ==
    ASSUME SoFar, ImageSoFar, Data # {}, High < AddrSpace
    PROVE  Fits /\ lo <= High /\ FlatSize = High - lo
<1>1. High \in Nat /\ \A i \in Data : UpTo(i) <= High
  BY HighIs
<1>2. PICK t \in Data : High = UpTo(t)
  BY HighIs
<1>3. /\ lo \in 0..(AddrSpace - 1) /\ hi \in 0..(AddrSpace - 1)
      /\ \A i \in Data : lo <= From(i) /\ UpTo(i) % AddrSpace <= hi
      /\ hi = 0 \/ \E i \in Data : hi = UpTo(i) % AddrSpace
  BY DEF ImageSoFar
<1>4. \A i \in Data : From(i) \in Nat /\ UpTo(i) \in Nat /\ From(i) <= UpTo(i)
  BY SpansAre
<1>5. AddrSpace \in Nat
  BY SpaceIs
<1>6. ASSUME NEW i \in Data PROVE UpTo(i) % AddrSpace = UpTo(i)
  <2>1. UpTo(i) \in 0..(AddrSpace - 1)
    BY <1>1, <1>4, <1>5
  <2> QED
    BY <2>1, WrapIs
<1>7. hi = High
  <2>1. High <= hi
    BY <1>2, <1>3, <1>6
  <2>2. hi <= High
    <3>1. CASE hi = 0
      BY <1>1, <3>1
    <3>2. CASE \E i \in Data : hi = UpTo(i) % AddrSpace
      BY <1>1, <1>6, <3>2
    <3> QED
      BY <1>3, <3>1, <3>2
  <2> QED
    BY <1>1, <1>3, <2>1, <2>2
<1>8. lo <= High
  <2>1. lo <= From(t) /\ From(t) <= High /\ From(t) \in Nat
    BY <1>2, <1>3, <1>4
  <2> QED
    BY <1>1, <1>3, <2>1
<1>9. FlatSize = High - lo
  <2>1. High - lo \in 0..(AddrSpace - 1)
    BY <1>1, <1>3, <1>5, <1>8
  <2>2. (High - lo) % AddrSpace = High - lo
    BY <2>1, WrapIs
  <2> QED
    BY <1>7, <2>2 DEF FlatSize
<1>10. \A i \in Data : UpTo(i) - lo <= FlatSize
  BY <1>1, <1>3, <1>4, <1>9
<1> QED
  BY <1>7, <1>8, <1>9, <1>10, FitsIs

\* A release build that returns an image past the top has wrapped every sum
\* that it takes the size from, and the size comes out right.
LEMMA PastSpace ==
    ASSUME SoFar, ImageSoFar, Data # {}, Fits, High >= AddrSpace
    PROVE  lo <= High /\ FlatSize = High - lo
<1> DEFINE A == AddrSpace
<1>1. High \in Nat /\ High <= 2 * A - 1 /\ \A i \in Data : UpTo(i) <= High
  BY HighIs, SpansAre
<1>2. PICK t \in Data : High = UpTo(t)
  BY HighIs
<1>3. /\ lo \in 0..(A - 1) /\ hi \in 0..(A - 1)
      /\ \A i \in Data : lo <= From(i) /\ UpTo(i) % A <= hi
      /\ hi = 0 \/ \E i \in Data : hi = UpTo(i) % A
  BY DEF ImageSoFar
<1>4. \A i \in Data : From(i) \in Nat /\ UpTo(i) \in Nat /\ From(i) <= UpTo(i) /\ UpTo(i) <= 2 * A - 1
  BY SpansAre
<1>5. A \in Nat \ {0}
  BY SpaceIs
<1>6. High - lo <= FlatSize
  BY <1>2, FitsIs
<1>7. hi - lo \in Int /\ FlatSize = (hi - lo) % A /\ FlatSize \in 0..(A - 1)
  <2>1. hi - lo \in Int
    BY <1>3, <1>5
  <2> QED
    BY <1>5, <2>1 DEF FlatSize
<1>8. High % A = High - A /\ High - A <= hi
  <2>1. High \in A..(2 * A - 1)
    BY <1>1, <1>5
  <2>2. High % A = High - A
    BY <2>1, WrapIs
  <2> QED
    BY <1>2, <1>3, <2>2
<1>9. hi <= High - A
  <2>1. CASE hi = 0
    BY <1>1, <1>5, <2>1
  <2>2. ASSUME NEW i \in Data, hi = UpTo(i) % A
        PROVE  hi <= High - A
    <3>1. UpTo(i) \in Nat /\ UpTo(i) <= High /\ lo <= From(i) /\ From(i) <= UpTo(i) /\ From(i) \in Nat
      BY <1>1, <1>3, <1>4
    <3>2. CASE UpTo(i) >= A
      <4>1. UpTo(i) \in A..(2 * A - 1)
        BY <1>1, <1>5, <3>1, <3>2
      <4>2. UpTo(i) % A = UpTo(i) - A
        BY <4>1, WrapIs
      <4> QED
        BY <1>1, <1>5, <2>2, <3>1, <4>2
    <3>3. CASE UpTo(i) < A
      <4>1. UpTo(i) \in 0..(A - 1)
        BY <1>5, <3>1, <3>3
      <4>2. hi = UpTo(i)
        BY <2>2, <4>1, WrapIs
      <4>3. hi - lo \in 0..(A - 1)
        BY <1>3, <1>5, <3>1, <4>1, <4>2
      <4>4. FlatSize = hi - lo
        BY <1>7, <4>3, WrapIs
      <4>5. hi < High
        BY <1>1, <1>5, <4>1, <4>2
      <4> QED
        BY <1>1, <1>3, <1>5, <1>6, <4>4, <4>5
    <3> QED
      BY <1>5, <3>1, <3>2, <3>3
  <2> QED
    BY <1>3, <2>1, <2>2
<1>10. hi = High - A
  BY <1>1, <1>3, <1>5, <1>8, <1>9
<1>11. lo <= High
  BY <1>1, <1>3, <1>5
<1>12. hi - lo \in (-A)..(-1)
  BY <1>1, <1>3, <1>5, <1>6, <1>7, <1>10, <1>11
<1>13. FlatSize = hi - lo + A
  BY <1>7, <1>12, WrapIs
<1> QED
  BY <1>1, <1>3, <1>5, <1>10, <1>11, <1>13

LEMMA SizeIs ==
    ASSUME SoFar, ImageSoFar, Data # {}
    PROVE  /\ ~Fits => PastTop
           /\ Fits => lo <= High /\ FlatSize = High - lo
<1>1. High \in Nat /\ AddrSpace \in Nat
  BY HighIs, SpaceIs
<1>2. PICK t \in Data : High = UpTo(t)
  BY HighIs
<1>3. CASE High < AddrSpace
  BY <1>3, InsideSpace
<1>4. CASE High >= AddrSpace
  BY <1>2, <1>4, PastSpace DEF PastTop
<1> QED
  BY <1>1, <1>3, <1>4

\* Later segments overwrite earlier ones, as later records do.
LastWrote(a) == IF Writers(a) = {} THEN Erased ELSE Wrote(Max(Writers(a)), a)

LEMMA FlattenIs ==
    ASSUME SoFar, ImageSoFar
    PROVE  Flatten = [i \in 1..FlatSize |-> LastWrote(lo + i - 1)]
<1>1. PICK place : Enumerates(place)
  BY DEF ImageSoFar
<1>2. PICK m \in Nat : m = Len(segments)
  BY DEF ImageSoFar
<1>3. PICK n \in Nat : n = Len(file)
  BY DEF SoFar
<1>4. /\ \A j \in 1..m : /\ place[j] \in Data
                         /\ segments[j].addr = From(place[j]) /\ segments[j].value = file[place[j]].value
      /\ \A j, k \in 1..m : j < k => place[j] < place[k]
      /\ \A i \in Data : \E j \in 1..m : place[j] = i
  BY <1>1, <1>2 DEF Enumerates
<1>5. lo \in Int /\ \A i \in Data : i \in Nat
  <2>1. Data \subseteq 1..n
    BY <1>3 DEF Data
  <2> QED
    BY <2>1 DEF ImageSoFar
<1>6. \A i \in Data : From(i) \in Int /\ Len(file[i].value) \in Nat
  BY DEF SoFar
<1> DEFINE Covers(i) == {j \in 1..Len(segments) :
                           i - (segments[j].addr - lo) \in 1..Len(segments[j].value)}
           Byte(i) == IF Covers(i) = {} THEN Erased
                      ELSE segments[Max(Covers(i))].value[i - (segments[Max(Covers(i))].addr - lo)]
           Meant(i) == LastWrote(lo + i - 1)
<1>7. Flatten = [i \in 1..FlatSize |-> Byte(i)]
  BY DEF Flatten
<1>8. ASSUME NEW i \in Int PROVE Byte(i) = Meant(i)
  <2> DEFINE a == lo + i - 1
             C == Covers(i)
             W == Writers(a)
  <2>1. a \in Int
    BY <1>5
  <2>2. C \subseteq 1..m
    BY <1>2
  <2>3. ASSUME NEW j \in 1..m PROVE j \in C <=> place[j] \in W
    <3> DEFINE f == From(place[j])
               len == Len(file[place[j]].value)
    <3>1. f \in Int /\ len \in Nat /\ place[j] \in Data /\ UpTo(place[j]) = f + len
      BY <1>4, <1>6 DEF UpTo
    <3>2. segments[j].addr = f /\ Len(segments[j].value) = len
      BY <1>4
    <3>3. j \in C <=> i - (f - lo) \in 1..len
      BY <1>2, <3>2
    <3>4. place[j] \in W <=> f <= a /\ a < f + len
      BY <3>1, WritersAre DEF WriterOf
    <3> HIDE DEF f, len
    <3>5. i - (f - lo) \in 1..len <=> f <= a /\ a < f + len
      BY <1>5, <3>1
    <3> QED
      BY <3>3, <3>4, <3>5
  <2>4. \A w \in W : w \in Data /\ \E j \in 1..m : place[j] = w
    BY <1>4, WritersAre DEF WriterOf
  <2>5. C = {} <=> W = {}
    BY <2>2, <2>3, <2>4
  <2>6. CASE C # {}
    <3> DEFINE x == Max(C)
    <3>1. C \in SUBSET Nat /\ \A y \in C : y <= m
      BY <2>2
    <3> HIDE DEF C, W, a
    <3>2. x \in C /\ \A y \in C : y <= x
      BY <1>2, <2>6, <3>1, MaxIs
    <3>3. x \in 1..m
      BY <2>2, <3>2
    <3> HIDE DEF x
    <3>4. place[x] \in W
      BY <2>3, <3>2, <3>3
    <3>5. ASSUME NEW w \in W PROVE w <= place[x]
      <4>1. PICK k \in 1..m : place[k] = w
        BY <2>4
      <4>2. k <= x
        BY <2>3, <3>2, <4>1
      <4>3. k \in Nat /\ x \in Nat /\ place[x] \in Nat /\ place[k] \in Nat
        BY <1>4, <1>5, <3>3
      <4>4. CASE k = x
        BY <4>1, <4>3, <4>4
      <4>5. CASE k < x
        BY <1>4, <3>3, <4>1, <4>3, <4>5
      <4> QED
        BY <4>2, <4>3, <4>4, <4>5
    <3>6. W \in SUBSET Nat
      BY <1>5, <2>4
    <3>7. Max(W) = place[x]
      BY <3>4, <3>5, <3>6, MaxEquals
    <3>8. segments[x].addr = From(place[x]) /\ segments[x].value = file[place[x]].value /\ From(place[x]) \in Int
      BY <1>4, <1>6, <3>3
    <3>9. i - (segments[x].addr - lo) = a - From(place[x]) + 1
      BY <1>5, <3>8 DEF a
    <3>10. Byte(i) = segments[x].value[i - (segments[x].addr - lo)]
      BY <2>6 DEF C, x
    <3>11. Meant(i) = Wrote(place[x], a)
      BY <2>5, <2>6, <3>7 DEF W, a, LastWrote
    <3> QED
      BY <3>8, <3>9, <3>10, <3>11 DEF Wrote
  <2>7. CASE C = {}
    BY <2>5, <2>7 DEF LastWrote
  <2> QED
    BY <2>6, <2>7
<1> HIDE DEF Byte, Meant
<1>9. FlatSize \in Int
  <2>1. hi - lo \in Int
    BY <1>5, SpaceIs DEF ImageSoFar
  <2> QED
    BY <2>1, SpaceIs DEF FlatSize
<1>10. [i \in 1..FlatSize |-> Byte(i)] = [i \in 1..FlatSize |-> Meant(i)]
  BY <1>8, <1>9
<1> QED
  BY <1>7, <1>10 DEF Meant

\* parse_intel_hex reaches the end of the file.
LEMMA ImageEnds ==
    ASSUME SoFar, ImageSoFar, reader = "image", ReadEof
    PROVE  /\ outcome' \in {"error", "panic", "ok"}
           /\ outcome' = "ok" =>
                bytes' = [i \in 1..High - Low |-> LastWrote(Low + i - 1)]
           /\ outcome' = "panic" => PastTop
           /\ outcome' = "error" => Data = {}
<1>1. CASE segments = <<>>
  <2>1. outcome' = "error"
    BY <1>1 DEF ReadEof
  <2> QED
    BY <1>1, <2>1, FitsIs
<1>2. CASE segments # <<>> /\ ~Fits
  <2>1. outcome' = "panic"
    BY <1>2 DEF ReadEof
  <2>2. PastTop
    BY <1>2, FitsIs, SizeIs
  <2> QED
    BY <2>1, <2>2
<1>3. CASE segments # <<>> /\ Fits
  <2>1. outcome' = "ok"
    BY <1>3 DEF ReadEof
  <2>2. bytes' = Flatten
    BY <2>1 DEF ReadEof
  <2>3. Low = lo /\ FlatSize = High - Low
    BY <1>3, FitsIs, SizeIs, LowIs
  <2>4. Flatten = [i \in 1..High - Low |-> LastWrote(Low + i - 1)]
    BY <2>3, FlattenIs
  <2> QED
    BY <2>1, <2>2, <2>4
<1> QED
  BY <1>1, <1>2, <1>3

----------------------------------------------------------------------------
(* The end of the file: the region.                                        *)

Agree == \A a \in Region : \A i, j \in Writers(a) : Wrote(i, a) = Wrote(j, a)
Touched == \E a \in Region : Writers(a) # {}

LEMMA RegionEnds ==
    ASSUME SoFar, RegionSoFar, reader = "region", ReadEof
    PROVE  /\ outcome' \in {"error", "ok"}
           /\ outcome' = "ok" =>
                /\ Len(bytes') = RegionSize
                /\ \A a \in Region :
                     IF Writers(a) = {} THEN bytes'[a - RegionStart + 1] = Erased
                     ELSE \A i \in Writers(a) : bytes'[a - RegionStart + 1] = Wrote(i, a)
           /\ outcome' = "ok" <=> Agree /\ Touched /\ ~PastTop
<1>1. outcome' = IF written = {} THEN "error" ELSE "ok"
  BY DEF ReadEof
<1>2. /\ written = {a \in Region : Writers(a) # {}}
      /\ \A a \in Region : /\ Writers(a) = {} => image[a] = Erased
                           /\ \A i \in Writers(a) : image[a] = Wrote(i, a)
      /\ \A i \in Data : UpTo(i) < AddrSpace
  BY DEF RegionSoFar
<1>3. Agree
  BY <1>2 DEF Agree
<1>4. written # {} <=> Touched
  BY <1>2 DEF Touched
<1>5. ~PastTop
  <2>1. ASSUME NEW i \in Data PROVE ~(UpTo(i) >= AddrSpace)
    <3>1. UpTo(i) \in Int /\ UpTo(i) < AddrSpace /\ AddrSpace \in Int
      BY <1>2, SpansAre, SpaceIs
    <3> QED
      BY <3>1
  <2> QED
    BY <2>1 DEF PastTop
<1>6. ASSUME outcome' = "ok"
      PROVE  /\ Len(bytes') = RegionSize
             /\ \A a \in Region : bytes'[a - RegionStart + 1] = image[a]
  <2>1. bytes' = [i \in 1..RegionSize |-> image[RegionStart + i - 1]]
    BY <1>6 DEF ReadEof
  <2>2. RegionSize \in Nat /\ RegionStart \in Nat
    BY HexAssumption
  <2>3. Len(bytes') = RegionSize
    BY <2>1, <2>2
  <2>4. ASSUME NEW a \in Region PROVE bytes'[a - RegionStart + 1] = image[a]
    <3>1. a \in Int /\ a - RegionStart + 1 \in 1..RegionSize
      BY <2>2 DEF Region
    <3>2. RegionStart + (a - RegionStart + 1) - 1 = a
      BY <2>2, <3>1
    <3> QED
      BY <2>1, <3>1, <3>2
  <2> QED
    BY <2>3, <2>4
<1> QED
  BY <1>1, <1>2, <1>3, <1>4, <1>5, <1>6

LEMMA EofStep == HexInv /\ ReadEof => HexInv'
<1> SUFFICES ASSUME HexInv, ReadEof PROVE HexInv'
  OBVIOUS
<1> DEFINE r == [k |-> "eof"]
<1>1. /\ outcome = "reading" /\ file' = Append(file, r) /\ reader' = reader /\ checked' = checked
      /\ reader \in {"image", "region"} /\ checked \in BOOLEAN
  BY DEF ReadEof, HexInv
<1>2. SoFar /\ (reader = "image" => ImageSoFar) /\ (reader = "region" => RegionSoFar)
  BY <1>1 DEF HexInv, Reading
<1>3. PICK n \in Nat : n = Len(file)
  BY <1>2 DEF SoFar
<1>4. file \in Seq(Records) /\ Len(file) = n
  BY <1>2, <1>3 DEF SoFar
<1>5. r.k = "eof"
  OBVIOUS
<1> HIDE DEF r
<1>6. /\ Data' = Data
      /\ \A i \in Data : /\ From(i)' = From(i) /\ UpTo(i)' = UpTo(i)
                         /\ \A a : Wrote(i, a)' = Wrote(i, a)
  BY <1>1, <1>4, <1>5, DataIs
<1>7. \A a : Writers(a)' = Writers(a)
  BY <1>6 DEF Writers
<1>8. \A a : \A i \in Writers(a) : i \in Data /\ Wrote(i, a)' = Wrote(i, a)
  BY <1>6 DEF Writers
<1>9. PastTop' <=> PastTop
  BY <1>6 DEF PastTop
<1>10. reader' \in {"image", "region"} /\ checked' \in BOOLEAN
  BY <1>1
<1>11. CASE reader = "image"
  <2>1. /\ outcome' \in {"error", "panic", "ok"}
        /\ outcome' = "ok" =>
             bytes' = [i \in 1..High - Low |-> LastWrote(Low + i - 1)]
        /\ outcome' = "panic" => PastTop
        /\ outcome' = "error" => Data = {}
    BY <1>2, <1>11, ImageEnds
  <2>2. Low' = Low /\ High' = High
    <3>1. {From(i)' : i \in Data'} = {From(i) : i \in Data} /\ {UpTo(i)' : i \in Data'} = {UpTo(i) : i \in Data}
      BY <1>6
    <3> QED
      BY <3>1 DEF Low, High
  <2>3. ASSUME NEW a PROVE LastWrote(a)' = LastWrote(a)
    <3>1. CASE Writers(a) # {}
      <4> DEFINE m == Max(Writers(a))
      <4>1. m \in Writers(a)
        <5>1. Writers(a) \in SUBSET Nat /\ \A x \in Writers(a) : x <= n
          BY <1>4 DEF Writers, Data
        <5> QED
          BY <1>3, <3>1, <5>1, MaxIs
      <4>2. PICK w \in Writers(a) : w = m
        BY <4>1
      <4>3. Wrote(w, a)' = Wrote(w, a)
        BY <1>8
      <4>4. Max(Writers(a)') = w
        BY <1>7, <4>2
      <4> QED
        BY <1>7, <3>1, <4>2, <4>3, <4>4 DEF LastWrote
    <3>2. CASE Writers(a) = {}
      BY <1>7, <3>2 DEF LastWrote
    <3> QED
      BY <3>1, <3>2
  <2>4. ImageExact'
    <3> PICK low, high : low = Low /\ high = High
      OBVIOUS
    <3>1. Low' = low /\ High' = high
      BY <2>2
    <3>2. outcome' = "ok" => bytes' = [i \in 1..high - low |-> LastWrote(low + i - 1)']
      BY <2>1, <2>3
    <3>3. (outcome' = "panic" => PastTop') /\ (outcome' = "error" => Data' = {})
      BY <1>6, <1>9, <2>1
    <3> QED
      BY <1>1, <3>1, <3>2, <3>3 DEF ImageExact, Low, High, LastWrote
  <2> QED
    BY <1>1, <1>10, <1>11, <2>1, <2>4 DEF HexInv, RegionExact
<1>12. CASE reader = "region"
  <2>1. /\ outcome' \in {"error", "ok"}
        /\ outcome' = "ok" =>
             /\ Len(bytes') = RegionSize
             /\ \A a \in Region :
                  IF Writers(a) = {} THEN bytes'[a - RegionStart + 1] = Erased
                  ELSE \A i \in Writers(a) : bytes'[a - RegionStart + 1] = Wrote(i, a)
        /\ outcome' = "ok" <=> Agree /\ Touched /\ ~PastTop
    BY <1>2, <1>12, RegionEnds
  <2>2. RegionExact'
    BY <1>1, <1>6, <1>7, <1>8, <1>9, <2>1 DEF RegionExact, Agree, Touched
  <2> QED
    BY <1>1, <1>10, <1>12, <2>1, <2>2 DEF HexInv, ImageExact
<1> QED
  BY <1>1, <1>11, <1>12

----------------------------------------------------------------------------
(* The theorems.                                                           *)

LEMMA HexStep == HexInv /\ [Next]_vars => HexInv'
<1> SUFFICES ASSUME HexInv, [Next]_vars PROVE HexInv'
  OBVIOUS
<1>1. CASE \E r \in Records : ReadRecord(r)
  BY <1>1, RecordStep
<1>2. CASE Truncated
  BY <1>2, TruncatedStep
<1>3. CASE ReadEof
  BY <1>3, EofStep
<1>4. CASE Returned
  BY <1>4, ReturnedStep DEF Returned
<1>5. CASE UNCHANGED vars
  BY <1>5, ReturnedStep
<1> QED
  BY <1>1, <1>2, <1>3, <1>4, <1>5 DEF Next

\* While a reader reads, its state is a function of the records so far: the
\* segments of parse_intel_hex are the data records in order with their lowest
\* address and their highest wrapped end, the region of
\* extract_bootloader_region_from_hex is what the records agree on.
THEOREM HexInvariant == Spec => []HexInv
BY HexStart, HexStep, PTL DEF Spec

\* parse_intel_hex returns the image the records describe, for every file,
\* every address space and either build; it panics only on data that end at or
\* past the top of the address space, and fails on a complete file only when
\* the file holds no data.
THEOREM FlatImageExact == Spec => []ImageExact
BY HexInvariant, PTL DEF HexInv

\* extract_bootloader_region_from_hex never panics, accepts a file exactly when
\* its data agree inside the region, touch it and end inside the address space,
\* and then returns the file's bytes there and erased bytes elsewhere.
THEOREM RegionIsExact == Spec => []RegionExact
BY HexInvariant, PTL DEF HexInv

=============================================================================
