------------------------------ MODULE HexInput ------------------------------
(***************************************************************************)
(* Firmware images from Intel HEX: parse_intel_hex (src/input.rs) flattens *)
(* a whole file, extract_bootloader_region_from_hex (src/bootloader.rs)    *)
(* cuts out the bootloader's region.  Both read record by record and keep  *)
(* an address base; they differ in what they do about overlapping data and *)
(* about addresses at the top of the 32-bit space.                         *)
(*                                                                         *)
(* Addresses are scaled: AddrSpace stands for 2^32, OffsetSpan for 2^16,   *)
(* SegmentStep for 1 << 4.  The ihex crate, which splits the text into     *)
(* records, is not part of the repository; the records are the input.      *)
(***************************************************************************)
EXTENDS Integers, Sequences, FiniteSetsExt

CONSTANTS
    AddrSpace, OffsetSpan, SegmentStep,
    RegionStart, RegionSize,  \* IMAGE_START, IMAGE_SIZE
    Erased,                   \* 0xFF
    Values,                   \* contents of a data record
    MaxRecords                \* bound on the records before the end of file

ASSUME HexAssumption ==
    /\ OffsetSpan \in Nat \ {0} /\ OffsetSpan * OffsetSpan = AddrSpace /\ SegmentStep \in 1..OffsetSpan
    /\ RegionStart \in Nat /\ RegionSize \in Nat /\ RegionStart + RegionSize < AddrSpace
    /\ \A v \in Values : Len(v) \in 0..OffsetSpan

VARIABLES
    reader,    \* "image" or "region"
    checked,   \* arithmetic overflow panics (debug build) or wraps (release)
    file,      \* the records read
    base,
    segments, lo, hi,  \* parse_intel_hex
    image, written,    \* the region: offset -> byte; offsets written
    outcome,   \* "reading", "error", "panic" or "ok"
    bytes      \* what is returned

locals == <<base, segments, lo, hi, image, written>>
vars == <<reader, checked, file, locals, outcome, bytes>>

Records ==
    [k : {"data"}, off : 0..OffsetSpan - 1, value : Values]
      \cup [k : {"linear", "segment"}, upper : 0..OffsetSpan - 1]
      \cup [k : {"start", "malformed"}]

Greater(a, b) == IF a < b THEN b ELSE a
Smaller(a, b) == IF a < b THEN a ELSE b
Region == RegionStart..RegionStart + RegionSize - 1

----------------------------------------------------------------------------
Init ==
    /\ reader \in {"image", "region"} /\ checked \in BOOLEAN
    /\ file = <<>>
    /\ base = 0
    /\ segments = <<>> /\ lo = AddrSpace - 1 /\ hi = 0
    /\ image = [a \in Region |-> Erased] /\ written = {}
    /\ outcome = "reading" /\ bytes = <<>>

\* MUTANT of Highest: the end of the last record, not of the highest
HighestLast(end) == end
Highest(end) == Greater(hi, end)

\* parse_intel_hex, Record::Data: addr + len is not checked
ImageData(r) ==
    LET addr == base + r.off
        end == addr + Len(r.value)
    IN  IF checked /\ end >= AddrSpace
          THEN outcome' = "panic" /\ UNCHANGED locals
          ELSE /\ lo' = Smaller(lo, addr)
               /\ hi' = Highest(end % AddrSpace)
               /\ segments' = Append(segments, [addr |-> addr, value |-> r.value])
               /\ UNCHANGED <<base, image, written, outcome>>

\* The byte of a record that belongs at an address
\* MUTANT of ByteAt: a record clipped at the start of the region is copied from its first byte
ByteAtUnclipped(value, addr, a) == value[a - Greater(addr, RegionStart) + 1]
ByteAt(value, addr, a) == value[a - addr + 1]

\* extract_bootloader_region_from_hex, Record::Data
RegionData(r) ==
    LET addr == base + r.off
        end == addr + Len(r.value)
        copied == Region \cap addr..end - 1
    IN  IF \/ end >= AddrSpace
           \/ \E a \in copied \cap written : image[a] # ByteAt(r.value, addr, a)
          THEN outcome' = "error" /\ UNCHANGED locals
          ELSE /\ image' = [a \in Region |-> IF a \in copied THEN ByteAt(r.value, addr, a) ELSE image[a]]
               /\ written' = written \cup copied
               /\ UNCHANGED <<base, segments, lo, hi, outcome>>

\* One record before the end of file
ReadRecord(r) ==
    /\ outcome = "reading" /\ Len(file) < MaxRecords
    /\ file' = Append(file, r)
    /\ CASE r.k = "data" -> IF reader = "image" THEN ImageData(r) ELSE RegionData(r)
         [] r.k = "linear" -> /\ base' = r.upper * OffsetSpan
                              /\ UNCHANGED <<segments, lo, hi, image, written, outcome>>
         [] r.k = "segment" -> /\ base' = r.upper * SegmentStep
                               /\ UNCHANGED <<segments, lo, hi, image, written, outcome>>
         [] r.k = "start" -> UNCHANGED <<locals, outcome>>
         [] OTHER -> outcome' = "error" /\ UNCHANGED locals
    /\ UNCHANGED <<reader, checked, bytes>>

\* The text ends without an end-of-file record
Truncated ==
    /\ outcome = "reading"
    /\ outcome' = "error"
    /\ UNCHANGED <<reader, checked, file, locals, bytes>>

\* vec![0xFF; hi - lo], then every segment in the order of the file
FlatSize == (hi - lo) % AddrSpace
Fits ==
    /\ checked => lo <= hi
    /\ \A j \in 1..Len(segments) : segments[j].addr - lo + Len(segments[j].value) <= FlatSize

Flatten ==
    LET Covers(i) == {j \in 1..Len(segments) :
                        i - (segments[j].addr - lo) \in 1..Len(segments[j].value)}
    IN  [i \in 1..FlatSize |->
            IF Covers(i) = {} THEN Erased
            ELSE LET s == segments[Max(Covers(i))] IN s.value[i - (s.addr - lo)]]

\* The end-of-file record: what follows it is not read
ReadEof ==
    /\ outcome = "reading"
    /\ outcome' = CASE reader = "image" /\ segments = <<>>           -> "error"
                    [] reader = "image" /\ segments # <<>> /\ ~Fits -> "panic"
                    [] reader = "region" /\ written = {}             -> "error"
                    [] OTHER                                         -> "ok"
    /\ bytes' = IF outcome' # "ok" THEN <<>>
                ELSE IF reader = "image" THEN Flatten
                ELSE [i \in 1..RegionSize |-> image[RegionStart + i - 1]]
    /\ file' = Append(file, [k |-> "eof"])
    /\ UNCHANGED <<reader, checked, locals>>

Returned == outcome # "reading" /\ UNCHANGED vars

Next == (\E r \in Records : ReadRecord(r)) \/ Truncated \/ ReadEof \/ Returned

Spec == Init /\ [][Next]_vars

----------------------------------------------------------------------------
(* What the records mean, from the file alone.                             *)

BaseOf(i) ==
    LET ext == {j \in 1..i : file[j].k \in {"linear", "segment"}}
    IN  IF ext = {} THEN 0
        ELSE file[Max(ext)].upper * (IF file[Max(ext)].k = "linear" THEN OffsetSpan ELSE SegmentStep)

Data == {i \in 1..Len(file) : file[i].k = "data"}
From(i) == BaseOf(i) + file[i].off
UpTo(i) == From(i) + Len(file[i].value)
Writers(a) == {i \in Data : From(i) <= a /\ a < UpTo(i)}
Wrote(i, a) == file[i].value[a - From(i) + 1]
PastTop == \E i \in Data : UpTo(i) >= AddrSpace

Ended == Len(file) > 0 /\ file[Len(file)].k = "eof"

\* A flattened image spans the data of the file from the lowest to the highest
\* address, the last record that covers a byte decides it, and gaps are
\* erased, also for data that ends at the top of the address space, where the
\* unchecked sums wrap or panic; nothing else makes parse_intel_hex panic.
ImageExact ==
    reader = "image" =>
        /\ outcome = "ok" =>
             LET low == Min({From(i) : i \in Data})
                 high == Max({UpTo(i) : i \in Data})
             IN  bytes = [n \in 1..high - low |->
                              LET w == Writers(low + n - 1)
                              IN  IF w = {} THEN Erased ELSE Wrote(Max(w), low + n - 1)]
        /\ outcome = "panic" => PastTop
        /\ Ended /\ outcome = "error" => Data = {}

\* An extracted region holds every byte the file has for it and is erased
\* elsewhere, whatever the records are clipped to; a file is accepted if and
\* only if its data agree with each other inside the region, touch it and
\* stay inside the address space.
RegionExact ==
    reader = "region" =>
        LET agree == \A a \in Region : \A i, j \in Writers(a) : Wrote(i, a) = Wrote(j, a)
            touched == \E a \in Region : Writers(a) # {}
        IN  /\ outcome # "panic"
            /\ outcome = "ok" =>
                 /\ Len(bytes) = RegionSize
                 /\ \A a \in Region :
                      LET byte == bytes[a - RegionStart + 1]
                      IN  IF Writers(a) = {} THEN byte = Erased
                          ELSE \A i \in Writers(a) : byte = Wrote(i, a)
            /\ Ended => (outcome = "ok" <=> agree /\ touched /\ ~PastTop)
=============================================================================
