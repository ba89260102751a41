------------------------------- MODULE Bsdiff -------------------------------
(***************************************************************************)
(* bsdiff (src/encode.rs): the loop that turns a base and a target image   *)
(* into control triples (diff, extra, seek).  Which match the suffix array *)
(* offers at a position is left open: any position of the base may be      *)
(* offered, with the length that really matches there.  encode.rs states   *)
(* that a shorter match "just yields a larger (still exact) patch", and    *)
(* this module is where that is checked; DeltaEncode adds the search.      *)
(*                                                                         *)
(* The detools decoder, which is not part of the repository, runs in lock  *)
(* step: out and cursor are what it has written and where it reads after   *)
(* the triples emitted so far.  Indices are 0-based as in the source.      *)
(***************************************************************************)
EXTENDS Integers, Sequences, FiniteSets

CONSTANTS
    LowBase,  \* 64: values of the low bits in the first byte of a size
    Slack     \* 8: how much longer than the old alignment a match must be

ASSUME BsdiffAssumption == LowBase \in Nat \ {0} /\ Slack \in Nat

Base == 4 * LowBase
Byte == 0..Base - 1

VARIABLES
    pc,          \* "ready", "outer", "inner", "emit" or "done"
    from, to,    \* the arguments
    scan, len, pos, lastscan, lastpos, lastoffset, oldscore, scsc,
    body,        \* the triples emitted
    out, cursor  \* the decoder

args == <<from, to>>
last == <<lastscan, lastpos, lastoffset>>
decoder == <<out, cursor>>
bsdiffVars == <<pc, args, scan, len, pos, last, oldscore, scsc, body, decoder>>

----------------------------------------------------------------------------
At(s, i) == s[i + 1]
Slice(s, i, j) == SubSeq(s, i + 1, j)
Least(i, j) == IF i <= j THEN i ELSE j
Greatest(i, j) == IF i <= j THEN j ELSE i

\* u8::wrapping_sub, and the addition with which the decoder undoes it
Minus(t, f) == IF t >= f THEN t - f ELSE t - f + Base
Plus(f, d) == IF f + d < Base THEN f + d ELSE f + d - Base

\* The diff of n bytes of t at s from f at p, and f at p with a diff added
Difference(t, s, f, p, n) == [i \in 1..n |-> Minus(t[s + i], f[p + i])]
Patched(f, p, diff) == [i \in 1..Len(diff) |-> Plus(f[p + i], diff[i])]

\* l is matchlen(from[p..], to[s..])
IsMatchLen(l, p, s) ==
    /\ Slice(from, p, p + l) = Slice(to, s, s + l)
    /\ p + l < Len(from) /\ s + l < Len(to) => At(from, p + l) # At(to, s + l)

\* to[i] is what the alignment of the last match predicts
Aligned(i) == i + lastoffset < Len(from) /\ At(from, i + lastoffset) = At(to, i)

Matches(p, s, n) == Cardinality({i \in 0..n - 1 : At(from, p + i) = At(to, s + i)})

\* i is the first of 0..n with the greatest Score, what a scan that replaces
\* its candidate on a strict improvement ends with
FirstBest(i, n, Score(_)) ==
    /\ i \in 0..n
    /\ \A j \in 0..n : Score(j) < Score(i) \/ (Score(j) = Score(i) /\ i <= j)

IsForward(f) ==
    FirstBest(f, Least(scan - lastscan, Len(from) - lastpos),
              LAMBDA i : 2 * Matches(lastpos, lastscan, i) - i)

IsBackward(b) ==
    IF scan < Len(to)
      THEN FirstBest(b, Least(scan - lastscan, pos),
                     LAMBDA i : 2 * Matches(pos - i, scan - i, i) - i)
      ELSE b = 0

Overlap(f, b) == Greatest(0, (lastscan + f) - (scan - b))

\* l bytes of the overlap stay with the forward region
IsSplit(l, f, b) ==
    LET o == Overlap(f, b)
    IN  FirstBest(l, o, LAMBDA i : Matches(lastpos + f - o, lastscan + f - o, i)
                                     - Matches(pos - b, scan - b, i))

----------------------------------------------------------------------------
\* bsdiff(from, to, body) is called
Start(f, t) ==
    /\ pc \in {"ready", "done"}
    /\ pc' = "outer"
    /\ from' = f /\ to' = t
    /\ scan' = 0 /\ len' = 0 /\ pos' = 0
    /\ lastscan' = 0 /\ lastpos' = 0 /\ lastoffset' = 0
    /\ oldscore' = 0 /\ scsc' = 0
    /\ body' = <<>> /\ out' = <<>> /\ cursor' = 0

\* scan += len: the match just found is skipped
\* MUTANT of PastMatch: it is not
PastMatchStays == scan
PastMatch == scan + len

\* while scan < newsize
Outer ==
    /\ pc = "outer"
    /\ IF scan < Len(to)
         THEN pc' = "inner" /\ oldscore' = 0 /\ scan' = PastMatch /\ scsc' = PastMatch
         ELSE pc' = "done" /\ UNCHANGED <<oldscore, scan, scsc>>
    /\ UNCHANGED <<args, len, pos, last, body, decoder>>

\* One turn of the inner loop, in which search offers l bytes at p
Scan(l, p) ==
    /\ pc = "inner" /\ scan < Len(to)
    /\ len' = l /\ pos' = p
    /\ scsc' = Greatest(scsc, scan + l)
    /\ LET score == oldscore + Cardinality({i \in scsc..scan + l - 1 : Aligned(i)})
       IN  IF (l = score /\ l # 0) \/ l > score + Slack
             THEN pc' = "emit" /\ oldscore' = score /\ UNCHANGED scan
             ELSE /\ oldscore' = score - (IF Aligned(scan) THEN 1 ELSE 0)
                  /\ scan' = scan + 1
                  /\ UNCHANGED pc
    /\ UNCHANGED <<args, last, body, decoder>>

\* The inner loop ran to the end of the target
ScanEnd ==
    /\ pc = "inner" /\ scan = Len(to)
    /\ pc' = "emit"
    /\ UNCHANGED <<args, scan, len, pos, last, oldscore, scsc, body, decoder>>

\* The match continues the alignment of the last one: nothing is emitted
Continue ==
    /\ pc = "emit" /\ len = oldscore /\ scan # Len(to)
    /\ pc' = "outer"
    /\ UNCHANGED <<args, scan, len, pos, last, oldscore, scsc, body, decoder>>

\* What the decoder makes of a triple
Decode(t) ==
    /\ out' = out \o Patched(from, cursor, t.diff) \o t.extra
    /\ cursor' = cursor + Len(t.diff) + t.seek

\* From the end of the diff to the start of the next one
\* MUTANT of Seek: from where the last match began
SeekFromStart(lenf, lenb) == (pos - lenb) - lastpos
Seek(lenf, lenb) == (pos - lenb) - (lastpos + lenf)

\* The triple with lenf bytes of diff, up to lenb bytes before the match
Triple(lenf, lenb) ==
    [diff |-> Difference(to, lastscan, from, lastpos, lenf),
     extra |-> Slice(to, lastscan + lenf, scan - lenb),
     seek |-> Seek(lenf, lenb)]

EmitTriple(lenf, lenb) ==
    /\ body' = Append(body, Triple(lenf, lenb))
    /\ Decode(Triple(lenf, lenb))
    /\ lastscan' = scan - lenb /\ lastpos' = pos - lenb /\ lastoffset' = pos - scan

Emit ==
    /\ pc = "emit" /\ (len # oldscore \/ scan = Len(to))
    /\ \E f \in 0..scan - lastscan :
         /\ IsForward(f)
         /\ \E b \in 0..scan - lastscan :
              /\ IsBackward(b)
              /\ \E l \in 0..Overlap(f, b) :
                   IsSplit(l, f, b) /\ EmitTriple(f + l - Overlap(f, b), b - l)
    /\ pc' = "outer"
    /\ UNCHANGED <<args, scan, len, pos, oldscore, scsc>>

----------------------------------------------------------------------------
BsdiffInit ==
    /\ pc = "ready"
    /\ from = <<>> /\ to = <<>>
    /\ scan = 0 /\ len = 0 /\ pos = 0
    /\ lastscan = 0 /\ lastpos = 0 /\ lastoffset = 0
    /\ oldscore = 0 /\ scsc = 0
    /\ body = <<>> /\ out = <<>> /\ cursor = 0

\* Any base and target may be given
Call == from' \in Seq(Byte) /\ to' \in Seq(Byte) /\ Start(from', to')

\* search may offer any position of the base, and what matches there
Offer ==
    \E p \in 0..Len(from) :
        \E l \in 0..Least(Len(from) - p, Len(to) - scan) : IsMatchLen(l, p, scan) /\ Scan(l, p)

BsdiffNext ==
    \/ Call
    \/ Outer
    \/ Offer
    \/ ScanEnd
    \/ Continue
    \/ Emit

BsdiffSpec == BsdiffInit /\ [][BsdiffNext]_bsdiffVars

----------------------------------------------------------------------------
BsdiffTypeOK ==
    /\ pc \in {"ready", "outer", "inner", "emit", "done"}
    /\ from \in Seq(Byte) /\ to \in Seq(Byte)
    /\ scan \in Nat /\ len \in Nat /\ pos \in Nat /\ scsc \in Nat
    /\ lastscan \in Nat /\ lastpos \in Nat /\ lastoffset \in Int

\* Every index with which bsdiff reads an image is inside it: the alignment
\* of the last match never points before the base, the spans it extends stay
\* within both images, and a match never reaches beyond the target.
IndicesInBounds ==
    /\ 0 <= lastscan /\ lastscan <= scan /\ scan <= Len(to)
    /\ lastpos \in 0..Len(from) /\ pos \in 0..Len(from)
    /\ 0 <= scan + lastoffset
    /\ pc = "inner" => 0 <= scsc + lastoffset
    /\ pc \in {"outer", "emit"} /\ scan < Len(to) => scan + len <= Len(to)

\* After every triple the decoder has rebuilt exactly the target up to
\* lastscan and reads the base where bsdiff's own bookkeeping says, and when
\* bsdiff returns it has rebuilt all of it: whatever match the search offers,
\* the triples reconstruct the target (encode.rs, Correctness contract).
DecoderInStep ==
    /\ IndicesInBounds
    /\ out = Slice(to, 0, lastscan) /\ cursor = lastpos
    /\ pc = "done" => out = to
=============================================================================
