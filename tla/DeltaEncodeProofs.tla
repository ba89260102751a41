--------------------------- MODULE DeltaEncodeProofs ---------------------------
(***************************************************************************)
(* For every radix, slack, window and list of requests, that is for every  *)
(* base, target, segment size and memory size the assumption admits:       *)
(*                                                                         *)
(*   AlwaysInStep      whatever a search offers, bsdiff stays inside its   *)
(*                     images and its triples rebuild the target;          *)
(*   AlwaysSorted      prefix doubling sorts the suffixes;                 *)
(*   AlwaysWindow      the score of a scan is that of its window;          *)
(*   ImplementsBsdiff  the search of the source only offers matches;       *)
(*   UnpacksBack       a packed size is read back, whatever follows it;    *)
(*   ExpandsBack       what crle compresses is expanded to what it was;    *)
(*   AlwaysRebuilt     a finished patch is decoded to the target;          *)
(*   AlwaysAdvances    every step leaves less to do.                       *)
(*                                                                         *)
(* AlwaysRebuilt is by induction on the steps, not on the data: StreamInv  *)
(* says that the bytes written so far, whatever comes behind them, are     *)
(* what the decoder reads as the segments encoded so far.  The recursions  *)
(* of the codecs are unfolded from functions shown to exist first.         *)
(***************************************************************************)
EXTENDS DeltaEncode, SequenceTheorems, FiniteSetTheorems, WellFoundedInduction, TLAPS

----------------------------------------------------------------------------
(* Bytes and slices.                                                       *)

\* The decoder's addition undoes wrapping_sub.
LEMMA PlusUndoesMinus ==
    ASSUME NEW t \in Byte, NEW f \in Byte
    PROVE  Minus(t, f) \in Byte /\ Plus(f, Minus(t, f)) = t
BY BsdiffAssumption DEF Byte, Base, Plus, Minus

\* A slice of an image is an image of the length its bounds say.
LEMMA SliceProperties ==
    ASSUME NEW s \in Seq(Byte), NEW i \in Nat, NEW j \in Nat, i <= j, j <= Len(s)
    PROVE  /\ Slice(s, i, j) \in Seq(Byte)
           /\ Len(Slice(s, i, j)) = j - i
           /\ \A n \in 1..j - i : Slice(s, i, j)[n] = s[i + n]
<1>1. \A n \in i + 1..j : s[n] \in Byte
  BY LenProperties, ElementOfSeq
<1>2. i + 1 \in Int /\ j \in Int
  OBVIOUS
<1>3. /\ SubSeq(s, i + 1, j) \in Seq(Byte)
      /\ Len(SubSeq(s, i + 1, j)) = IF i + 1 <= j THEN j - (i + 1) + 1 ELSE 0
      /\ \A n \in 1..j - (i + 1) + 1 : SubSeq(s, i + 1, j)[n] = s[(i + 1) + n - 1]
  BY <1>1, <1>2, SubSeqProperties
<1> QED
  BY <1>3 DEF Slice

\* Adjacent slices join.
LEMMA SlicesJoin ==
    ASSUME NEW s \in Seq(Byte), NEW i \in Nat, NEW j \in Nat, NEW e \in Nat,
           i <= j, j <= e, e <= Len(s)
    PROVE  Slice(s, i, j) \o Slice(s, j, e) = Slice(s, i, e)
<1> DEFINE a == Slice(s, i, j)
           b == Slice(s, j, e)
           c == Slice(s, i, e)
<1>0. Len(s) \in Nat /\ j <= Len(s) /\ i <= e
  BY LenProperties
<1>1. a \in Seq(Byte) /\ Len(a) = j - i /\ \A n \in 1..j - i : a[n] = s[i + n]
  BY <1>0, SliceProperties
<1>2. b \in Seq(Byte) /\ Len(b) = e - j /\ \A n \in 1..e - j : b[n] = s[j + n]
  BY SliceProperties
<1>3. c \in Seq(Byte) /\ Len(c) = e - i /\ \A n \in 1..e - i : c[n] = s[i + n]
  BY <1>0, SliceProperties
<1> HIDE DEF a, b, c
<1>4. /\ a \o b \in Seq(Byte) /\ Len(a \o b) = e - i
      /\ \A n \in 1..e - i : (a \o b)[n] = IF n <= j - i THEN a[n] ELSE b[n - (j - i)]
  <2>1. /\ a \o b \in Seq(Byte) /\ Len(a \o b) = Len(a) + Len(b)
        /\ \A n \in 1..Len(a) + Len(b) :
               (a \o b)[n] = IF n <= Len(a) THEN a[n] ELSE b[n - Len(a)]
    BY <1>1, <1>2, ConcatProperties
  <2>2. Len(a) + Len(b) = e - i
    BY <1>1, <1>2
  <2> QED
    BY <1>1, <2>1, <2>2
<1>5. ASSUME NEW n \in 1..e - i PROVE (a \o b)[n] = c[n]
  <2>1. CASE n <= j - i
    <3>1. n \in 1..j - i
      BY <2>1
    <3>2. (a \o b)[n] = a[n] /\ a[n] = s[i + n] /\ c[n] = s[i + n]
      BY <1>1, <1>3, <1>4, <2>1, <3>1
    <3> QED
      BY <3>2
  <2>2. CASE ~(n <= j - i)
    <3>1. n - (j - i) \in 1..e - j /\ j + (n - (j - i)) = i + n
      BY <2>2
    <3> QED
      BY <1>2, <1>3, <1>4, <2>2, <3>1
  <2> QED
    BY <2>1, <2>2
<1>6. a \o b = c
  BY <1>3, <1>4, <1>5, SeqEqual
<1> QED
  BY <1>6 DEF a, b, c

\* What the decoder makes of a diff of n bytes: the bytes of the target.
LEMMA DiffDecodes ==
    ASSUME NEW f \in Seq(Byte), NEW t \in Seq(Byte),
           NEW p \in Nat, NEW s \in Nat, NEW n \in Nat,
           p + n <= Len(f), s + n <= Len(t)
    PROVE  /\ Difference(t, s, f, p, n) \in Seq(Byte) /\ Len(Difference(t, s, f, p, n)) = n
           /\ Patched(f, p, Difference(t, s, f, p, n)) = Slice(t, s, s + n)
<1> DEFINE diff == Difference(t, s, f, p, n)
           sum == [i \in 1..n |-> Plus(f[p + i], diff[i])]
<1>1. ASSUME NEW i \in 1..n PROVE f[p + i] \in Byte /\ t[s + i] \in Byte
  <2>1. p + i \in 1..Len(f) /\ s + i \in 1..Len(t)
    BY LenProperties
  <2> QED
    BY <2>1, ElementOfSeq
<1>2. diff = [i \in 1..n |-> Minus(t[s + i], f[p + i])]
  BY DEF Difference
<1> HIDE DEF diff
<1>3. ASSUME NEW i \in 1..n PROVE diff[i] \in Byte /\ sum[i] = t[s + i] /\ sum[i] \in Byte
  <2>1. diff[i] = Minus(t[s + i], f[p + i]) /\ sum[i] = Plus(f[p + i], diff[i])
    BY <1>2
  <2> QED
    BY <1>1, <2>1, PlusUndoesMinus
<1>4. diff \in [1..n -> Byte] /\ sum \in [1..n -> Byte]
  BY <1>2, <1>3
<1> HIDE DEF sum
<1>5. diff \in Seq(Byte) /\ Len(diff) = n
  BY <1>4
<1>6. sum \in Seq(Byte) /\ Len(sum) = n
  BY <1>4
<1>7. /\ Slice(t, s, s + n) \in Seq(Byte) /\ Len(Slice(t, s, s + n)) = n
      /\ \A i \in 1..n : Slice(t, s, s + n)[i] = t[s + i]
  <2> DEFINE e == s + n
  <2>1. e \in Nat /\ s <= e /\ e <= Len(t) /\ e - s = n
    OBVIOUS
  <2> HIDE DEF e
  <2>2. /\ Slice(t, s, e) \in Seq(Byte) /\ Len(Slice(t, s, e)) = e - s
        /\ \A i \in 1..e - s : Slice(t, s, e)[i] = t[s + i]
    BY <2>1, SliceProperties
  <2> QED
    BY <2>1, <2>2 DEF e
<1>8. \A i \in 1..n : sum[i] = t[s + i]
  BY <1>3
<1>9. sum = Slice(t, s, s + n)
  BY <1>6, <1>7, <1>8, SeqEqual
<1>10. Patched(f, p, diff) = sum
  BY <1>5 DEF Patched, sum
<1> QED
  BY <1>5, <1>9, <1>10 DEF diff

----------------------------------------------------------------------------
(* The invariant.                                                          *)

\* What DecoderInStep needs to be inductive: the loop ends only once a last
\* triple has brought lastscan to the end of the target.
BsdiffInv ==
    /\ BsdiffTypeOK
    /\ DecoderInStep
    /\ pc \in {"outer", "done"} /\ scan = Len(to) => lastscan = Len(to)
    /\ pc = "done" => scan = Len(to)

\* bsdiff's initial state.
LEMMA InitInv == BsdiffInit => BsdiffInv
<1> SUFFICES ASSUME BsdiffInit PROVE BsdiffInv
  OBVIOUS
<1>1. <<>> \in Seq(Byte) /\ Len(<<>>) = 0
  BY EmptySeq
<1>2. BsdiffTypeOK
  BY <1>1 DEF BsdiffInit, BsdiffTypeOK
<1>3. Slice(<<>>, 0, 0) = <<>>
  BY SubSeqEmpty DEF Slice
<1> QED
  BY <1>1, <1>2, <1>3 DEF BsdiffInit, BsdiffInv, DecoderInStep, IndicesInBounds

\* A call starts from nothing decoded.
LEMMA CallInv == BsdiffInv /\ Call => BsdiffInv'
<1> SUFFICES ASSUME BsdiffInv, Call PROVE BsdiffInv'
  OBVIOUS
<1>1. BsdiffTypeOK'
  BY DEF Call, Start, BsdiffTypeOK
<1>2. Len(to') \in Nat /\ Len(from') \in Nat
  BY LenProperties DEF Call
<1>3. Slice(to', 0, 0) = <<>>
  BY SubSeqEmpty DEF Slice
<1>4. IndicesInBounds'
  BY <1>2 DEF Call, Start, IndicesInBounds
<1>5. DecoderInStep'
  BY <1>3, <1>4 DEF Call, Start, DecoderInStep
<1> QED
  BY <1>1, <1>5 DEF Call, Start, BsdiffInv

\* The outer loop: a match is skipped, or the whole target is behind.
LEMMA OuterInv == BsdiffInv /\ Outer => BsdiffInv'
<1> SUFFICES ASSUME BsdiffInv, Outer PROVE BsdiffInv'
  OBVIOUS
<1>0. Len(to) \in Nat /\ Len(from) \in Nat
  BY LenProperties DEF BsdiffInv, BsdiffTypeOK
<1>1. CASE scan < Len(to)
  <2>1. /\ pc = "outer" /\ pc' = "inner" /\ scan' = scan + len /\ scsc' = scan + len
        /\ UNCHANGED <<from, to, len, pos, lastscan, lastpos, lastoffset, out, cursor>>
    BY <1>1 DEF Outer, PastMatch, args, last, decoder
  <2>2. BsdiffTypeOK'
    BY <2>1 DEF BsdiffInv, BsdiffTypeOK
  <2>3. IndicesInBounds'
    BY <1>0, <1>1, <2>1 DEF BsdiffInv, BsdiffTypeOK, DecoderInStep, IndicesInBounds
  <2> QED
    BY <2>1, <2>2, <2>3 DEF BsdiffInv, DecoderInStep
<1>2. CASE ~(scan < Len(to))
  <2>1. /\ pc = "outer" /\ pc' = "done"
        /\ UNCHANGED <<from, to, scan, scsc, len, pos, lastscan, lastpos, lastoffset, out, cursor>>
    BY <1>2 DEF Outer, args, last, decoder
  <2>2. scan = Len(to) /\ lastscan = Len(to)
    BY <1>0, <1>2, <2>1 DEF BsdiffInv, BsdiffTypeOK, DecoderInStep, IndicesInBounds
  <2>3. out = to
    BY <2>2, SubSeqFull DEF BsdiffInv, BsdiffTypeOK, DecoderInStep, Slice
  <2>4. BsdiffTypeOK'
    BY <2>1 DEF BsdiffInv, BsdiffTypeOK
  <2>5. IndicesInBounds'
    BY <2>1 DEF BsdiffInv, DecoderInStep, IndicesInBounds
  <2> QED
    BY <2>1, <2>2, <2>3, <2>4, <2>5 DEF BsdiffInv, DecoderInStep
<1> QED
  BY <1>1, <1>2

\* An offer moves scan by at most one and never beyond the target.
LEMMA OfferInv == BsdiffInv /\ Offer => BsdiffInv'
<1> SUFFICES ASSUME BsdiffInv, Offer PROVE BsdiffInv'
  OBVIOUS
<1>0. Len(to) \in Nat /\ Len(from) \in Nat
  BY LenProperties DEF BsdiffInv, BsdiffTypeOK
<1>1. PICK p \in 0..Len(from) :
        \E l \in 0..Least(Len(from) - p, Len(to) - scan) : Scan(l, p)
  BY DEF Offer
<1>a. PICK l \in 0..Least(Len(from) - p, Len(to) - scan) : Scan(l, p)
  BY <1>1
<1>2. /\ pc = "inner" /\ scan < Len(to) /\ len' = l /\ pos' = p
      /\ scsc' = Greatest(scsc, scan + l)
      /\ (pc' = "emit" /\ scan' = scan) \/ (pc' = pc /\ scan' = scan + 1)
      /\ UNCHANGED <<from, to, lastscan, lastpos, lastoffset, out, cursor>>
  BY <1>a DEF Scan, args, last, decoder
<1>3. l \in Nat /\ scan + l <= Len(to)
  BY <1>0, <1>a DEF Least, BsdiffInv, BsdiffTypeOK, DecoderInStep, IndicesInBounds
<1>4. scsc' \in Nat /\ scsc <= scsc'
  BY <1>2, <1>3 DEF Greatest, BsdiffInv, BsdiffTypeOK
<1>5. BsdiffTypeOK'
  BY <1>0, <1>2, <1>3, <1>4, SMTT(30) DEF BsdiffInv, BsdiffTypeOK
<1>6. IndicesInBounds'
  BY <1>0, <1>2, <1>3, <1>4, SMTT(30) DEF BsdiffInv, BsdiffTypeOK, DecoderInStep, IndicesInBounds
<1>7. UNCHANGED <<to, lastscan, lastpos, out, cursor>> /\ pc' \notin {"outer", "done"}
  BY <1>2
<1>8. DecoderInStep'
  BY <1>6, <1>7 DEF BsdiffInv, DecoderInStep
<1> QED
  BY <1>5, <1>7, <1>8 DEF BsdiffInv

\* The two steps that only leave a loop.
LEMMA LeaveInv == BsdiffInv /\ (ScanEnd \/ Continue) => BsdiffInv'
<1> SUFFICES ASSUME BsdiffInv, ScanEnd \/ Continue PROVE BsdiffInv'
  OBVIOUS
<1>0. Len(to) \in Nat
  BY LenProperties DEF BsdiffInv, BsdiffTypeOK
<1>1. /\ UNCHANGED <<from, to, scan, len, pos, lastscan, lastpos, lastoffset, scsc, out, cursor>>
      /\ \/ pc' = "emit" /\ scan = Len(to)
         \/ pc = "emit" /\ pc' = "outer" /\ scan # Len(to)
  BY DEF ScanEnd, Continue, args, last, decoder
<1>2. BsdiffTypeOK'
  BY <1>1 DEF BsdiffInv, BsdiffTypeOK
<1>3. IndicesInBounds'
  BY <1>0, <1>1 DEF BsdiffInv, BsdiffTypeOK, DecoderInStep, IndicesInBounds
<1> QED
  BY <1>1, <1>2, <1>3 DEF BsdiffInv, DecoderInStep

\* The region a triple covers stays within both images, after the last triple
\* and before the match.
LEMMA EmitSplits ==
    ASSUME BsdiffInv, Emit
    PROVE  \E lenf \in Nat, lenb \in Nat :
             /\ lenb <= pos /\ lenb <= scan - lastscan
             /\ lastscan + lenf <= scan - lenb /\ lenf <= Len(from) - lastpos
             /\ scan = Len(to) => lenb = 0
             /\ EmitTriple(lenf, lenb)
<1>0. Len(to) \in Nat /\ Len(from) \in Nat
  BY LenProperties DEF BsdiffInv, BsdiffTypeOK
<1>a. PICK f \in 0..scan - lastscan, b \in 0..scan - lastscan :
        /\ IsForward(f) /\ IsBackward(b)
        /\ \E l \in 0..Overlap(f, b) : EmitTriple(f + l - Overlap(f, b), b - l)
  BY DEF Emit
<1>b. PICK l \in 0..Overlap(f, b) : EmitTriple(f + l - Overlap(f, b), b - l)
  BY <1>a
<1>1. /\ f \in 0..scan - lastscan /\ b \in 0..scan - lastscan /\ l \in 0..Overlap(f, b)
      /\ IsForward(f) /\ IsBackward(b) /\ EmitTriple(f + l - Overlap(f, b), b - l)
  BY <1>a, <1>b
<1> DEFINE lenf == f + l - Overlap(f, b)
           lenb == b - l
<1>2. /\ scan \in Nat /\ lastscan \in Nat /\ lastpos \in Nat /\ pos \in Nat
      /\ lastscan <= scan /\ scan <= Len(to) /\ lastpos <= Len(from) /\ pos <= Len(from)
  BY DEF BsdiffInv, BsdiffTypeOK, DecoderInStep, IndicesInBounds
<1>3. f <= Len(from) - lastpos
  BY <1>0, <1>1, <1>2 DEF IsForward, FirstBest, Least
<1>4. b <= pos /\ (scan = Len(to) => b = 0)
  BY <1>0, <1>1, <1>2 DEF IsBackward, FirstBest, Least
<1>5. /\ lenf \in Nat /\ lenb \in Nat /\ lenb <= pos /\ lenb <= scan - lastscan
      /\ lastscan + lenf <= scan - lenb /\ lenf <= Len(from) - lastpos
      /\ scan = Len(to) => lenb = 0
  BY <1>0, <1>1, <1>2, <1>3, <1>4 DEF Overlap, Greatest
<1>6. EmitTriple(lenf, lenb)
  BY <1>1
<1> HIDE DEF lenf, lenb
<1> QED
  BY <1>5, <1>6

\* A triple advances the decoder to where the bookkeeping is advanced to.
LEMMA EmitInv == BsdiffInv /\ Emit => BsdiffInv'
<1> SUFFICES ASSUME BsdiffInv, Emit PROVE BsdiffInv'
  OBVIOUS
<1>0. Len(to) \in Nat /\ Len(from) \in Nat
  BY LenProperties DEF BsdiffInv, BsdiffTypeOK
<1>1. PICK lenf \in Nat, lenb \in Nat :
        /\ lenb <= pos /\ lenb <= scan - lastscan
        /\ lastscan + lenf <= scan - lenb /\ lenf <= Len(from) - lastpos
        /\ scan = Len(to) => lenb = 0
        /\ EmitTriple(lenf, lenb)
  BY EmitSplits
<1>2. /\ scan \in Nat /\ lastscan \in Nat /\ lastpos \in Nat /\ pos \in Nat
      /\ lastscan <= scan /\ scan <= Len(to) /\ lastpos <= Len(from) /\ pos <= Len(from)
  BY DEF BsdiffInv, BsdiffTypeOK, DecoderInStep, IndicesInBounds
<1>5. /\ lenf \in Nat /\ lenb \in Nat /\ lenb <= pos /\ lenb <= scan - lastscan
      /\ lastscan + lenf <= scan - lenb /\ lenf <= Len(from) - lastpos
      /\ scan = Len(to) => lenb = 0
  BY <1>1
<1> DEFINE t == Triple(lenf, lenb)
<1>6. /\ pc = "emit" /\ pc' = "outer"
      /\ lastscan' = scan - lenb /\ lastpos' = pos - lenb /\ lastoffset' = pos - scan
      /\ UNCHANGED <<from, to, scan, len, pos, scsc>>
      /\ Decode(t)
  BY <1>1 DEF Emit, EmitTriple, args
<1>7. BsdiffTypeOK'
  BY <1>2, <1>5, <1>6 DEF BsdiffInv, BsdiffTypeOK
<1>8. IndicesInBounds'
  BY <1>0, <1>2, <1>5, <1>6 DEF BsdiffInv, BsdiffTypeOK, DecoderInStep, IndicesInBounds
<1>9. out = Slice(to, 0, lastscan) /\ cursor = lastpos
  BY DEF BsdiffInv, DecoderInStep
<1>10. Len(t.diff) = lenf /\ Patched(from, cursor, t.diff) = Slice(to, lastscan, lastscan + lenf)
  <2>1. from \in Seq(Byte) /\ to \in Seq(Byte)
    BY DEF BsdiffInv, BsdiffTypeOK
  <2>2. lastpos + lenf <= Len(from) /\ lastscan + lenf <= Len(to)
    BY <1>0, <1>2, <1>5
  <2>3. t.diff = Difference(to, lastscan, from, lastpos, lenf)
    BY DEF Triple
  <2>4. /\ Len(Difference(to, lastscan, from, lastpos, lenf)) = lenf
        /\ Patched(from, lastpos, Difference(to, lastscan, from, lastpos, lenf))
             = Slice(to, lastscan, lastscan + lenf)
    BY <1>2, <1>5, <2>1, <2>2, DiffDecodes
  <2> HIDE DEF t
  <2> QED
    BY <1>9, <2>3, <2>4
<1>11. t.extra = Slice(to, lastscan + lenf, scan - lenb)
  BY DEF Triple
<1>12. t.seek = (pos - lenb) - (lastpos + lenf)
  BY DEF Triple, Seek
<1>13. cursor' = lastpos'
  BY <1>2, <1>5, <1>6, <1>9, <1>10, <1>12 DEF Decode
<1>14. out' = Slice(to', 0, lastscan')
  <2> DEFINE m == lastscan + lenf
             e == scan - lenb
  <2>1. m \in Nat /\ e \in Nat /\ lastscan <= m /\ m <= e /\ e <= Len(to)
    BY <1>0, <1>2, <1>5
  <2>2. out' = (Slice(to, 0, lastscan) \o Slice(to, lastscan, m)) \o Slice(to, m, e)
    BY <1>6, <1>9, <1>10, <1>11 DEF Decode
  <2> HIDE DEF m, e
  <2>a. to \in Seq(Byte) /\ m <= Len(to) /\ 0 \in Nat /\ 0 <= lastscan /\ 0 <= m
    BY <1>0, <1>2, <2>1 DEF BsdiffInv, BsdiffTypeOK
  <2>3. Slice(to, 0, lastscan) \o Slice(to, lastscan, m) = Slice(to, 0, m)
    BY <1>2, <2>1, <2>a, SlicesJoin
  <2>4. Slice(to, 0, m) \o Slice(to, m, e) = Slice(to, 0, e)
    BY <2>1, <2>a, SlicesJoin
  <2> QED
    BY <1>6, <2>2, <2>3, <2>4 DEF e
<1>15. scan' = Len(to') => lastscan' = Len(to')
  BY <1>0, <1>2, <1>5, <1>6
<1> QED
  BY <1>6, <1>7, <1>8, <1>13, <1>14, <1>15 DEF BsdiffInv, DecoderInStep

\* Every step of bsdiff preserves the invariant.
LEMMA StepInv == BsdiffInv /\ [BsdiffNext]_bsdiffVars => BsdiffInv'
<1>1. BsdiffInv /\ UNCHANGED bsdiffVars => BsdiffInv'
  BY DEF bsdiffVars, args, last, decoder, BsdiffInv, BsdiffTypeOK, DecoderInStep, IndicesInBounds
<1> QED
  BY <1>1, CallInv, OuterInv, OfferInv, LeaveInv, EmitInv DEF BsdiffNext

\* For every base and target and whatever matches are offered, the decoder
\* stays in step with bsdiff, every index is in bounds, and the target is
\* rebuilt when bsdiff returns: encode.rs's correctness contract.
THEOREM AlwaysInStep == BsdiffSpec => []DecoderInStep
<1>1. BsdiffInv => DecoderInStep
  BY DEF BsdiffInv
<1> QED
  BY <1>1, InitInv, StepInv, PTL DEF BsdiffSpec

----------------------------------------------------------------------------
(* Induction, with the claim as a set.                                     *)

\* A set of naturals that has 0 and, with each of its members, the next one has them all.
LEMMA SetInduction ==
    ASSUME NEW P, 0 \in P, \A n \in Nat : n \in P => n + 1 \in P
    PROVE  Nat \subseteq P
<1> DEFINE Less == OpToRel(<, Nat)
           Rest == Nat \ P
<1>1. IsWellFoundedOn(Less, Nat)
  BY NatLessThanWellFounded
<1>2. \A i, j \in Nat : <<i, j>> \in Less <=> i < j
  BY DEF OpToRel
<1> HIDE DEF Less
<1> SUFFICES ASSUME Rest # {} PROVE FALSE
  OBVIOUS
<1>3. PICK i \in Rest : \A j \in Rest : ~(<<j, i>> \in Less)
  BY <1>1, WFMin, Rest \subseteq Nat
<1>4. i \in Nat \ {0} /\ i - 1 \in Nat /\ i - 1 < i
  OBVIOUS
<1>5. i - 1 \notin Rest
  BY <1>2, <1>3, <1>4
<1>6. i - 1 \in P /\ (i - 1) + 1 = i
  BY <1>4, <1>5
<1> QED
  BY <1>4, <1>6

\* A set of naturals that is not empty has a least element.
LEMMA LeastExists ==
    ASSUME NEW S \in SUBSET Nat, S # {}
    PROVE  \E i \in S : \A j \in S : i <= j
<1> DEFINE Less == OpToRel(<, Nat)
<1>1. IsWellFoundedOn(Less, Nat)
  BY NatLessThanWellFounded
<1>2. \A i, j \in Nat : <<i, j>> \in Less <=> i < j
  BY DEF OpToRel
<1> HIDE DEF Less
<1>3. PICK i \in S : \A j \in S : ~(<<j, i>> \in Less)
  BY <1>1, WFMin
<1>4. ASSUME NEW j \in S PROVE i <= j
  <2>1. i \in Nat /\ j \in Nat
    OBVIOUS
  <2>2. ~(j < i)
    BY <1>2, <1>3, <2>1
  <2> QED
    BY <2>1, <2>2
<1> QED
  BY <1>4

\* Max and Min of a bounded set of naturals are in it and bound it.
LEMMA MaxIs ==
    ASSUME NEW n \in Nat, NEW S \in SUBSET (0..n), S # {}
    PROVE  Max(S) \in S /\ \A x \in S : x <= Max(S)
<1> DEFINE T == {n - x : x \in S}
<1>1. T \in SUBSET Nat /\ T # {}
  <2>1. ASSUME NEW x \in S PROVE n - x \in Nat
    <3>1. x \in 0..n
      OBVIOUS
    <3> QED
      BY <3>1
  <2> QED
    BY <2>1
<1>2. PICK i \in T : \A j \in T : i <= j
  <2> HIDE DEF T
  <2> QED BY <1>1, LeastExists
<1>3. PICK m \in S : i = n - m
  BY <1>2
<1>4. ASSUME NEW x \in S PROVE m >= x
  <2>1. n - m <= n - x
    BY <1>2, <1>3
  <2> QED
    BY <2>1
<1>5. Max(S) \in S /\ \A y \in S : Max(S) >= y
  BY <1>3, <1>4 DEF Max
<1>6. ASSUME NEW x \in S PROVE x <= Max(S)
  <2>1. Max(S) \in 0..n /\ x \in 0..n /\ Max(S) >= x
    BY <1>5
  <2> QED
    BY <2>1
<1> QED
  BY <1>5, <1>6

\* Min of naturals is their least.
LEMMA MinIs ==
    ASSUME NEW S \in SUBSET Nat, S # {}
    PROVE  Min(S) \in S /\ \A x \in S : Min(S) <= x
<1>1. PICK i \in S : \A j \in S : i <= j
  BY LeastExists
<1> QED
  BY <1>1 DEF Min

----------------------------------------------------------------------------
(* The suffixes of an image, padded with a symbol below every byte.        *)

\* The symbol of s at p: a byte, or past the end one below every byte
Symbol(s, p) == IF p < Len(s) THEN At(s, p) ELSE -1

\* The first w symbols from i and from j on are the same, or differ first where
\* the one from i is smaller
Agree(s, i, j, w) == \A t \in 0..w - 1 : Symbol(s, i + t) = Symbol(s, j + t)
Lower(s, i, j, w) == \E t \in 0..w - 1 : Agree(s, i, j, t) /\ Symbol(s, i + t) < Symbol(s, j + t)

\* What the symbols are.
LEMMA SymbolIs ==
    ASSUME NEW s \in Seq(Byte), NEW p \in Nat
    PROVE  /\ Symbol(s, p) \in Int /\ Symbol(s, p) >= -1
           /\ p < Len(s) => Symbol(s, p) = s[p + 1] /\ Symbol(s, p) \in Byte /\ Symbol(s, p) >= 0
<1>1. Len(s) \in Nat
  BY LenProperties
<1>2. ASSUME p < Len(s) PROVE s[p + 1] \in Byte /\ s[p + 1] \in Nat
  <2>1. p + 1 \in 1..Len(s)
    BY <1>1, <1>2
  <2>2. s[p + 1] \in Byte
    BY <2>1, ElementOfSeq
  <2> QED
    BY <2>2, BsdiffAssumption DEF Byte, Base
<1> QED
  BY <1>1, <1>2 DEF Symbol, At

\* Of two suffixes one is lower, or they agree; never two of these.
LEMMA Trichotomy ==
    ASSUME NEW s \in Seq(Byte), NEW i \in Nat, NEW j \in Nat, NEW w \in Nat
    PROVE  /\ Lower(s, i, j, w) \/ Agree(s, i, j, w) \/ Lower(s, j, i, w)
           /\ ~(Lower(s, i, j, w) /\ Agree(s, i, j, w))
           /\ ~(Lower(s, i, j, w) /\ Lower(s, j, i, w))
           /\ Agree(s, i, j, w) => Agree(s, j, i, w)
<1>0. \A t \in Nat : Symbol(s, i + t) \in Int /\ Symbol(s, j + t) \in Int
  BY SymbolIs
<1>1. ASSUME ~Agree(s, i, j, w) PROVE Lower(s, i, j, w) \/ Lower(s, j, i, w)
  <2> DEFINE D == {t \in 0..w - 1 : Symbol(s, i + t) # Symbol(s, j + t)}
  <2>1. D \in SUBSET Nat /\ D # {}
    <3>1. \A t \in 0..w - 1 : t \in Nat
      OBVIOUS
    <3>2. \E t \in 0..w - 1 : Symbol(s, i + t) # Symbol(s, j + t)
      BY <1>1 DEF Agree
    <3> QED
      BY <3>1, <3>2
  <2>2. PICK t \in D : \A u \in D : t <= u
    <3> HIDE DEF D
    <3> QED BY <2>1, LeastExists
  <2>3. t \in 0..w - 1 /\ Symbol(s, i + t) # Symbol(s, j + t)
    BY <2>2
  <2>4. ASSUME NEW u \in 0..t - 1 PROVE Symbol(s, i + u) = Symbol(s, j + u)
    <3>1. u \in 0..w - 1 /\ ~(t <= u)
      BY <2>3
    <3> QED
      BY <2>2, <3>1
  <2>5. Agree(s, i, j, t) /\ Agree(s, j, i, t)
    BY <2>4 DEF Agree
  <2>6. Symbol(s, i + t) < Symbol(s, j + t) \/ Symbol(s, j + t) < Symbol(s, i + t)
    BY <1>0, <2>3
  <2> QED
    BY <2>3, <2>5, <2>6 DEF Lower
<1>2. ASSUME Lower(s, i, j, w), Agree(s, i, j, w) PROVE FALSE
  <2>1. PICK t \in 0..w - 1 : Symbol(s, i + t) < Symbol(s, j + t)
    BY <1>2 DEF Lower
  <2>2. Symbol(s, i + t) = Symbol(s, j + t)
    BY <1>2 DEF Agree
  <2>3. Symbol(s, i + t) \in Int
    BY <1>0
  <2> QED
    BY <2>1, <2>2, <2>3
<1>3. ASSUME Lower(s, i, j, w), Lower(s, j, i, w) PROVE FALSE
  <2>1. PICK t \in 0..w - 1 : Agree(s, i, j, t) /\ Symbol(s, i + t) < Symbol(s, j + t)
    BY <1>3 DEF Lower
  <2>2. PICK u \in 0..w - 1 : Agree(s, j, i, u) /\ Symbol(s, j + u) < Symbol(s, i + u)
    BY <1>3 DEF Lower
  <2>3. t < u \/ t = u \/ u < t
    OBVIOUS
  <2>4. /\ Symbol(s, i + t) \in Int /\ Symbol(s, j + t) \in Int
        /\ Symbol(s, i + u) \in Int /\ Symbol(s, j + u) \in Int
    BY <1>0, SMTT(30)
  <2>5. t < u => Symbol(s, i + t) = Symbol(s, j + t)
    BY <2>2 DEF Agree
  <2>6. u < t => Symbol(s, i + u) = Symbol(s, j + u)
    BY <2>1 DEF Agree
  <2> QED
    BY <2>1, <2>2, <2>3, <2>4, <2>5, <2>6
<1> QED
  BY <1>1, <1>2, <1>3 DEF Agree

\* A prefix of twice the width is two prefixes.
LEMMA TwoHalves ==
    ASSUME NEW s \in Seq(Byte), NEW i \in Nat, NEW j \in Nat, NEW w \in Nat
    PROVE  /\ Agree(s, i, j, 2 * w) <=> Agree(s, i, j, w) /\ Agree(s, i + w, j + w, w)
           /\ Lower(s, i, j, 2 * w) <=>
                 Lower(s, i, j, w) \/ (Agree(s, i, j, w) /\ Lower(s, i + w, j + w, w))
<1>1. ASSUME NEW v \in 0..w PROVE Agree(s, i, j, w + v) <=> Agree(s, i, j, w) /\ Agree(s, i + w, j + w, v)
  <2>1. ASSUME Agree(s, i, j, w + v) PROVE Agree(s, i, j, w) /\ Agree(s, i + w, j + w, v)
    <3>1. ASSUME NEW t \in 0..w - 1 PROVE Symbol(s, i + t) = Symbol(s, j + t)
      <4>1. t \in 0..w + v - 1
        OBVIOUS
      <4> QED
        BY <2>1, <4>1 DEF Agree
    <3>2. ASSUME NEW t \in 0..v - 1 PROVE Symbol(s, (i + w) + t) = Symbol(s, (j + w) + t)
      <4>1. w + t \in 0..w + v - 1 /\ i + (w + t) = (i + w) + t /\ j + (w + t) = (j + w) + t
        OBVIOUS
      <4> QED
        BY <2>1, <4>1 DEF Agree
    <3> QED
      BY <3>1, <3>2 DEF Agree
  <2>2. ASSUME Agree(s, i, j, w), Agree(s, i + w, j + w, v) PROVE Agree(s, i, j, w + v)
    <3>1. ASSUME NEW t \in 0..w + v - 1 PROVE Symbol(s, i + t) = Symbol(s, j + t)
      <4>1. CASE t < w
        BY <2>2, <4>1 DEF Agree
      <4>2. CASE t >= w
        <5>1. t - w \in 0..v - 1 /\ (i + w) + (t - w) = i + t /\ (j + w) + (t - w) = j + t
          BY <4>2
        <5> QED
          BY <2>2, <5>1 DEF Agree
      <4> QED
        BY <4>1, <4>2
    <3> QED
      BY <3>1 DEF Agree
  <2> QED
    BY <2>1, <2>2
<1>2. 2 * w = w + w
  OBVIOUS
<1>3. ASSUME Lower(s, i, j, 2 * w)
      PROVE  Lower(s, i, j, w) \/ (Agree(s, i, j, w) /\ Lower(s, i + w, j + w, w))
  <2>1. PICK t \in 0..2 * w - 1 : Agree(s, i, j, t) /\ Symbol(s, i + t) < Symbol(s, j + t)
    BY <1>3 DEF Lower
  <2>2. CASE t < w
    BY <2>1, <2>2 DEF Lower
  <2>3. CASE t >= w
    <3> DEFINE u == t - w
    <3>1. u \in 0..w - 1 /\ u \in 0..w /\ t = w + u /\ i + t = (i + w) + u /\ j + t = (j + w) + u
      BY <2>3
    <3> HIDE DEF u
    <3>2. Agree(s, i, j, w) /\ Agree(s, i + w, j + w, u)
      BY <1>1, <2>1, <3>1
    <3>3. Symbol(s, (i + w) + u) < Symbol(s, (j + w) + u)
      BY <2>1, <3>1
    <3> QED
      BY <3>1, <3>2, <3>3 DEF Lower
  <2> QED
    BY <2>2, <2>3
<1>4. ASSUME Lower(s, i, j, w) PROVE Lower(s, i, j, 2 * w)
  <2>1. PICK t \in 0..w - 1 : Agree(s, i, j, t) /\ Symbol(s, i + t) < Symbol(s, j + t)
    BY <1>4 DEF Lower
  <2>2. t \in 0..2 * w - 1
    OBVIOUS
  <2> QED
    BY <2>1, <2>2 DEF Lower
<1>5. ASSUME Agree(s, i, j, w), Lower(s, i + w, j + w, w) PROVE Lower(s, i, j, 2 * w)
  <2>1. PICK u \in 0..w - 1 : Agree(s, i + w, j + w, u) /\ Symbol(s, (i + w) + u) < Symbol(s, (j + w) + u)
    BY <1>5 DEF Lower
  <2>2. u \in 0..w /\ w + u \in 0..2 * w - 1 /\ (i + w) + u = i + (w + u) /\ (j + w) + u = j + (w + u)
    OBVIOUS
  <2>3. Agree(s, i, j, w + u)
    BY <1>1, <1>5, <2>1, <2>2
  <2>4. Symbol(s, i + (w + u)) < Symbol(s, j + (w + u))
    BY <2>1, <2>2
  <2> QED
    BY <2>2, <2>3, <2>4 DEF Lower
<1>6. Agree(s, i, j, 2 * w) <=> Agree(s, i, j, w) /\ Agree(s, i + w, j + w, w)
  BY <1>1, <1>2
<1> QED
  BY <1>3, <1>4, <1>5, <1>6

\* Different suffixes differ within the length of the image.
LEMMA SuffixesDiffer ==
    ASSUME NEW s \in Seq(Byte), NEW i \in 0..Len(s) - 1, NEW j \in 0..Len(s) - 1, i # j,
           NEW w \in Nat, w >= Len(s)
    PROVE  ~Agree(s, i, j, w)
<1>0. Len(s) \in Nat /\ i \in Nat /\ j \in Nat
  BY LenProperties
<1>1. ASSUME NEW a \in 0..Len(s) - 1, NEW b \in 0..Len(s) - 1, a < b,
             \A t \in 0..w - 1 : Symbol(s, a + t) = Symbol(s, b + t)
      PROVE  FALSE
  <2> DEFINE t == Len(s) - b
  <2>1. t \in 0..w - 1 /\ a + t \in Nat /\ b + t \in Nat /\ a + t < Len(s) /\ ~(b + t < Len(s))
    BY <1>0, <1>1
  <2>2. Symbol(s, a + t) >= 0 /\ Symbol(s, a + t) \in Int
    BY <2>1, SymbolIs
  <2>3. Symbol(s, b + t) = -1
    BY <2>1 DEF Symbol
  <2>4. Symbol(s, a + t) = Symbol(s, b + t)
    BY <1>1, <2>1
  <2> QED
    BY <2>2, <2>3, <2>4
<1>2. i < j \/ j < i
  BY <1>0
<1> QED
  BY <1>1, <1>2 DEF Agree

----------------------------------------------------------------------------
(* Prefix doubling.                                                        *)

\* The ranks order the positions by their first w symbols
Ranks(s, rk, w) ==
    /\ rk \in Seq(Nat) /\ Len(rk) = Len(s)
    /\ \A i, j \in 0..Len(s) - 1 : At(rk, i) < At(rk, j) <=> Lower(s, i, j, w)

\* The bytes themselves rank the positions by their first symbol.
LEMMA BytesRank == ASSUME NEW s \in Seq(Byte) PROVE Ranks(s, s, 1)
<1>1. s \in Seq(Nat)
  <2>1. Byte \subseteq Nat
    BY BsdiffAssumption DEF Byte, Base
  <2> QED
    BY <2>1, SeqMonotonic
<1>2. ASSUME NEW i \in 0..Len(s) - 1, NEW j \in 0..Len(s) - 1
      PROVE  At(s, i) < At(s, j) <=> Lower(s, i, j, 1)
  <2>1. Agree(s, i, j, 0)
    BY DEF Agree
  <2>2. i + 0 = i /\ j + 0 = j /\ 0..1 - 1 = {0} /\ i < Len(s) /\ j < Len(s)
    BY LenProperties
  <2>3. Symbol(s, i) = At(s, i) /\ Symbol(s, j) = At(s, j)
    BY <2>2 DEF Symbol
  <2>4. Lower(s, i, j, 1) <=> \E t \in {0} : Agree(s, i, j, t) /\ Symbol(s, i + t) < Symbol(s, j + t)
    BY <2>2 DEF Lower
  <2> QED
    BY <2>1, <2>2, <2>3, <2>4
<1> QED
  BY <1>1, <1>2 DEF Ranks

\* Keys of rank pairs order the positions by twice as many symbols.
LEMMA KeyOrder ==
    ASSUME NEW s \in Seq(Byte), NEW rk, NEW w \in Nat \ {0}, Ranks(s, rk, w),
           NEW i \in 0..Len(s) - 1, NEW j \in 0..Len(s) - 1
    PROVE  /\ Key(rk, i, w) \in Int \X Int
           /\ KeyLess(Key(rk, i, w), Key(rk, j, w)) <=> Lower(s, i, j, 2 * w)
           /\ Key(rk, i, w) = Key(rk, j, w) <=> Agree(s, i, j, 2 * w)
<1>0. /\ Len(s) \in Nat /\ rk \in Seq(Nat) /\ Len(rk) = Len(s)
      /\ i \in Nat /\ j \in Nat /\ i < Len(s) /\ j < Len(s)
  BY LenProperties DEF Ranks
<1> DEFINE Second(p) == IF p + w < Len(rk) THEN At(rk, p + w) ELSE -1
<1>1. \A p \in 0..Len(s) - 1 : At(rk, p) \in Nat
  <2>1. ASSUME NEW p \in 0..Len(s) - 1 PROVE At(rk, p) \in Nat
    <3>1. p + 1 \in 1..Len(rk)
      BY <1>0
    <3> QED
      BY <1>0, <3>1, ElementOfSeq DEF At
  <2> QED
    BY <2>1
<1>2. ASSUME NEW p \in 0..Len(s) - 1
      PROVE  /\ Second(p) \in Int /\ Second(p) >= -1
             /\ p + w < Len(s) => p + w \in 0..Len(s) - 1 /\ Second(p) = At(rk, p + w) /\ Second(p) >= 0
             /\ ~(p + w < Len(s)) => Second(p) = -1
  <2>1. CASE p + w < Len(s)
    <3>1. p + w \in 0..Len(s) - 1 /\ Second(p) = At(rk, p + w)
      BY <1>0, <2>1
    <3>2. At(rk, p + w) \in Nat
      BY <1>1, <3>1
    <3> QED
      BY <2>1, <3>1, <3>2
  <2>2. CASE ~(p + w < Len(s))
    BY <1>0, <2>2
  <2> QED
    BY <2>1, <2>2
<1> HIDE DEF Second
<1>3. ASSUME NEW p \in 0..Len(s) - 1, NEW q \in 0..Len(s) - 1
      PROVE  (Second(p) < Second(q) <=> Lower(s, p + w, q + w, w))
  <2>0. p + w \in Nat /\ q + w \in Nat
    BY <1>0
  <2>1. CASE p + w < Len(s) /\ q + w < Len(s)
    BY <1>0, <1>2, <2>1 DEF Ranks
  <2>2. CASE ~(p + w < Len(s)) /\ q + w < Len(s)
    <3>1. Second(p) < Second(q)
      BY <1>2, <2>2
    <3>2. Agree(s, p + w, q + w, 0)
      BY DEF Agree
    <3>3. Symbol(s, p + w) = -1 /\ Symbol(s, q + w) >= 0 /\ Symbol(s, q + w) \in Int
      BY <2>0, <2>2, SymbolIs DEF Symbol
    <3>4. (p + w) + 0 = p + w /\ (q + w) + 0 = q + w /\ 0 \in 0..w - 1
      BY <2>0
    <3>5. Symbol(s, (p + w) + 0) < Symbol(s, (q + w) + 0)
      BY <3>3, <3>4
    <3>6. Lower(s, p + w, q + w, w)
      BY <3>2, <3>4, <3>5 DEF Lower
    <3> QED
      BY <3>1, <3>6
  <2>3. CASE ~(q + w < Len(s))
    <3>1. ~(Second(p) < Second(q))
      BY <1>2, <2>3
    <3>2. ASSUME NEW t \in 0..w - 1 PROVE ~(Symbol(s, (p + w) + t) < Symbol(s, (q + w) + t))
      <4>1. (q + w) + t \in Nat /\ (p + w) + t \in Nat /\ ~((q + w) + t < Len(s))
        BY <1>0, <2>0, <2>3
      <4>2. Symbol(s, (q + w) + t) = -1
        BY <4>1 DEF Symbol
      <4>3. Symbol(s, (p + w) + t) >= -1 /\ Symbol(s, (p + w) + t) \in Int
        BY <4>1, SymbolIs
      <4> QED
        BY <4>2, <4>3
    <3>3. ~Lower(s, p + w, q + w, w)
      BY <3>2 DEF Lower
    <3> QED
      BY <3>1, <3>3
  <2> QED
    BY <2>1, <2>2, <2>3
<1>4. Key(rk, i, w) = <<At(rk, i), Second(i)>> /\ Key(rk, j, w) = <<At(rk, j), Second(j)>>
  BY DEF Key, Second
<1>5. /\ At(rk, i) < At(rk, j) <=> Lower(s, i, j, w)
      /\ At(rk, j) < At(rk, i) <=> Lower(s, j, i, w)
  BY DEF Ranks
<1>6. At(rk, i) \in Int /\ At(rk, j) \in Int /\ Second(i) \in Int /\ Second(j) \in Int
  BY <1>1, <1>2
<1>7. At(rk, i) = At(rk, j) <=> Agree(s, i, j, w)
  <2>1. /\ Lower(s, i, j, w) \/ Agree(s, i, j, w) \/ Lower(s, j, i, w)
        /\ ~(Lower(s, i, j, w) /\ Agree(s, i, j, w))
        /\ ~(Lower(s, j, i, w) /\ Agree(s, j, i, w))
        /\ Agree(s, i, j, w) => Agree(s, j, i, w)
    BY <1>0, Trichotomy
  <2> QED
    BY <1>5, <1>6, <2>1
<1>8. /\ Second(i) < Second(j) <=> Lower(s, i + w, j + w, w)
      /\ Second(j) < Second(i) <=> Lower(s, j + w, i + w, w)
  BY <1>3
<1>9. Second(i) = Second(j) <=> Agree(s, i + w, j + w, w)
  <2>0. i + w \in Nat /\ j + w \in Nat
    BY <1>0
  <2>1. /\ Lower(s, i + w, j + w, w) \/ Agree(s, i + w, j + w, w) \/ Lower(s, j + w, i + w, w)
        /\ ~(Lower(s, i + w, j + w, w) /\ Agree(s, i + w, j + w, w))
        /\ ~(Lower(s, j + w, i + w, w) /\ Agree(s, j + w, i + w, w))
        /\ Agree(s, i + w, j + w, w) => Agree(s, j + w, i + w, w)
    BY <2>0, Trichotomy
  <2> QED
    BY <1>6, <1>8, <2>1
<1>10. /\ Agree(s, i, j, 2 * w) <=> Agree(s, i, j, w) /\ Agree(s, i + w, j + w, w)
       /\ Lower(s, i, j, 2 * w) <=>
             Lower(s, i, j, w) \/ (Agree(s, i, j, w) /\ Lower(s, i + w, j + w, w))
  BY <1>0, TwoHalves
<1>11. KeyLess(Key(rk, i, w), Key(rk, j, w)) <=>
          At(rk, i) < At(rk, j) \/ (At(rk, i) = At(rk, j) /\ Second(i) < Second(j))
  BY <1>4 DEF KeyLess
<1>12. Key(rk, i, w) = Key(rk, j, w) <=> At(rk, i) = At(rk, j) /\ Second(i) = Second(j)
  BY <1>4
<1>13. Key(rk, i, w) \in Int \X Int
  BY <1>4, <1>6
<1> QED
  BY <1>5, <1>7, <1>8, <1>9, <1>10, <1>11, <1>12, <1>13

\* KeyLess is a strict total order of keys.
LEMMA KeyLessIsOrder ==
    ASSUME NEW a \in Int \X Int, NEW b \in Int \X Int, NEW c \in Int \X Int
    PROVE  /\ ~KeyLess(a, a)
           /\ KeyLess(a, b) /\ KeyLess(b, c) => KeyLess(a, c)
           /\ KeyLess(a, b) \/ a = b \/ KeyLess(b, a)
<1>1. /\ a[1] \in Int /\ a[2] \in Int /\ b[1] \in Int /\ b[2] \in Int /\ c[1] \in Int /\ c[2] \in Int
      /\ a = <<a[1], a[2]>> /\ b = <<b[1], b[2]>>
  OBVIOUS
<1>2. ~KeyLess(a, a)
  BY <1>1 DEF KeyLess
<1>3. KeyLess(a, b) /\ KeyLess(b, c) => KeyLess(a, c)
  BY <1>1 DEF KeyLess
<1>4. KeyLess(a, b) \/ a = b \/ KeyLess(b, a)
  <2>1. a[1] = b[1] /\ a[2] = b[2] => a = b
    BY <1>1
  <2> QED
    BY <1>1, <2>1 DEF KeyLess
<1> QED
  BY <1>2, <1>3, <1>4

\* A smaller set of lesser keys means a lesser key.
LEMMA RankedRanks ==
    ASSUME NEW s \in Seq(Byte), NEW rk, NEW w \in Nat \ {0}, Ranks(s, rk, w)
    PROVE  Ranks(s, Ranked(rk, w), 2 * w)
<1> DEFINE P == 0..Len(s) - 1
           V == {Key(rk, j, w) : j \in P}
           Lesser(i) == {v \in V : KeyLess(v, Key(rk, i, w))}
<1>0. Len(s) \in Nat /\ rk \in Seq(Nat) /\ Len(rk) = Len(s)
  BY LenProperties DEF Ranks
<1>1. IsFiniteSet(V)
  <2> DEFINE f == [j \in P |-> Key(rk, j, w)]
  <2>1. f \in [P -> V] /\ \A v \in V : \E j \in P : f[j] = v
    OBVIOUS
  <2>2. f \in Surjection(P, V)
    BY <2>1 DEF Surjection
  <2>3. IsFiniteSet(P)
    BY <1>0, FS_Interval
  <2> QED
    BY <2>2, <2>3, FS_Surjection
<1>2. \A i \in P : Key(rk, i, w) \in Int \X Int
  BY KeyOrder
<1>3. \A v \in V : v \in Int \X Int
  BY <1>2
<1> HIDE DEF V
<1>4. \A i \in P : IsFiniteSet(Lesser(i)) /\ Cardinality(Lesser(i)) \in Nat
  <2>1. ASSUME NEW i \in P PROVE IsFiniteSet(Lesser(i)) /\ Cardinality(Lesser(i)) \in Nat
    <3>1. Lesser(i) \in SUBSET V
      OBVIOUS
    <3>2. IsFiniteSet(Lesser(i))
      BY <1>1, <3>1, FS_Subset
    <3> QED
      BY <3>2, FS_CardinalityType
  <2> QED
    BY <2>1
<1>5. ASSUME NEW i \in P, NEW j \in P, KeyLess(Key(rk, i, w), Key(rk, j, w))
      PROVE  Cardinality(Lesser(i)) < Cardinality(Lesser(j))
  <2>1. \A v \in Lesser(i) : v \in Lesser(j)
    BY <1>2, <1>3, <1>5, KeyLessIsOrder
  <2>2. Key(rk, i, w) \in Lesser(j)
    BY <1>5 DEF V
  <2>3. Key(rk, i, w) \notin Lesser(i)
    BY <1>2, KeyLessIsOrder
  <2>4. Lesser(i) \in SUBSET Lesser(j) /\ Lesser(i) # Lesser(j)
    BY <2>1, <2>2, <2>3
  <2>5. IsFiniteSet(Lesser(j)) /\ Cardinality(Lesser(i)) \in Nat /\ Cardinality(Lesser(j)) \in Nat
    BY <1>4
  <2> HIDE DEF Lesser
  <2>6. Cardinality(Lesser(i)) <= Cardinality(Lesser(j)) /\ Cardinality(Lesser(i)) # Cardinality(Lesser(j))
    BY <2>4, <2>5, FS_Subset
  <2> QED
    BY <2>5, <2>6
<1>6. ASSUME NEW i \in P, NEW j \in P, ~KeyLess(Key(rk, i, w), Key(rk, j, w))
      PROVE  ~(Cardinality(Lesser(i)) < Cardinality(Lesser(j)))
  <2>1. Key(rk, i, w) = Key(rk, j, w) \/ KeyLess(Key(rk, j, w), Key(rk, i, w))
    BY <1>2, <1>6, KeyLessIsOrder
  <2>2. CASE Key(rk, i, w) = Key(rk, j, w)
    <3>1. Lesser(i) = Lesser(j)
      BY <2>2
    <3>2. Cardinality(Lesser(i)) \in Nat
      BY <1>4
    <3> HIDE DEF Lesser
    <3> QED
      BY <3>1, <3>2
  <2>3. CASE KeyLess(Key(rk, j, w), Key(rk, i, w))
    <3>1. Cardinality(Lesser(j)) < Cardinality(Lesser(i))
      BY <1>5, <2>3
    <3>2. Cardinality(Lesser(i)) \in Nat /\ Cardinality(Lesser(j)) \in Nat
      BY <1>4
    <3> HIDE DEF Lesser
    <3> QED
      BY <3>1, <3>2
  <2> QED
    BY <2>1, <2>2, <2>3
<1> DEFINE r == Ranked(rk, w)
<1>7. r = [i \in 1..Len(s) |-> Cardinality(Lesser(i - 1))]
  BY <1>0 DEF Ranked, V
<1> HIDE DEF Lesser, r
<1>8. \A i \in 1..Len(s) : i - 1 \in P
  BY <1>0
<1>9. r \in [1..Len(s) -> Nat]
  BY <1>4, <1>7, <1>8
<1>10. r \in Seq(Nat) /\ Len(r) = Len(s)
  BY <1>0, <1>9
<1>11. ASSUME NEW i \in P PROVE At(r, i) = Cardinality(Lesser(i))
  <2>1. i + 1 \in 1..Len(s) /\ (i + 1) - 1 = i
    BY <1>0
  <2> QED
    BY <1>7, <2>1 DEF At
<1>12. ASSUME NEW i \in P, NEW j \in P PROVE At(r, i) < At(r, j) <=> Lower(s, i, j, 2 * w)
  <2>1. KeyLess(Key(rk, i, w), Key(rk, j, w)) <=> Lower(s, i, j, 2 * w)
    BY KeyOrder
  <2> QED
    BY <1>5, <1>6, <1>11, <2>1
<1> QED
  BY <1>10, <1>12 DEF Ranks, r

\* The size of an interval.
LEMMA IntervalIs ==
    ASSUME NEW n \in Nat
    PROVE  IsFiniteSet(1..n) /\ Cardinality(1..n) = n
<1>1. 1 \in Int /\ n \in Int
  OBVIOUS
<1>2. IsFiniteSet(1..n) /\ Cardinality(1..n) = IF 1 > n THEN 0 ELSE n - 1 + 1
  BY <1>1, FS_Interval
<1> QED
  BY <1>2

\* R puts 1..n in a strict total order
IsOrder(n, R) ==
    /\ \A i \in 1..n : <<i, i>> \notin R
    /\ \A i, j, l \in 1..n : <<i, j>> \in R /\ <<j, l>> \in R => <<i, l>> \in R
    /\ \A i, j \in 1..n : <<i, j>> \in R \/ i = j \/ <<j, i>> \in R

\* How many elements of 1..n the relation R puts before each, and one
Places(n, R) == [i \in 1..n |-> Cardinality({j \in 1..n : <<j, i>> \in R}) + 1]

\* Counting what precedes an element is a bijection that respects the order.
LEMMA PlacesAreBijective ==
    ASSUME NEW n \in Nat, NEW R, IsOrder(n, R)
    PROVE  /\ \A i \in 1..n : Places(n, R)[i] \in 1..n
           /\ \A i, j \in 1..n : <<i, j>> \in R => Places(n, R)[i] < Places(n, R)[j]
           /\ \A p \in 1..n : \E i \in 1..n : Places(n, R)[i] = p
<1> DEFINE place == Places(n, R)
           Ahead(i) == {j \in 1..n : <<j, i>> \in R}
<1>0. place = [i \in 1..n |-> Cardinality(Ahead(i)) + 1]
  BY DEF Places
<1> HIDE DEF place
<1>o. /\ \A i \in 1..n : <<i, i>> \notin R
      /\ \A i, j, l \in 1..n : <<i, j>> \in R /\ <<j, l>> \in R => <<i, l>> \in R
      /\ \A i, j \in 1..n : <<i, j>> \in R \/ i = j \/ <<j, i>> \in R
  BY DEF IsOrder
<1>1. IsFiniteSet(1..n) /\ Cardinality(1..n) = n
  BY IntervalIs
<1>2. ASSUME NEW i \in 1..n
      PROVE  IsFiniteSet(Ahead(i)) /\ Cardinality(Ahead(i)) \in Nat /\ Cardinality(Ahead(i)) < n
  <2>1. Ahead(i) \in SUBSET (1..n) /\ Ahead(i) # 1..n
    BY <1>o
  <2> HIDE DEF Ahead
  <2>2. IsFiniteSet(Ahead(i)) /\ Cardinality(Ahead(i)) <= n /\ Cardinality(Ahead(i)) # n
    <3>1. /\ IsFiniteSet(Ahead(i)) /\ Cardinality(Ahead(i)) <= Cardinality(1..n)
          /\ Cardinality(1..n) = Cardinality(Ahead(i)) => 1..n = Ahead(i)
      BY <1>1, <2>1, FS_Subset
    <3> QED
      BY <1>1, <2>1, <3>1
  <2>3. Cardinality(Ahead(i)) \in Nat
    BY <2>2, FS_CardinalityType
  <2> QED
    BY <2>2, <2>3
<1>3. ASSUME NEW i \in 1..n, NEW j \in 1..n, <<i, j>> \in R
      PROVE  Cardinality(Ahead(i)) < Cardinality(Ahead(j))
  <2>1. Ahead(i) \in SUBSET Ahead(j)
    BY <1>3, <1>o
  <2>2. i \in Ahead(j) /\ i \notin Ahead(i)
    BY <1>3, <1>o
  <2>3. IsFiniteSet(Ahead(j)) /\ Cardinality(Ahead(i)) \in Nat /\ Cardinality(Ahead(j)) \in Nat
    BY <1>2
  <2> HIDE DEF Ahead
  <2>4. Ahead(i) # Ahead(j)
    BY <2>2
  <2>5. Cardinality(Ahead(i)) <= Cardinality(Ahead(j)) /\ Cardinality(Ahead(i)) # Cardinality(Ahead(j))
    BY <2>1, <2>3, <2>4, FS_Subset
  <2> QED
    BY <2>3, <2>5
<1>4. \A i \in 1..n : place[i] = Cardinality(Ahead(i)) + 1
  BY <1>0
<1>5. place \in [1..n -> 1..n]
  <2>1. ASSUME NEW i \in 1..n PROVE Cardinality(Ahead(i)) + 1 \in 1..n
    <3>1. Cardinality(Ahead(i)) \in Nat /\ Cardinality(Ahead(i)) < n
      BY <1>2
    <3> HIDE DEF Ahead
    <3> QED
      BY <3>1
  <2> DEFINE c(i) == Cardinality(Ahead(i)) + 1
  <2>2. \A i \in 1..n : c(i) \in 1..n
    BY <2>1
  <2>3. place = [i \in 1..n |-> c(i)]
    BY <1>0
  <2> HIDE DEF c
  <2> QED
    BY <2>2, <2>3
<1> HIDE DEF Ahead
<1>6. ASSUME NEW i \in 1..n, NEW j \in 1..n, <<i, j>> \in R PROVE place[i] < place[j]
  <2>1. Cardinality(Ahead(i)) \in Nat /\ Cardinality(Ahead(j)) \in Nat
    BY <1>2
  <2> QED
    <3>1. Cardinality(Ahead(i)) < Cardinality(Ahead(j))
      BY <1>3, <1>6
    <3>2. place[i] = Cardinality(Ahead(i)) + 1 /\ place[j] = Cardinality(Ahead(j)) + 1
      BY <1>4
    <3> DEFINE x == Cardinality(Ahead(i))
               y == Cardinality(Ahead(j))
    <3>3. x \in Nat /\ y \in Nat /\ x < y /\ place[i] = x + 1 /\ place[j] = y + 1
      BY <2>1, <3>1, <3>2
    <3> HIDE DEF x, y
    <3> QED
      BY <3>3
<1>7. ASSUME NEW i \in 1..n, NEW j \in 1..n, place[i] = place[j] PROVE i = j
  <2>1. place[i] \in 1..n /\ place[j] \in 1..n
    BY <1>5
  <2>2. ~(place[i] < place[j]) /\ ~(place[j] < place[i])
    BY <1>7, <2>1
  <2>3. <<i, j>> \notin R /\ <<j, i>> \notin R
    BY <1>6, <2>2
  <2> QED
    BY <1>o, <2>3
<1>8. place \in Injection(1..n, 1..n)
  BY <1>5, <1>7 DEF Injection, IsInjective
<1>9. place \in Surjection(1..n, 1..n)
  BY <1>1, <1>8, FS_Injection
<1> QED
  BY <1>5, <1>6, <1>9 DEF Surjection, place

\* a lists the positions 0..n - 1, each once
Lists(a, n) ==
    /\ a \in Seq(0..n - 1) /\ Len(a) = n
    /\ \A p, q \in 1..n : a[p] = a[q] => p = q

\* sort_by_key lists the same positions, and no key before a lesser one.
LEMMA SortedByKeyIs ==
    ASSUME NEW s \in Seq(Byte), NEW rk, NEW w \in Nat \ {0}, Ranks(s, rk, w),
           NEW a, Lists(a, Len(s))
    PROVE  LET b == SortedByKey(a, rk, w)
           IN  /\ Lists(b, Len(s))
               /\ \A p, q \in 1..Len(s) : p < q => ~KeyLess(Key(rk, b[q], w), Key(rk, b[p], w))
<1> DEFINE n == Len(s)
           key == [i \in 1..n |-> Key(rk, a[i], w)]
           R == {x \in (1..n) \X (1..n) :
                    KeyLess(key[x[1]], key[x[2]]) \/ (key[x[1]] = key[x[2]] /\ x[1] < x[2])}
           place == Places(n, R)
           b == [p \in 1..n |-> a[CHOOSE i \in 1..n : place[i] = p]]
<1>0. n \in Nat /\ Len(a) = n
  BY LenProperties DEF Lists
<1>1. \A i \in 1..n : a[i] \in 0..n - 1
  BY <1>0, ElementOfSeq DEF Lists
<1>2. \A i \in 1..n : key[i] \in Int \X Int
  BY <1>1, KeyOrder
<1>3. SortedByKey(a, rk, w) = b
  <2>1. ASSUME NEW i \in 1..n
        PROVE  {j \in 1..n : <<j, i>> \in R} =
                 {j \in 1..n : KeyLess(key[j], key[i]) \/ (key[j] = key[i] /\ j < i)}
    OBVIOUS
  <2> DEFINE place2 == [i \in 1..n |-> Cardinality({j \in 1..n : KeyLess(key[j], key[i]) \/ (key[j] = key[i] /\ j < i)}) + 1]
  <2>2. place = place2
    BY <2>1 DEF Places
  <2>3. SortedByKey(a, rk, w) = [p \in 1..n |-> a[CHOOSE i \in 1..n : place2[i] = p]]
    BY <1>0 DEF SortedByKey
  <2> HIDE DEF place, place2
  <2> QED
    BY <2>2, <2>3
<1>r. \A i, j \in 1..n : <<i, j>> \in R <=> KeyLess(key[i], key[j]) \/ (key[i] = key[j] /\ i < j)
  OBVIOUS
<1> HIDE DEF key, R
<1>4. \A i \in 1..n : <<i, i>> \notin R
  BY <1>0, <1>2, <1>r, KeyLessIsOrder
<1>5. ASSUME NEW i \in 1..n, NEW j \in 1..n, NEW l \in 1..n, <<i, j>> \in R, <<j, l>> \in R
      PROVE  <<i, l>> \in R
  <2>1. /\ KeyLess(key[i], key[j]) \/ (key[i] = key[j] /\ i < j)
        /\ KeyLess(key[j], key[l]) \/ (key[j] = key[l] /\ j < l)
    BY <1>5, <1>r
  <2>2. KeyLess(key[i], key[j]) /\ KeyLess(key[j], key[l]) => KeyLess(key[i], key[l])
    BY <1>2, KeyLessIsOrder
  <2>3. i < j /\ j < l => i < l
    BY <1>0
  <2>4. KeyLess(key[i], key[l]) \/ (key[i] = key[l] /\ i < l)
    BY <2>1, <2>2, <2>3
  <2> QED
    BY <2>4, <1>r
<1>6. ASSUME NEW i \in 1..n, NEW j \in 1..n PROVE <<i, j>> \in R \/ i = j \/ <<j, i>> \in R
  <2>1. KeyLess(key[i], key[j]) \/ key[i] = key[j] \/ KeyLess(key[j], key[i])
    BY <1>2, KeyLessIsOrder
  <2>2. i < j \/ i = j \/ j < i
    BY <1>0
  <2> QED
    BY <2>1, <2>2, <1>r
<1>7. /\ \A i \in 1..n : place[i] \in 1..n
      /\ \A i, j \in 1..n : <<i, j>> \in R => place[i] < place[j]
      /\ \A p \in 1..n : \E i \in 1..n : place[i] = p
  <2>1. /\ \A i, j, l \in 1..n : <<i, j>> \in R /\ <<j, l>> \in R => <<i, l>> \in R
        /\ \A i, j \in 1..n : <<i, j>> \in R \/ i = j \/ <<j, i>> \in R
    BY <1>5, <1>6
  <2>2. IsOrder(n, R)
    BY <1>4, <2>1 DEF IsOrder
  <2>3. n \in Nat
    BY <1>0
  <2> HIDE DEF n
  <2> QED
    BY <2>2, <2>3, PlacesAreBijective
<1> HIDE DEF place
<1> DEFINE at(p) == CHOOSE i \in 1..n : place[i] = p
<1>8. \A p \in 1..n : at(p) \in 1..n /\ place[at(p)] = p
  BY <1>7
<1>9. \A p \in 1..n : b[p] = a[at(p)]
  OBVIOUS
<1>10. Lists(b, n)
  <2>1. b \in [1..n -> 0..n - 1]
    BY <1>1, <1>8
  <2>2. b \in Seq(0..n - 1) /\ Len(b) = n
    <3> HIDE DEF b
    <3> QED BY <1>0, <2>1
  <2>3. ASSUME NEW p \in 1..n, NEW q \in 1..n, b[p] = b[q] PROVE p = q
    <3>1. a[at(p)] = a[at(q)] /\ at(p) \in 1..n /\ at(q) \in 1..n
      BY <1>8, <1>9, <2>3
    <3> HIDE DEF at
    <3>2. at(p) = at(q)
      BY <3>1 DEF Lists
    <3> QED
      BY <1>8, <3>2
  <2> QED
    BY <2>2, <2>3 DEF Lists
<1>11. ASSUME NEW p \in 1..n, NEW q \in 1..n, p < q PROVE ~KeyLess(Key(rk, b[q], w), Key(rk, b[p], w))
  <2>1. at(p) \in 1..n /\ at(q) \in 1..n /\ place[at(p)] = p /\ place[at(q)] = q
    BY <1>8
  <2>2. Key(rk, b[p], w) = key[at(p)] /\ Key(rk, b[q], w) = key[at(q)]
    BY <1>9, <2>1 DEF key
  <2> HIDE DEF at, b
  <2>3. SUFFICES ASSUME KeyLess(key[at(q)], key[at(p)]) PROVE FALSE
    BY <2>2
  <2>4. place[at(q)] < place[at(p)]
    BY <1>7, <1>r, <2>1, <2>3
  <2> QED
    BY <1>0, <1>11, <2>1, <2>4
<1> HIDE DEF b
<1> QED
  BY <1>3, <1>10, <1>11

----------------------------------------------------------------------------
(* What suffix_array ends with.                                            *)

\* The positions are listed with their suffixes in strict order
Ordered(s, a) ==
    /\ Lists(a, Len(s))
    /\ \E w \in Nat : \A p, q \in 1..Len(s) : p < q => Lower(s, a[p], a[q], w)

\* The round that stops the loop leaves no tie: either all ranks differ, or
\* the keys cover the whole of every suffix.
LEMMA LastRound ==
    ASSUME NEW s \in Seq(Byte), NEW rk, NEW w \in Nat \ {0}, Ranks(s, rk, w),
           NEW a, Lists(a, Len(s)), SortedEnough(Ranked(rk, w), w)
    PROVE  Ordered(s, SortedByKey(a, rk, w))
<1> DEFINE b == SortedByKey(a, rk, w)
           n == Len(s)
           r == Ranked(rk, w)
<1>0. n \in Nat
  BY LenProperties
<1>1. /\ Lists(b, n)
      /\ \A p, q \in 1..n : p < q => ~KeyLess(Key(rk, b[q], w), Key(rk, b[p], w))
  BY SortedByKeyIs
<1>2. Ranks(s, r, 2 * w)
  BY RankedRanks
<1>3. SortedEnough(r, w)
  OBVIOUS
<1> HIDE DEF b, r
<1>4. r \in Seq(Nat) /\ Len(r) = n
  BY <1>2 DEF Ranks
<1>5. ASSUME NEW p \in 1..n, NEW q \in 1..n, p < q PROVE Lower(s, b[p], b[q], 2 * w)
  <2> DEFINE i == b[p]
             j == b[q]
  <2>1. i \in 0..n - 1 /\ j \in 0..n - 1 /\ i # j
    BY <1>0, <1>1, <1>5, ElementOfSeq DEF Lists
  <2>2. ~KeyLess(Key(rk, j, w), Key(rk, i, w))
    BY <1>1, <1>5
  <2> HIDE DEF i, j
  <2>3. i \in Nat /\ j \in Nat /\ 2 * w \in Nat
    BY <1>0, <2>1
  <2>4. ~Lower(s, j, i, 2 * w)
    BY <2>1, <2>2, KeyOrder
  <2>5. ~Agree(s, i, j, 2 * w)
    <3>1. CASE 2 * w >= n
      BY <2>1, <2>3, <3>1, SuffixesDiffer
    <3>2. CASE Cardinality({r[l] : l \in 1..n}) = n
      <4> DEFINE T == {r[l] : l \in 1..n}
      <4>1. r \in Surjection(1..n, T)
        <5>1. r \in [1..n -> T]
          BY <1>4, LenProperties
        <5> QED
          BY <5>1 DEF Surjection
      <4>2. IsFiniteSet(1..n) /\ Cardinality(1..n) = n
        BY <1>0, IntervalIs
      <4>3. Cardinality(T) = Cardinality(1..n)
        BY <3>2, <4>2
      <4> HIDE DEF T
      <4>4. r \in Injection(1..n, T)
        BY <4>1, <4>2, <4>3, FS_Surjection
      <4>5. i + 1 \in 1..n /\ j + 1 \in 1..n /\ i + 1 # j + 1
        BY <1>0, <2>1
      <4>6. r[i + 1] # r[j + 1] /\ r[i + 1] \in Nat /\ r[j + 1] \in Nat
        BY <1>4, <4>4, <4>5, ElementOfSeq DEF Injection, IsInjective
      <4>7. At(r, i) < At(r, j) \/ At(r, j) < At(r, i)
        BY <4>6 DEF At
      <4>8. Lower(s, i, j, 2 * w) \/ Lower(s, j, i, 2 * w)
        BY <1>2, <2>1, <4>7 DEF Ranks
      <4> QED
        BY <2>3, <4>8, Trichotomy
    <3> QED
      BY <1>3, <1>4, <3>1, <3>2 DEF SortedEnough
  <2>6. Lower(s, i, j, 2 * w)
    BY <2>3, <2>4, <2>5, Trichotomy
  <2> QED
    BY <2>6 DEF i, j
<1>6. 2 * w \in Nat
  OBVIOUS
<1>7. Ordered(s, b)
  BY <1>1, <1>5, <1>6 DEF Ordered
<1> QED
  BY <1>7 DEF b

\* Lower suffixes come first in the order of sequences of bytes.
LEMMA LowerIsLess ==
    ASSUME NEW s \in Seq(Byte), NEW i \in 0..Len(s) - 1, NEW j \in 0..Len(s) - 1, NEW w \in Nat,
           Lower(s, i, j, w)
    PROVE  LET a == Slice(s, i, Len(s))
               b == Slice(s, j, Len(s))
           IN  /\ a # b /\ (IsPrefix(a, b) \/ LexLess(a, b))
               /\ s[i + 1] <= s[j + 1]
<1> DEFINE n == Len(s)
           a == Slice(s, i, n)
           b == Slice(s, j, n)
<1>0. n \in Nat /\ i \in Nat /\ j \in Nat /\ i < n /\ j < n
  BY LenProperties
<1>1. /\ a \in Seq(Byte) /\ Len(a) = n - i /\ \A t \in 1..n - i : a[t] = s[i + t]
      /\ b \in Seq(Byte) /\ Len(b) = n - j /\ \A t \in 1..n - j : b[t] = s[j + t]
  <2>1. i <= n /\ j <= n /\ n <= Len(s)
    BY <1>0
  <2> QED
    BY <1>0, <2>1, SliceProperties
<1> HIDE DEF a, b
<1>2. PICK t \in 0..w - 1 : Agree(s, i, j, t) /\ Symbol(s, i + t) < Symbol(s, j + t)
  BY DEF Lower
<1>3. t \in Nat /\ i + t \in Nat /\ j + t \in Nat
  BY <1>0
<1>4. /\ Symbol(s, i + t) \in Int /\ Symbol(s, i + t) >= -1 /\ Symbol(s, j + t) \in Int
      /\ (i + t < n => Symbol(s, i + t) = s[(i + t) + 1])
      /\ (j + t < n => Symbol(s, j + t) = s[(j + t) + 1])
  BY <1>3, SymbolIs
<1>5. j + t < n
  <2>1. ~(j + t < n) => Symbol(s, j + t) = -1
    BY DEF Symbol
  <2> QED
    BY <1>2, <1>4, <2>1
<1>6. ASSUME NEW u \in 0..t - 1 PROVE i + u < n /\ j + u < n /\ s[(i + u) + 1] = s[(j + u) + 1]
  <2>1. u \in Nat /\ i + u \in Nat /\ j + u \in Nat /\ j + u < n
    BY <1>0, <1>3, <1>5
  <2>2. Symbol(s, i + u) = Symbol(s, j + u)
    BY <1>2 DEF Agree
  <2>3. Symbol(s, j + u) = s[(j + u) + 1] /\ Symbol(s, j + u) >= 0 /\ Symbol(s, j + u) \in Int
    BY <2>1, SymbolIs
  <2>4. i + u < n
    <3>1. ~(i + u < n) => Symbol(s, i + u) = -1
      BY DEF Symbol
    <3> QED
      BY <2>2, <2>3, <3>1
  <2>5. Symbol(s, i + u) = s[(i + u) + 1]
    BY <2>1, <2>4, SymbolIs
  <2> QED
    BY <2>1, <2>2, <2>3, <2>4, <2>5
<1>7. CASE i + t < n
  <2> DEFINE m == t + 1
  <2>1. m \in 1..n - i /\ m \in 1..n - j /\ i + m = (i + t) + 1 /\ j + m = (j + t) + 1
    BY <1>0, <1>3, <1>5, <1>7
  <2>2. a[m] < b[m]
    BY <1>1, <1>2, <1>4, <1>5, <1>7, <2>1
  <2>3. ASSUME NEW l \in 1..m - 1 PROVE a[l] = b[l]
    <3>1. l - 1 \in 0..t - 1 /\ (i + (l - 1)) + 1 = i + l /\ (j + (l - 1)) + 1 = j + l
      BY <1>0, <1>3
    <3>2. s[i + l] = s[j + l]
      BY <1>6, <3>1
    <3>3. l \in 1..n - i /\ l \in 1..n - j
      BY <1>0, <1>3, <2>1
    <3> QED
      BY <1>1, <3>2, <3>3
  <2>4. m \in 1..Least(Len(a), Len(b)) /\ m \in 1..Len(a)
    BY <1>0, <1>1, <2>1 DEF Least
  <2> HIDE DEF m
  <2>5. LexLess(a, b)
    BY <2>2, <2>3, <2>4 DEF LexLess
  <2>6. a[m] \in Nat /\ b[m] \in Nat
    <3>1. Byte \subseteq Nat
      BY BsdiffAssumption DEF Byte, Base
    <3>2. m \in 1..Len(b)
      BY <1>1, <2>1
    <3> QED
      BY <1>1, <2>4, <3>1, <3>2, ElementOfSeq
  <2>7. a # b
    BY <2>2, <2>6
  <2>8. s[i + 1] <= s[j + 1]
    <3>1. 1 \in 1..n - i /\ 1 \in 1..n - j
      BY <1>0
    <3>2. a[1] = s[i + 1] /\ b[1] = s[j + 1]
      BY <1>1, <3>1
    <3>3. CASE m = 1
      BY <2>2, <2>6, <3>2, <3>3
    <3>4. CASE m # 1
      <4>1. 1 \in 1..m - 1
        BY <2>1, <3>4
      <4>2. a[1] \in Nat
        <5>1. Byte \subseteq Nat
          BY BsdiffAssumption DEF Byte, Base
        <5> QED
          BY <1>1, <3>1, <5>1, ElementOfSeq
      <4> QED
        BY <2>3, <3>2, <4>1, <4>2
    <3> QED
      BY <3>3, <3>4
  <2> QED
    BY <2>5, <2>7, <2>8 DEF a, b
<1>8. CASE ~(i + t < n)
  <2>1. i + t = n
    <3>1. t # 0
      BY <1>0, <1>8
    <3>2. t - 1 \in 0..t - 1
      BY <1>3, <3>1
    <3>3. i + (t - 1) < n
      BY <1>6, <3>2
    <3> QED
      BY <1>0, <1>3, <1>8, <3>3
  <2>2. ASSUME NEW l \in 1..n - i PROVE a[l] = b[l]
    <3>1. l - 1 \in 0..t - 1 /\ (i + (l - 1)) + 1 = i + l /\ (j + (l - 1)) + 1 = j + l
      BY <1>0, <1>3, <2>1
    <3>2. s[i + l] = s[j + l]
      BY <1>6, <3>1
    <3>3. l \in 1..n - j
      BY <1>0, <1>5, <2>1
    <3> QED
      BY <1>1, <3>2, <3>3
  <2>3. Len(a) < Len(b)
    BY <1>0, <1>1, <1>5, <2>1
  <2>4. IsPrefix(a, b)
    <3> DEFINE l == Len(a)
    <3>1. l \in Nat /\ l <= Len(b) /\ l = n - i
      BY <1>0, <1>1, <2>3
    <3>2. SubSeq(a, 1, l) = a
      BY <1>1, SubSeqFull
    <3>3. Slice(b, 0, l) \in Seq(Byte) /\ Len(Slice(b, 0, l)) = l /\ \A x \in 1..l : Slice(b, 0, l)[x] = b[0 + x]
      <4>1. l - 0 = l /\ 0 \in Nat /\ 0 <= l
        BY <3>1
      <4>2. b \in Seq(Byte) /\ l \in Nat /\ l <= Len(b)
        BY <1>1, <3>1
      <4> HIDE DEF l
      <4>3. /\ Slice(b, 0, l) \in Seq(Byte) /\ Len(Slice(b, 0, l)) = l - 0
            /\ \A x \in 1..l - 0 : Slice(b, 0, l)[x] = b[0 + x]
        BY <4>1, <4>2, SliceProperties
      <4> QED
        BY <4>1, <4>3
    <3>4. \A x \in 1..l : 0 + x = x /\ a[x] = b[x]
      BY <2>2, <3>1
    <3>5. Slice(b, 0, l) = a
      <4>1. Len(a) = l
        OBVIOUS
      <4> HIDE DEF l
      <4> QED
        BY <1>1, <3>3, <3>4, <4>1, SeqEqual
    <3>6. Slice(b, 0, l) = SubSeq(b, 1, l)
      BY DEF Slice
    <3> QED
      BY <1>1, <2>3, <3>2, <3>5, <3>6 DEF IsPrefix
  <2>5. a # b
    BY <1>0, <1>1, <2>3
  <2>6. s[i + 1] <= s[j + 1]
    <3>1. 0 \in 0..t - 1 /\ (i + 0) + 1 = i + 1 /\ (j + 0) + 1 = j + 1
      BY <1>0, <1>3, <2>1
    <3>2. s[i + 1] = s[j + 1]
      BY <1>6, <3>1
    <3>3. s[j + 1] \in Nat
      <4>1. Byte \subseteq Nat
        BY BsdiffAssumption DEF Byte, Base
      <4>2. j + 1 \in 1..Len(s)
        BY <1>0
      <4> QED
        BY <4>1, <4>2, ElementOfSeq
    <3> QED
      BY <3>2, <3>3
  <2> QED
    BY <2>4, <2>5, <2>6 DEF a, b
<1> QED
  BY <1>7, <1>8

----------------------------------------------------------------------------
(* search offers what matches, and something wherever the byte occurs.     *)

\* The n bytes of f from p on are those of t from s on
SameBytes(f, p, t, s, n) == \A i \in 1..n : f[p + i] = t[s + i]

\* A slice that is given by its length.
LEMMA SliceFrom ==
    ASSUME NEW s \in Seq(Byte), NEW i \in Nat, NEW l \in Nat, i + l <= Len(s)
    PROVE  /\ Slice(s, i, i + l) \in Seq(Byte) /\ Len(Slice(s, i, i + l)) = l
           /\ \A n \in 1..l : Slice(s, i, i + l)[n] = s[i + n]
<1> DEFINE j == i + l
<1>1. j \in Nat /\ i <= j /\ j <= Len(s) /\ j - i = l
  OBVIOUS
<1> HIDE DEF j
<1>2. /\ Slice(s, i, j) \in Seq(Byte) /\ Len(Slice(s, i, j)) = j - i
      /\ \A n \in 1..j - i : Slice(s, i, j)[n] = s[i + n]
  BY <1>1, SliceProperties
<1>3. /\ Slice(s, i, j) \in Seq(Byte) /\ Len(Slice(s, i, j)) = l
      /\ \A n \in 1..l : Slice(s, i, j)[n] = s[i + n]
  BY <1>1, <1>2
<1> QED
  BY <1>3 DEF j

\* Two slices of one length are equal when their bytes are.
LEMMA SlicesEqual ==
    ASSUME NEW f \in Seq(Byte), NEW t \in Seq(Byte), NEW p \in Nat, NEW s \in Nat, NEW l \in Nat,
           NEW x, NEW y, x = p + l, y = s + l, x <= Len(f), y <= Len(t)
    PROVE  Slice(f, p, x) = Slice(t, s, y) <=> SameBytes(f, p, t, s, l)
<1> DEFINE a == Slice(f, p, x)
           b == Slice(t, s, y)
<1>1. /\ a \in Seq(Byte) /\ Len(a) = l /\ \A i \in 1..l : a[i] = f[p + i]
      /\ b \in Seq(Byte) /\ Len(b) = l /\ \A i \in 1..l : b[i] = t[s + i]
  <2>1. /\ Slice(f, p, p + l) \in Seq(Byte) /\ Len(Slice(f, p, p + l)) = l
        /\ \A i \in 1..l : Slice(f, p, p + l)[i] = f[p + i]
    BY SliceFrom
  <2>2. /\ Slice(t, s, s + l) \in Seq(Byte) /\ Len(Slice(t, s, s + l)) = l
        /\ \A i \in 1..l : Slice(t, s, s + l)[i] = t[s + i]
    BY SliceFrom
  <2> QED
    BY <2>1, <2>2
<1> HIDE DEF a, b
<1>2. ASSUME \A i \in 1..l : f[p + i] = t[s + i] PROVE a = b
  <2>1. \A i \in 1..Len(a) : a[i] = b[i]
    BY <1>1, <1>2
  <2> QED
    BY <1>1, <2>1, SeqEqual
<1>3. ASSUME a = b, NEW i \in 1..l PROVE f[p + i] = t[s + i]
  BY <1>1, <1>3
<1>4. a = b <=> \A i \in 1..l : f[p + i] = t[s + i]
  BY <1>2, <1>3
<1> QED
  BY <1>4 DEF a, b, SameBytes

\* What bsdiff works on while it scans
Images == from \in Seq(Byte) /\ to \in Seq(Byte) /\ scan \in Nat /\ scan < Len(to)

\* MatchLen is the length of the common prefix.
LEMMA MatchLenIs ==
    ASSUME Images, NEW p \in 0..Len(from)
    PROVE  /\ MatchLen(p) \in 0..Least(Len(from) - p, Len(to) - scan)
           /\ IsMatchLen(MatchLen(p), p, scan)
           /\ p < Len(from) /\ from[p + 1] = to[scan + 1] => MatchLen(p) >= 1
<1> DEFINE L == Least(Len(from) - p, Len(to) - scan)
           S == {l \in 0..L : Slice(from, p, p + l) = Slice(to, scan, scan + l)}
           m == MatchLen(p)
<1>0. /\ from \in Seq(Byte) /\ to \in Seq(Byte) /\ scan \in Nat /\ scan < Len(to)
      /\ Len(from) \in Nat /\ Len(to) \in Nat /\ p \in Nat /\ p <= Len(from)
  BY LenProperties DEF Images
<1>1. L \in Nat /\ p + L <= Len(from) /\ scan + L <= Len(to)
  BY <1>0 DEF Least
<1>2. p < Len(from) => L >= 1
  BY <1>0 DEF Least
<1>3. \A l \in Nat : p + l < Len(from) /\ scan + l < Len(to) => l + 1 <= L
  BY <1>0 DEF Least
<1> HIDE DEF L
<1>4. ASSUME NEW l \in 0..L
      PROVE  l \in S <=> \A i \in 1..l : from[p + i] = to[scan + i]
  <2>1. l \in Nat /\ p + l <= Len(from) /\ scan + l <= Len(to)
    BY <1>0, <1>1
  <2>2. Slice(from, p, p + l) = Slice(to, scan, scan + l) <=> \A i \in 1..l : from[p + i] = to[scan + i]
    <3> DEFINE x == p + l
               y == scan + l
    <3>1. l \in Nat /\ p \in Nat /\ scan \in Nat /\ from \in Seq(Byte) /\ to \in Seq(Byte)
      BY <1>0, <2>1
    <3>2. x = p + l /\ y = scan + l /\ x <= Len(from) /\ y <= Len(to)
      BY <2>1
    <3> HIDE DEF x, y
    <3>3. Slice(from, p, x) = Slice(to, scan, y) <=> SameBytes(from, p, to, scan, l)
      BY <3>1, <3>2, SlicesEqual
    <3> QED
      BY <3>3 DEF x, y, SameBytes
  <2> QED
    BY <2>2
<1>5. 0 \in S
  <2>1. 0 \in 0..L
    BY <1>1
  <2>2. \A i \in 1..0 : from[p + i] = to[scan + i]
    OBVIOUS
  <2> HIDE DEF S
  <2> QED
    BY <1>4, <2>1, <2>2
<1>6. S \in SUBSET (0..L) /\ S # {}
  <2>1. S \in SUBSET (0..L)
    OBVIOUS
  <2> HIDE DEF S
  <2> QED
    BY <1>5, <2>1
<1>7. m = Max(S)
  BY DEF MatchLen, L
<1> HIDE DEF S, m
<1>8. m \in S /\ \A x \in S : x <= m
  BY <1>1, <1>6, <1>7, MaxIs
<1>9. m \in 0..L
  BY <1>6, <1>8
<1>10. Slice(from, p, p + m) = Slice(to, scan, scan + m)
  BY <1>8 DEF S
<1>11. ASSUME p + m < Len(from), scan + m < Len(to) PROVE At(from, p + m) # At(to, scan + m)
  <2>1. m + 1 \in 0..L
    BY <1>1, <1>3, <1>9, <1>11
  <2>2. m + 1 \notin S
    BY <1>1, <1>8, <1>9
  <2>3. PICK i \in 1..m + 1 : from[p + i] # to[scan + i]
    BY <1>4, <2>1, <2>2
  <2>4. i \notin 1..m
    BY <1>4, <1>8, <1>9, <2>3
  <2>5. i = m + 1 /\ p + i = (p + m) + 1 /\ scan + i = (scan + m) + 1
    BY <1>0, <1>1, <1>9, <2>3, <2>4
  <2> QED
    BY <2>3, <2>5 DEF At
<1>12. IsMatchLen(m, p, scan)
  BY <1>10, <1>11 DEF IsMatchLen
<1>13. ASSUME p < Len(from), from[p + 1] = to[scan + 1] PROVE m >= 1
  <2>1. 1 \in 0..L
    BY <1>1, <1>2, <1>13
  <2>2. \A i \in 1..1 : i = 1
    OBVIOUS
  <2>3. 1 \in S
    BY <1>4, <1>13, <2>1, <2>2
  <2>4. 1 <= m
    BY <1>8, <2>3
  <2> QED
    BY <1>1, <1>9, <2>4
<1> QED
  BY <1>9, <1>12, <1>13 DEF L, m

\* Better is the candidate with the longer match.
LEMMA BetterIs ==
    ASSUME Images, NEW p \in 0..Len(from), NEW q \in 0..Len(from)
    PROVE  /\ Better(p, q) \in 0..Len(from)
           /\ MatchLen(Better(p, q)) >= MatchLen(p) /\ MatchLen(Better(p, q)) >= MatchLen(q)
<1>1. MatchLen(p) \in Int /\ MatchLen(q) \in Int
  <2>1. Len(from) - p \in Int /\ Len(to) - scan \in Int
    BY LenProperties DEF Images
  <2>2. Least(Len(from) - p, Len(to) - scan) \in Int
    BY <2>1 DEF Least
  <2> QED
    BY MatchLenIs
<1> QED
  BY <1>1 DEF Better

----------------------------------------------------------------------------

\* Where narrow halves its range r of the suffix array; whether the suffix at p is
\* below the target from scan on; the ranges; the recursion of Search
Middle(r) == r[1] + (r[2] - r[1]) \div 2

Below(p) ==
    LET n == Least(Len(from) - p, Len(to) - scan)
    IN  LexLess(Slice(from, p, p + n), Slice(to, scan, scan + n))

Ranges == (0..Len(from)) \X (0..Len(from))

Turn(g, r) ==
    IF r[2] - r[1] < 2 THEN Better(SuffixArray[r[1] + 1], SuffixArray[r[2] + 1])
    ELSE IF Below(SuffixArray[Middle(r) + 1]) THEN g[<<Middle(r), r[2]>>] ELSE g[<<r[1], Middle(r)>>]

\* Each half is a range, and smaller.
LEMMA HalvesAreSmaller ==
    ASSUME Len(from) \in Nat, NEW r \in Ranges, ~(r[2] - r[1] < 2)
    PROVE  /\ r[1] \in 0..Len(from) /\ r[2] \in 0..Len(from) /\ Middle(r) \in 0..Len(from)
           /\ r[1] < Middle(r) /\ Middle(r) < r[2]
           /\ <<Middle(r), r[2]>> \in Ranges /\ <<r[1], Middle(r)>> \in Ranges
           /\ r[2] - Middle(r) < r[2] - r[1] /\ Middle(r) - r[1] < r[2] - r[1]
<1>1. r[1] \in 0..Len(from) /\ r[2] \in 0..Len(from)
  BY DEF Ranges
<1>2. /\ Middle(r) \in Int /\ r[1] < Middle(r) /\ Middle(r) < r[2]
  BY <1>1 DEF Middle
<1>3. Middle(r) \in 0..Len(from)
  BY <1>1, <1>2
<1> QED
  BY <1>1, <1>2, <1>3 DEF Ranges

\* The recursion of Search is by the length of the range, so there is such a function.
LEMMA NarrowExists ==
    ASSUME Len(from) \in Nat
    PROVE  \E g : g = [r \in Ranges |-> Turn(g, r)]
<1> DEFINE Solves(g, m) == \A r \in Ranges : r[2] - r[1] <= m => g[r] = Turn(g, r)
           P == {m \in Nat : \E g : Solves(g, m)}
<1>0. \A r \in Ranges : r[1] \in Int /\ r[2] \in Int /\ r[2] - r[1] <= Len(from)
  BY DEF Ranges
<1>1. 0 \in P
  <2> DEFINE h == [r \in Ranges |-> Better(SuffixArray[r[1] + 1], SuffixArray[r[2] + 1])]
  <2>1. ASSUME NEW r \in Ranges, r[2] - r[1] <= 0 PROVE h[r] = Turn(h, r)
    <3>1. r[2] - r[1] < 2
      BY <1>0, <2>1
    <3> QED
      BY <3>1 DEF Turn
  <2>2. Solves(h, 0)
    BY <2>1
  <2>3. \E g : Solves(g, 0)
    <3> HIDE DEF Solves
    <3> QED BY <2>2
  <2> QED
    BY <2>3
<1>2. ASSUME NEW m \in Nat, m \in P PROVE m + 1 \in P
  <2>1. PICK g : Solves(g, m)
    BY <1>2
  <2> DEFINE h == [r \in Ranges |-> IF r[2] - r[1] = m + 1 THEN Turn(g, r) ELSE g[r]]
  <2>2. ASSUME NEW r \in Ranges, r[2] - r[1] <= m + 1 PROVE h[r] = Turn(g, r) /\ Turn(g, r) = Turn(h, r)
    <3>1. h[r] = Turn(g, r)
      <4>1. CASE r[2] - r[1] = m + 1
        BY <4>1
      <4>2. CASE r[2] - r[1] # m + 1
        <5>1. r[2] - r[1] <= m
          BY <1>0, <2>2, <4>2
        <5> QED
          BY <2>1, <4>2, <5>1
      <4> QED
        BY <4>1, <4>2
    <3>2. CASE r[2] - r[1] < 2
      BY <3>1, <3>2 DEF Turn
    <3>3. CASE ~(r[2] - r[1] < 2)
      <4>1. /\ <<Middle(r), r[2]>> \in Ranges /\ <<r[1], Middle(r)>> \in Ranges
            /\ r[2] - Middle(r) < r[2] - r[1] /\ Middle(r) - r[1] < r[2] - r[1]
            /\ Middle(r) \in Int
        BY <3>3, HalvesAreSmaller
      <4> DEFINE x == <<Middle(r), r[2]>>
                 y == <<r[1], Middle(r)>>
      <4>2. x[2] - x[1] # m + 1 /\ y[2] - y[1] # m + 1 /\ x \in Ranges /\ y \in Ranges
        BY <1>0, <2>2, <4>1
      <4> HIDE DEF x, y
      <4>3. h[x] = g[x] /\ h[y] = g[y]
        BY <4>2
      <4> HIDE DEF h
      <4>4. Turn(g, r) = IF Below(SuffixArray[Middle(r) + 1]) THEN g[x] ELSE g[y]
        BY <3>3 DEF Turn, x, y
      <4>5. Turn(h, r) = IF Below(SuffixArray[Middle(r) + 1]) THEN h[x] ELSE h[y]
        BY <3>3 DEF Turn, x, y
      <4> QED
        BY <3>1, <4>3, <4>4, <4>5
    <3> QED
      BY <3>2, <3>3
  <2> HIDE DEF h
  <2>3. Solves(h, m + 1)
    BY <2>2
  <2>4. \E g2 : Solves(g2, m + 1)
    <3> HIDE DEF Solves
    <3> QED BY <2>3
  <2> QED
    BY <2>4
<1>3. Len(from) \in P
  <2> HIDE DEF P
  <2> QED BY <1>1, <1>2, SetInduction
<1>4. PICK g : Solves(g, Len(from))
  BY <1>3
<1> DEFINE f == [r \in Ranges |-> g[r]]
<1>5. ASSUME NEW r \in Ranges PROVE f[r] = Turn(f, r)
  <2>1. g[r] = Turn(g, r)
    BY <1>0, <1>4
  <2>2. CASE r[2] - r[1] < 2
    BY <2>1, <2>2 DEF Turn
  <2>3. CASE ~(r[2] - r[1] < 2)
    <3>1. <<Middle(r), r[2]>> \in Ranges /\ <<r[1], Middle(r)>> \in Ranges
      BY <2>3, HalvesAreSmaller
    <3> QED
      BY <2>1, <2>3, <3>1 DEF Turn
  <2> QED
    BY <2>2, <2>3
<1>6. f = [r \in Ranges |-> Turn(f, r)]
  <2>1. f = [r \in Ranges |-> f[r]]
    OBVIOUS
  <2> HIDE DEF f
  <2> QED
    BY <1>5, <2>1
<1> QED
  BY <1>6

\* Search is the value of that function on the whole suffix array.
LEMMA SearchTurns ==
    ASSUME Len(from) \in Nat
    PROVE  \E g : Search = g[<<0, Len(from)>>] /\ \A r \in Ranges : g[r] = Turn(g, r)
<1> DEFINE f == CHOOSE g : g = [r \in Ranges |-> Turn(g, r)]
<1>1. f = [r \in Ranges |-> Turn(f, r)]
  BY NarrowExists
<1>2. Search = f[<<0, Len(from)>>]
  BY DEF Search, Turn, Middle, Below, Ranges
<1> HIDE DEF f
<1>3. \A r \in Ranges : f[r] = Turn(f, r)
  BY <1>1
<1> QED
  BY <1>2, <1>3

\* sa lists every position.
LEMMA ListsAll ==
    ASSUME NEW a, NEW n \in Nat, Lists(a, n), NEW x \in 0..n - 1
    PROVE  \E p \in 1..n : a[p] = x
<1>1. a \in [1..n -> 0..n - 1]
  BY LenProperties DEF Lists
<1>2. a \in Injection(1..n, 0..n - 1)
  BY <1>1 DEF Lists, Injection, IsInjective
<1>3. IsFiniteSet(1..n) /\ Cardinality(1..n) = n
  BY IntervalIs
<1>4. IsFiniteSet(0..n - 1) /\ Cardinality(0..n - 1) = n
  <2>1. 0 \in Int /\ n - 1 \in Int
    OBVIOUS
  <2>2. IsFiniteSet(0..n - 1) /\ Cardinality(0..n - 1) = IF 0 > n - 1 THEN 0 ELSE (n - 1) - 0 + 1
    BY <2>1, FS_Interval
  <2> QED
    BY <2>2
<1>5. a \in Surjection(1..n, 0..n - 1)
  BY <1>2, <1>3, <1>4, FS_Injection
<1> QED
  BY <1>5 DEF Surjection

\* The byte with which the x-th suffix begins
First(x) == from[sa[x] + 1]

\* The suffix array without its sentinel: positions, sorted by first bytes.
LEMMA SuffixesIs ==
    ASSUME Images, Ordered(from, sa)
    PROVE  /\ SuffixArray[1] = Len(from)
           /\ \A x \in 1..Len(from) : SuffixArray[x + 1] = sa[x] /\ sa[x] \in 0..Len(from) - 1
           /\ \A x \in 0..Len(from) : SuffixArray[x + 1] \in 0..Len(from)
           /\ \A x \in 1..Len(from) : First(x) \in Nat
           /\ \A x, y \in 1..Len(from) : x <= y => First(x) <= First(y)
<1> DEFINE n == Len(from)
<1>0. n \in Nat /\ from \in Seq(Byte)
  BY LenProperties DEF Images
<1>1. sa \in Seq(0..n - 1) /\ Len(sa) = n
  BY DEF Ordered, Lists
<1>2. sa \in Seq(Int) /\ <<n>> \in Seq(Int) /\ Len(<<n>>) = 1 /\ <<n>>[1] = n
  <2>1. 0..n - 1 \subseteq Int
    OBVIOUS
  <2> QED
    BY <1>0, <1>1, <2>1, SeqMonotonic
<1>3. /\ Len(<<n>> \o sa) = 1 + n
      /\ \A i \in 1..1 + n : (<<n>> \o sa)[i] = IF i <= 1 THEN <<n>>[i] ELSE sa[i - 1]
  <2> HIDE DEF n
  <2> QED
    BY <1>1, <1>2, ConcatProperties
<1>4. SuffixArray[1] = n
  <2>1. 1 \in 1..1 + n
    BY <1>0
  <2> QED
    BY <1>2, <1>3, <2>1 DEF SuffixArray
<1>5. ASSUME NEW x \in 1..n PROVE SuffixArray[x + 1] = sa[x] /\ sa[x] \in 0..n - 1
  <2>1. x + 1 \in 1..1 + n /\ ~(x + 1 <= 1) /\ (x + 1) - 1 = x
    BY <1>0
  <2> QED
    BY <1>1, <1>3, <2>1, ElementOfSeq DEF SuffixArray
<1>6. ASSUME NEW x \in 0..n PROVE SuffixArray[x + 1] \in 0..n
  <2>1. x = 0 \/ x \in 1..n
    BY <1>0
  <2>2. x = 0 => x + 1 = 1
    OBVIOUS
  <2> QED
    BY <1>0, <1>4, <1>5, <2>1, <2>2
<1>7. ASSUME NEW x \in 1..n PROVE First(x) \in Nat
  <2>1. sa[x] + 1 \in 1..Len(from)
    BY <1>0, <1>5
  <2>2. Byte \subseteq Nat
    BY BsdiffAssumption DEF Byte, Base
  <2> QED
    BY <1>0, <2>1, <2>2, ElementOfSeq DEF First
<1>8. ASSUME NEW x \in 1..n, NEW y \in 1..n, x <= y PROVE First(x) <= First(y)
  <2>1. CASE x = y
    BY <1>7, <2>1
  <2>2. CASE x # y
    <3>1. x < y
      BY <1>0, <1>8, <2>2
    <3>2. PICK w \in Nat : Lower(from, sa[x], sa[y], w)
      BY <3>1 DEF Ordered
    <3>3. from[sa[x] + 1] <= from[sa[y] + 1]
      BY <1>0, <1>5, <3>2, LowerIsLess
    <3> QED
      BY <3>3 DEF First
  <2> QED
    BY <2>1, <2>2
<1> QED
  BY <1>4, <1>5, <1>6, <1>7, <1>8

\* The comparison of search, as far as the first byte tells.
LEMMA BelowIs ==
    ASSUME Images, NEW p \in 0..Len(from) - 1
    PROVE  /\ Below(p) => from[p + 1] <= to[scan + 1]
           /\ ~Below(p) => to[scan + 1] <= from[p + 1]
<1> DEFINE n == Least(Len(from) - p, Len(to) - scan)
           a == Slice(from, p, p + n)
           b == Slice(to, scan, scan + n)
<1>0. /\ from \in Seq(Byte) /\ to \in Seq(Byte) /\ scan \in Nat /\ Len(to) \in Nat /\ Len(from) \in Nat
      /\ scan < Len(to)
  BY LenProperties DEF Images
<1>1. n \in Nat /\ n >= 1 /\ p + n <= Len(from) /\ scan + n <= Len(to) /\ p \in Nat
  BY <1>0 DEF Least
<1>2. Below(p) = LexLess(a, b)
  BY DEF Below
<1> HIDE DEF n
<1>3. /\ a \in Seq(Byte) /\ Len(a) = n /\ \A i \in 1..n : a[i] = from[p + i]
      /\ b \in Seq(Byte) /\ Len(b) = n /\ \A i \in 1..n : b[i] = to[scan + i]
  <2> DEFINE x == p + n
             y == scan + n
  <2>1. /\ x \in Nat /\ p <= x /\ x <= Len(from) /\ x - p = n
        /\ y \in Nat /\ scan <= y /\ y <= Len(to) /\ y - scan = n
    BY <1>0, <1>1
  <2> HIDE DEF x, y
  <2>2. /\ Slice(from, p, x) \in Seq(Byte) /\ Len(Slice(from, p, x)) = x - p
        /\ \A i \in 1..x - p : Slice(from, p, x)[i] = from[p + i]
        /\ Slice(to, scan, y) \in Seq(Byte) /\ Len(Slice(to, scan, y)) = y - scan
        /\ \A i \in 1..y - scan : Slice(to, scan, y)[i] = to[scan + i]
    BY <1>0, <1>1, <2>1, SliceProperties
  <2> QED
    BY <2>1, <2>2 DEF x, y
<1> HIDE DEF a, b
<1>4. 1 \in 1..n /\ Least(Len(a), Len(b)) = n /\ 1 \in 1..Least(Len(a), Len(b))
  BY <1>1, <1>3 DEF Least
<1>5. a[1] = from[p + 1] /\ b[1] = to[scan + 1]
  BY <1>3, <1>4
<1>6. a[1] \in Nat /\ b[1] \in Nat
  <2>1. Byte \subseteq Nat
    BY BsdiffAssumption DEF Byte, Base
  <2>2. 1 \in 1..Len(a) /\ 1 \in 1..Len(b)
    BY <1>3, <1>4
  <2> QED
    BY <1>3, <2>1, <2>2, ElementOfSeq
<1>7. ASSUME LexLess(a, b) PROVE a[1] <= b[1]
  <2>1. PICK i \in 1..n : a[i] < b[i] /\ \A j \in 1..i - 1 : a[j] = b[j]
    BY <1>4, <1>7 DEF LexLess
  <2>2. CASE i = 1
    BY <1>6, <2>1, <2>2
  <2>3. CASE i # 1
    <3>1. 1 \in 1..i - 1
      BY <1>1, <2>1, <2>3
    <3> QED
      BY <1>6, <2>1, <3>1
  <2> QED
    BY <2>2, <2>3
<1>8. ASSUME a[1] < b[1] PROVE LexLess(a, b)
  <2>1. \A j \in 1..1 - 1 : a[j] = b[j]
    OBVIOUS
  <2> QED
    BY <1>4, <1>8, <2>1 DEF LexLess
<1>9. ~LexLess(a, b) => b[1] <= a[1]
  BY <1>6, <1>8
<1> QED
  BY <1>2, <1>5, <1>7, <1>9

\* The binary search ends on a position, and on one that matches if any does.
LEMMA SearchFinds ==
    ASSUME Images, Ordered(from, sa)
    PROVE  /\ Search \in 0..Len(from)
           /\ (\E x \in 0..Len(from) - 1 : from[x + 1] = to[scan + 1]) => MatchLen(Search) >= 1
<1> DEFINE n == Len(from)
           c == to[scan + 1]
           Occurs == \E x \in 0..n - 1 : from[x + 1] = c
           Brackets(r) == /\ r[1] < r[2]
                          /\ r[1] = 0 \/ First(r[1]) <= c
                          /\ r[2] = n \/ c <= First(r[2])
<1>0. n \in Nat /\ from \in Seq(Byte) /\ to \in Seq(Byte) /\ scan \in Nat
  BY LenProperties DEF Images
<1>1. c \in Nat
  <2>1. scan + 1 \in 1..Len(to)
    BY LenProperties DEF Images
  <2>2. Byte \subseteq Nat
    BY BsdiffAssumption DEF Byte, Base
  <2> QED
    BY <1>0, <2>1, <2>2, ElementOfSeq
<1>2. /\ \A x \in 1..n : SuffixArray[x + 1] = sa[x] /\ sa[x] \in 0..n - 1
      /\ \A x \in 0..n : SuffixArray[x + 1] \in 0..n
      /\ \A x \in 1..n : First(x) \in Nat
      /\ \A x, y \in 1..n : x <= y => First(x) <= First(y)
  BY SuffixesIs
<1>3. PICK g : Search = g[<<0, n>>] /\ \A r \in Ranges : g[r] = Turn(g, r)
  BY <1>0, SearchTurns
<1>4. \A r \in Ranges : r[1] \in 0..n /\ r[2] \in 0..n
  BY DEF Ranges
<1> HIDE DEF c
<1> DEFINE Good(r) == g[r] \in 0..n /\ (Occurs /\ Brackets(r) => MatchLen(g[r]) >= 1)
<1>5. ASSUME NEW r \in Ranges, r[2] - r[1] < 2 PROVE Good(r)
  <2> DEFINE p == SuffixArray[r[1] + 1]
             q == SuffixArray[r[2] + 1]
  <2>1. p \in 0..n /\ q \in 0..n
    BY <1>2, <1>4
  <2>2. g[r] = Better(p, q)
    BY <1>3, <1>5 DEF Turn
  <2>m. MatchLen(p) \in Int /\ MatchLen(q) \in Int /\ MatchLen(g[r]) \in Int
    <3>1. \A x \in 0..n : MatchLen(x) \in Int
      <4>1. ASSUME NEW x \in 0..n PROVE MatchLen(x) \in Int
        <5>1. Least(n - x, Len(to) - scan) \in Int
          BY <1>0, LenProperties DEF Least
        <5> QED
          BY <5>1, MatchLenIs
      <4> QED
        BY <4>1
    <3>2. g[r] \in 0..n
      BY <2>1, <2>2, BetterIs
    <3> QED
      BY <2>1, <3>1, <3>2
  <2> HIDE DEF p, q
  <2>3. g[r] \in 0..n /\ MatchLen(g[r]) >= MatchLen(p) /\ MatchLen(g[r]) >= MatchLen(q)
    BY <2>1, <2>2, BetterIs
  <2>4. ASSUME Occurs, Brackets(r) PROVE MatchLen(g[r]) >= 1
    <3>1. PICK x \in 0..n - 1 : from[x + 1] = c
      BY <2>4
    <3>2. PICK i \in 1..n : sa[i] = x
      BY <1>0, ListsAll DEF Ordered
    <3>3. First(i) = c
      BY <3>1, <3>2 DEF First
    <3>4. r[2] = r[1] + 1 /\ r[1] \in 0..n /\ r[2] \in 1..n
      BY <1>0, <1>4, <1>5, <2>4
    <3>5. CASE i <= r[1]
      <4>1. r[1] \in 1..n
        BY <1>0, <3>4, <3>5
      <4>2. First(i) <= First(r[1]) /\ First(r[1]) <= c /\ First(r[1]) \in Nat
        BY <1>0, <1>2, <2>4, <3>5, <4>1
      <4>3. First(r[1]) = c
        BY <1>1, <3>3, <4>2
      <4>4. p = sa[r[1]] /\ sa[r[1]] \in 0..n - 1
        BY <1>2, <4>1 DEF p
      <4>5. p \in 0..n /\ p < n /\ from[p + 1] = to[scan + 1]
        BY <1>0, <4>3, <4>4 DEF First, c
      <4>6. MatchLen(p) >= 1
        BY <4>5, MatchLenIs
      <4> QED
        BY <2>3, <2>m, <4>6
    <3>6. CASE r[2] <= i
      <4>1. First(r[2]) <= First(i) /\ First(r[2]) \in Nat
        BY <1>2, <3>4, <3>6
      <4>2. First(r[2]) = c
        <5>1. CASE r[2] = n
          <6>1. i = r[2]
            BY <1>0, <3>6, <5>1
          <6> QED
            BY <3>3, <6>1
        <5>2. CASE c <= First(r[2])
          BY <1>1, <3>3, <4>1, <5>2
        <5> QED
          BY <2>4, <5>1, <5>2
      <4>4. q = sa[r[2]] /\ sa[r[2]] \in 0..n - 1
        BY <1>2, <3>4 DEF q
      <4>5. q \in 0..n /\ q < n /\ from[q + 1] = to[scan + 1]
        BY <1>0, <4>2, <4>4 DEF First, c
      <4>6. MatchLen(q) >= 1
        BY <4>5, MatchLenIs
      <4> QED
        BY <2>3, <2>m, <4>6
    <3> QED
      BY <1>0, <3>4, <3>5, <3>6
  <2> QED
    BY <2>3, <2>4
<1>6. ASSUME NEW r \in Ranges, ~(r[2] - r[1] < 2),
             Good(<<Middle(r), r[2]>>), Good(<<r[1], Middle(r)>>)
      PROVE  Good(r)
  <2> DEFINE m == Middle(r)
             x == <<m, r[2]>>
             y == <<r[1], m>>
  <2>1. m \in 0..n /\ r[1] < m /\ m < r[2] /\ r[1] \in 0..n /\ r[2] \in 0..n
    BY <1>0, <1>6, HalvesAreSmaller
  <2>2. m \in 1..n
    BY <1>0, <2>1
  <2>3. g[r] = IF Below(SuffixArray[m + 1]) THEN g[x] ELSE g[y]
    BY <1>3, <1>6 DEF Turn
  <2>4. x[1] = m /\ x[2] = r[2] /\ y[1] = r[1] /\ y[2] = m
    OBVIOUS
  <2>5. Good(x) /\ Good(y)
    BY <1>6
  <2>6. SuffixArray[m + 1] = sa[m] /\ sa[m] \in 0..n - 1
    BY <1>2, <2>2
  <2>7. /\ Below(sa[m]) => First(m) <= c
        /\ ~Below(sa[m]) => c <= First(m)
    BY <2>6, BelowIs DEF First, c
  <2> HIDE DEF m, x, y
  <2>8. CASE Below(sa[m])
    <3>1. g[r] = g[x]
      BY <2>3, <2>6, <2>8
    <3>2. Brackets(r) => Brackets(x)
      BY <2>1, <2>4, <2>7, <2>8
    <3> QED
      BY <2>5, <3>1, <3>2
  <2>9. CASE ~Below(sa[m])
    <3>1. g[r] = g[y]
      BY <2>3, <2>6, <2>9
    <3>2. Brackets(r) => Brackets(y)
      BY <2>1, <2>4, <2>7, <2>9
    <3> QED
      BY <2>5, <3>1, <3>2
  <2> QED
    BY <2>8, <2>9
<1> HIDE DEF Good
<1> DEFINE P == {m \in Nat : \A r \in Ranges : r[2] - r[1] <= m => Good(r)}
<1>7. 0 \in P
  <2>1. ASSUME NEW r \in Ranges, r[2] - r[1] <= 0 PROVE Good(r)
    <3>1. r[2] - r[1] < 2
      BY <1>0, <1>4, <2>1
    <3> QED
      BY <1>5, <3>1
  <2> QED
    BY <2>1
<1>8. ASSUME NEW m \in Nat, m \in P PROVE m + 1 \in P
  <2>1. ASSUME NEW r \in Ranges, r[2] - r[1] <= m + 1 PROVE Good(r)
    <3>1. CASE r[2] - r[1] < 2
      BY <1>5, <3>1
    <3>2. CASE ~(r[2] - r[1] < 2)
      <4>1. /\ <<Middle(r), r[2]>> \in Ranges /\ <<r[1], Middle(r)>> \in Ranges
            /\ r[2] - Middle(r) < r[2] - r[1] /\ Middle(r) - r[1] < r[2] - r[1]
            /\ Middle(r) \in 0..n
        BY <1>0, <3>2, HalvesAreSmaller
      <4> DEFINE x == <<Middle(r), r[2]>>
                 y == <<r[1], Middle(r)>>
      <4>2. x \in Ranges /\ y \in Ranges /\ x[2] - x[1] <= m /\ y[2] - y[1] <= m
        BY <1>0, <1>4, <2>1, <4>1
      <4>3. Good(x) /\ Good(y)
        <5> HIDE DEF x, y
        <5> QED
          BY <1>8, <4>2
      <4> QED
        BY <1>6, <3>2, <4>3
    <3> QED
      BY <3>1, <3>2
  <2> QED
    BY <2>1
<1>9. n \in P
  <2> HIDE DEF P
  <2> QED BY <1>0, <1>7, <1>8, SetInduction
<1>10. <<0, n>> \in Ranges /\ <<0, n>>[1] = 0 /\ <<0, n>>[2] = n
  BY <1>0 DEF Ranges
<1>11. Good(<<0, n>>)
  <2>1. <<0, n>>[2] - <<0, n>>[1] <= n
    BY <1>0, <1>10
  <2> QED
    BY <1>9, <1>10, <2>1
<1>12. Occurs => Brackets(<<0, n>>)
  BY <1>0, <1>10
<1>13. Search \in 0..n /\ (Occurs => MatchLen(Search) >= 1)
  BY <1>3, <1>11, <1>12 DEF Good
<1> QED
  BY <1>13 DEF c

----------------------------------------------------------------------------
(* The invariant of the encoders.                                          *)

\* The aligned bytes from a up to b
Window(a, b) == {i \in a..b - 1 : Aligned(i)}

\* What the three invariants need to be inductive: what the sort has reached
\* with k, and that no byte the score has missed was aligned
DeltaInv ==
    /\ BsdiffInv
    /\ req \in Requests /\ segment \in Nat
    /\ phase \in {"segment", "done"} => pc \in {"ready", "done"}
    /\ phase = "sort" => Lists(sa, Len(from)) /\ k \in Nat \ {0} /\ Ranks(from, rank, k)
    /\ phase = "diff" => Ordered(from, sa)
    /\ pc = "inner" => /\ oldscore = Cardinality(Window(scan, scsc))
                       /\ \A i \in scsc..scan - 1 : ~Aligned(i)

\* A part of an image is an image, also where it is empty.
LEMMA SliceIsImage ==
    ASSUME NEW s \in Seq(Byte), NEW i \in Nat, NEW j \in Int, j <= Len(s)
    PROVE  Slice(s, i, j) \in Seq(Byte)
<1>1. \A n \in i + 1..j : s[n] \in Byte
  BY LenProperties, ElementOfSeq
<1>2. i + 1 \in Int
  OBVIOUS
<1> QED
  BY <1>1, <1>2, SubSeqProperties DEF Slice

\* Segments are images.
LEMMA SegmentsAreImages ==
    ASSUME NEW r \in Requests, NEW s \in Nat
    PROVE  SegmentFrom(r, s) \in Seq(Byte) /\ SegmentTo(r, s) \in Seq(Byte)
<1>1. r.from \in Seq(Byte) /\ r.to \in Seq(Byte) /\ Len(r.from) \in Nat /\ Len(r.to) \in Nat
  BY DeltaAssumption, LenProperties
<1>2. CASE InPlaceType(r)
  <2>1. r.seg \in Nat /\ r.seg > 0 /\ r.mem \in Nat
    BY <1>2, DeltaAssumption DEF InPlaceType
  <2>2. CalcShift(r) \in Int
    <3>1. Ceiling(r.mem, r.seg) \in Int /\ Ceiling(Len(r.from), r.seg) \in Int
      BY <1>1, <2>1 DEF Ceiling
    <3>2. Ceiling(r.mem, r.seg) - Ceiling(Len(r.from), r.seg) \in Int
      BY <3>1
    <3> QED
      BY <2>1, <3>2 DEF CalcShift, Greatest
  <2>3. (s + 1) * r.seg \in Nat /\ s * r.seg \in Nat
    BY <2>1
  <2>4. FromOffset(r, s) \in Nat
    BY <2>2, <2>3 DEF FromOffset, Greatest
  <2>5. Least(Len(r.from), r.mem - CalcShift(r)) \in Int /\ Least(Len(r.from), r.mem - CalcShift(r)) <= Len(r.from)
    BY <1>1, <2>1, <2>2 DEF Least
  <2>6. Least((s + 1) * r.seg, Len(r.to)) \in Int /\ Least((s + 1) * r.seg, Len(r.to)) <= Len(r.to)
    BY <1>1, <2>3 DEF Least
  <2> QED
    BY <1>1, <1>2, <2>3, <2>4, <2>5, <2>6, SliceIsImage DEF SegmentFrom, SegmentTo
<1>3. CASE ~InPlaceType(r)
  BY <1>1, <1>3 DEF SegmentFrom, SegmentTo
<1> QED
  BY <1>2, <1>3

\* What search returns is an offer.
LEMMA SearchOffers ==
    ASSUME DeltaInv, phase = "diff", pc = "inner", scan < Len(to)
    PROVE  /\ Images
           /\ Search \in 0..Len(from)
           /\ MatchLen(Search) \in 0..Least(Len(from) - Search, Len(to) - scan)
           /\ IsMatchLen(MatchLen(Search), Search, scan)
           /\ (\E x \in 0..Len(from) - 1 : from[x + 1] = to[scan + 1]) => MatchLen(Search) >= 1
<1>1. Images
  BY DEF DeltaInv, BsdiffInv, BsdiffTypeOK, Images
<1>2. Ordered(from, sa)
  BY DEF DeltaInv
<1> QED
  BY <1>1, <1>2, SearchFinds, MatchLenIs

\* The steps of the encoder are steps of bsdiff.
LEMMA StepIsBsdiff == DeltaInv /\ [Next]_vars => [BsdiffNext]_bsdiffVars
<1> SUFFICES ASSUME DeltaInv, [Next]_vars PROVE [BsdiffNext]_bsdiffVars
  OBVIOUS
<1>1. CASE NextSegment
  <2>1. Start(SegmentFrom(req, segment), SegmentTo(req, segment))
    BY <1>1 DEF NextSegment
  <2>2. from' = SegmentFrom(req, segment) /\ to' = SegmentTo(req, segment)
    BY <2>1 DEF Start
  <2>3. from' \in Seq(Byte) /\ to' \in Seq(Byte)
    BY <2>2, SegmentsAreImages DEF DeltaInv
  <2> QED
    BY <2>1, <2>2, <2>3 DEF Call, BsdiffNext
<1>2. CASE pc = "inner" /\ phase = "diff" /\ \E p \in {Search} : \E l \in {MatchLen(p)} : Scan(l, p)
  <2>1. Scan(MatchLen(Search), Search)
    BY <1>2
  <2>2. scan < Len(to)
    BY <2>1 DEF Scan
  <2>3. Offer
    BY <1>2, <2>1, <2>2, SearchOffers DEF Offer
  <2> QED
    BY <2>3 DEF BsdiffNext
<1>3. CASE DiffStep
  BY <1>2, <1>3 DEF DiffStep, BsdiffNext
<1>4. CASE UNCHANGED bsdiffVars
  BY <1>4
<1> QED
  BY <1>1, <1>3, <1>4 DEF Next, SortRound, EndSegment, Finish, Done, vars

\* Windows are finite, and an empty one counts nothing.
LEMMA WindowsAreFinite ==
    ASSUME NEW a \in Int, NEW b \in Int
    PROVE  /\ IsFiniteSet(Window(a, b))
           /\ a >= b => Window(a, b) = {} /\ Cardinality(Window(a, b)) = 0
<1>1. IsFiniteSet(a..b - 1)
  <2>1. b - 1 \in Int
    OBVIOUS
  <2> QED
    BY <2>1, FS_Interval
<1>2. Window(a, b) \subseteq a..b - 1
  BY DEF Window
<1>3. a >= b => Window(a, b) = {}
  <2>1. a >= b => a..b - 1 = {}
    OBVIOUS
  <2> QED
    BY <1>2, <2>1
<1> QED
  BY <1>1, <1>2, <1>3, FS_Subset, FS_EmptySet

\* The score with the bytes of the new match is the window up to the new scsc,
\* and without the byte at scan the window from the next one on.
LEMMA WindowMoves ==
    ASSUME NEW l \in Nat, NEW z, z = Greatest(scsc, scan + l),
           scan \in Nat, scsc \in Nat,
           \A i \in scsc..scan - 1 : ~Aligned(i),
           scsc <= scan /\ Aligned(scan) => l >= 1
    PROVE  /\ Cardinality(Window(scan, z))
                = Cardinality(Window(scan, scsc)) + Cardinality(Window(scsc, scan + l))
           /\ Cardinality(Window(scan + 1, z))
                = Cardinality(Window(scan, z)) - (IF Aligned(scan) THEN 1 ELSE 0)
           /\ \A i \in z..scan : ~Aligned(i)
<1>1. z \in Nat /\ z >= scsc /\ z >= scan + l /\ (z = scsc \/ z = scan + l)
  BY DEF Greatest
<1> DEFINE A == Window(scan, scsc)
           B == Window(scsc, scan + l)
           C == Window(scan, z)
           D == Window(scan + 1, z)
<1>2. /\ \A i : i \in A <=> i \in scan..scsc - 1 /\ Aligned(i)
      /\ \A i : i \in B <=> i \in scsc..(scan + l) - 1 /\ Aligned(i)
      /\ \A i : i \in C <=> i \in scan..z - 1 /\ Aligned(i)
      /\ \A i : i \in D <=> i \in scan + 1..z - 1 /\ Aligned(i)
  BY DEF Window
<1>3. IsFiniteSet(A) /\ IsFiniteSet(B) /\ IsFiniteSet(C) /\ IsFiniteSet(D)
  BY <1>1, WindowsAreFinite
<1> HIDE DEF A, B, C, D
<1>4. C = A \cup B
  <2>1. ASSUME NEW i, i \in C PROVE i \in A \cup B
    BY <1>1, <1>2, <2>1
  <2>2. ASSUME NEW i, i \in A PROVE i \in C
    BY <1>1, <1>2, <2>2
  <2>3. ASSUME NEW i, i \in B PROVE i \in C
    <3>1. i \in scsc..(scan + l) - 1 /\ Aligned(i)
      BY <1>2, <2>3
    <3>2. i \notin scsc..scan - 1
      BY <3>1
    <3>3. i \in scan..z - 1
      BY <1>1, <3>1, <3>2
    <3> QED
      BY <1>2, <3>1, <3>3
  <2> QED
    BY <2>1, <2>2, <2>3
<1>5. A \cap B = {}
  <2>1. ASSUME NEW i, i \in A, i \in B PROVE FALSE
    BY <1>2, <2>1
  <2> QED
    BY <2>1
<1>6. Cardinality(C) = Cardinality(A) + Cardinality(B)
  <2>1. Cardinality(A \cup B) = Cardinality(A) + Cardinality(B) - Cardinality(A \cap B)
    BY <1>3, FS_Union
  <2>2. Cardinality(A) \in Nat /\ Cardinality(B) \in Nat /\ Cardinality(A \cap B) = 0
    BY <1>3, <1>5, FS_CardinalityType, FS_EmptySet
  <2> QED
    BY <1>4, <2>1, <2>2
<1>7. Aligned(scan) => scan < z
  BY <1>1
<1>8. \A i \in z..scan : ~Aligned(i)
  <2>1. ASSUME NEW i \in z..scan PROVE i = scan /\ ~(scan < z)
    BY <1>1
  <2> QED
    BY <1>7, <2>1
<1>9. CASE Aligned(scan)
  <2>1. scan \in C
    BY <1>1, <1>2, <1>7, <1>9
  <2>2. D = C \ {scan}
    <3>1. ASSUME NEW i PROVE i \in D <=> i \in C /\ i # scan
      BY <1>1, <1>2
    <3> QED
      BY <3>1
  <2>3. Cardinality(C \ {scan}) = Cardinality(C) - 1
    BY <1>3, <2>1, FS_RemoveElement
  <2> QED
    BY <1>6, <1>8, <1>9, <2>2, <2>3 DEF A, B, C, D
<1>10. CASE ~Aligned(scan)
  <2>1. D = C
    <3>1. ASSUME NEW i PROVE i \in D <=> i \in C
      <4>1. i \in C => i # scan
        BY <1>2, <1>10
      <4> QED
        BY <1>1, <1>2, <4>1
    <3> QED
      BY <3>1
  <2>2. Cardinality(C) \in Nat
    BY <1>3, FS_CardinalityType
  <2>3. Cardinality(D) = Cardinality(C) - 0
    BY <2>1, <2>2
  <2> QED
    BY <1>6, <1>8, <1>10, <2>3 DEF A, B, C, D
<1> QED
  BY <1>9, <1>10

\* A turn of the inner loop keeps the score.
LEMMA ScanKeepsScore ==
    ASSUME DeltaInv, phase = "diff", pc = "inner", Scan(MatchLen(Search), Search), pc' = "inner"
    PROVE  /\ oldscore' = Cardinality(Window(scan, scsc)')
           /\ \A i \in scsc'..scan' - 1 : ~Aligned(i)'
<1> DEFINE l == MatchLen(Search)
<1>1. scan < Len(to)
  BY DEF Scan
<1>2. /\ scan \in Nat /\ scsc \in Nat /\ lastoffset \in Int /\ 0 <= scsc + lastoffset
      /\ Len(from) \in Nat /\ Len(to) \in Nat
  BY LenProperties DEF DeltaInv, BsdiffInv, BsdiffTypeOK, DecoderInStep, IndicesInBounds
<1>3. l \in Nat /\ ((\E x \in 0..Len(from) - 1 : from[x + 1] = to[scan + 1]) => l >= 1)
  <2>1. /\ Search \in 0..Len(from)
        /\ l \in 0..Least(Len(from) - Search, Len(to) - scan)
        /\ (\E x \in 0..Len(from) - 1 : from[x + 1] = to[scan + 1]) => l >= 1
    BY <1>1, SearchOffers
  <2> QED
    BY <2>1
<1>4. scsc <= scan /\ Aligned(scan) => l >= 1
  <2> SUFFICES ASSUME scsc <= scan, Aligned(scan) PROVE l >= 1
    OBVIOUS
  <2>1. scan + lastoffset \in 0..Len(from) - 1 /\ from[(scan + lastoffset) + 1] = to[scan + 1]
    BY <1>2 DEF Aligned, At
  <2> QED
    BY <1>3, <2>1
<1>5. /\ oldscore = Cardinality(Window(scan, scsc))
      /\ \A i \in scsc..scan - 1 : ~Aligned(i)
  BY DEF DeltaInv
<1> HIDE DEF l
<1> DEFINE gain == Cardinality({i \in scsc..scan + l - 1 : Aligned(i)})
<1>s. Scan(l, Search)
  BY DEF l
<1>6. /\ scsc' = Greatest(scsc, scan + l)
      /\ scan' = scan + 1
      /\ oldscore' = (oldscore + gain) - (IF Aligned(scan) THEN 1 ELSE 0)
      /\ UNCHANGED <<from, to, lastoffset>>
  BY <1>s DEF Scan, args, last
<1>7. gain = Cardinality(Window(scsc, scan + l))
  <2>1. scan + l - 1 = (scan + l) - 1
    BY <1>2, <1>3
  <2> QED
    BY <2>1 DEF Window
<1> HIDE DEF gain
<1>8. /\ Cardinality(Window(scan, scsc'))
           = Cardinality(Window(scan, scsc)) + Cardinality(Window(scsc, scan + l))
      /\ Cardinality(Window(scan + 1, scsc'))
           = Cardinality(Window(scan, scsc')) - (IF Aligned(scan) THEN 1 ELSE 0)
      /\ \A i \in scsc'..scan : ~Aligned(i)
  BY <1>2, <1>3, <1>4, <1>5, <1>6, WindowMoves
<1>9. oldscore' = Cardinality(Window(scan + 1, scsc'))
  BY <1>5, <1>6, <1>7, <1>8
<1>10. \A i : Aligned(i)' = Aligned(i)
  BY <1>6 DEF Aligned
<1>11. Window(scan, scsc)' = Window(scan + 1, scsc')
  BY <1>6, <1>10 DEF Window
<1>12. scan' - 1 = scan
  BY <1>2, <1>6
<1> QED
  BY <1>8, <1>9, <1>10, <1>11, <1>12

\* The initial state.
LEMMA DeltaInit == Init => DeltaInv
<1> SUFFICES ASSUME Init PROVE DeltaInv
  OBVIOUS
<1>1. BsdiffInv
  BY InitInv DEF Init
<1>2. pc = "ready" /\ phase = "segment" /\ segment = 0 /\ req \in Requests
  BY DEF Init, BsdiffInit
<1> QED
  BY <1>1, <1>2 DEF DeltaInv

\* A new segment: its positions are listed in order, and its bytes rank them.
LEMMA NextSegmentDelta == DeltaInv /\ BsdiffInv' /\ NextSegment => DeltaInv'
<1> SUFFICES ASSUME DeltaInv, BsdiffInv', NextSegment PROVE DeltaInv'
  OBVIOUS
<1>1. /\ pc' = "outer" /\ req' = req /\ segment' = segment /\ phase' \in {"diff", "sort"}
      /\ phase' = "diff" => from' = <<>>
      /\ sa' = [i \in 1..Len(from') |-> i - 1] /\ rank' = from' /\ k' = 1
  BY DEF NextSegment, Start, result
<1>2. from' \in Seq(Byte) /\ Len(from') \in Nat
  BY LenProperties DEF BsdiffInv, BsdiffTypeOK
<1> DEFINE n == Len(from')
<1>3. Lists(sa', n)
  <2>1. sa' \in [1..n -> 0..n - 1]
    BY <1>1, <1>2
  <2>2. sa' \in Seq(0..n - 1) /\ Len(sa') = n
    BY <1>2, <2>1
  <2>3. \A p, q \in 1..n : sa'[p] = sa'[q] => p = q
    BY <1>1, <1>2
  <2> QED
    BY <2>2, <2>3 DEF Lists
<1>4. Ranks(from', rank', 1)
  BY <1>1, <1>2, BytesRank
<1>5. phase' = "diff" => Ordered(from', sa')
  <2> SUFFICES ASSUME phase' = "diff" PROVE Ordered(from', sa')
    OBVIOUS
  <2>1. n = 0
    BY <1>1, EmptySeq
  <2>2. 1..n = {}
    BY <2>1
  <2>3. \A p, q \in 1..n : p < q => Lower(from', sa'[p], sa'[q], 0)
    BY <2>2
  <2> QED
    BY <1>3, <2>3 DEF Ordered
<1> QED
  BY <1>1, <1>3, <1>4, <1>5 DEF DeltaInv

\* A round of prefix doubling: the keys rank by twice as many symbols.
LEMMA SortRoundDelta == DeltaInv /\ BsdiffInv' /\ SortRound => DeltaInv'
<1> SUFFICES ASSUME DeltaInv, BsdiffInv', SortRound PROVE DeltaInv'
  OBVIOUS
<1>1. /\ phase = "sort" /\ sa' = SortedByKey(sa, rank, k) /\ rank' = Ranked(rank, k)
      /\ IF SortedEnough(rank', k)
           THEN phase' = "diff" /\ k' = k
           ELSE k' = 2 * k /\ phase' = phase
      /\ req' = req /\ segment' = segment
      /\ UNCHANGED <<pc, from, to, scan, lastoffset, oldscore, scsc>>
  BY DEF SortRound, bsdiffVars, args, last, result
<1>2. from \in Seq(Byte) /\ Lists(sa, Len(from)) /\ k \in Nat \ {0} /\ Ranks(from, rank, k)
  BY <1>1 DEF DeltaInv, BsdiffInv, BsdiffTypeOK
<1>3. Lists(sa', Len(from))
  BY <1>1, <1>2, SortedByKeyIs
<1>4. Ranks(from, rank', 2 * k) /\ 2 * k \in Nat \ {0}
  BY <1>1, <1>2, RankedRanks
<1>5. SortedEnough(rank', k) => Ordered(from, sa')
  BY <1>1, <1>2, LastRound
<1>6. phase' = "sort" => Lists(sa', Len(from')) /\ k' \in Nat \ {0} /\ Ranks(from', rank', k')
  BY <1>1, <1>3, <1>4
<1>7. phase' = "diff" => Ordered(from', sa')
  BY <1>1, <1>5
<1>8. phase' \notin {"segment", "done"}
  BY <1>1
<1>9. (pc = "inner" => /\ oldscore = Cardinality(Window(scan, scsc))
                       /\ \A i \in scsc..scan - 1 : ~Aligned(i))'
  BY <1>1 DEF DeltaInv, Window, Aligned
<1> QED
  BY <1>1, <1>6, <1>7, <1>8, <1>9 DEF DeltaInv

\* A step of bsdiff: only the score is new.
LEMMA DiffStepDelta == DeltaInv /\ BsdiffInv' /\ DiffStep => DeltaInv'
<1> SUFFICES ASSUME DeltaInv, BsdiffInv', DiffStep PROVE DeltaInv'
  OBVIOUS
<1>1. phase = "diff" /\ UNCHANGED <<req, phase, sa, rank, k, segment>>
  BY DEF DiffStep, sort, result
<1>2. from' = from
  BY DEF DiffStep, Outer, Scan, ScanEnd, Continue, Emit, args
<1>3. ASSUME pc' = "inner"
      PROVE  /\ oldscore' = Cardinality(Window(scan, scsc)')
             /\ \A i \in scsc'..scan' - 1 : ~Aligned(i)'
  <2>1. CASE Outer
    <3>1. oldscore' = 0 /\ scan' = scsc'
      BY <1>3, <2>1 DEF Outer
    <3>2. scan' \in Int /\ scsc' \in Int
      BY DEF BsdiffInv, BsdiffTypeOK
    <3>a. \A x \in Int : x..x - 1 = {}
      OBVIOUS
    <3>3. scan'..scsc' - 1 = {} /\ scsc'..scan' - 1 = {}
      BY <3>1, <3>2, <3>a
    <3>4. Window(scan, scsc)' = {}
      BY <3>3 DEF Window
    <3> QED
      BY <3>1, <3>3, <3>4, FS_EmptySet
  <2>2. CASE pc = "inner" /\ \E p \in {Search} : \E l \in {MatchLen(p)} : Scan(l, p)
    <3>1. Scan(MatchLen(Search), Search)
      BY <2>2
    <3> QED
      BY <1>1, <1>3, <2>2, <3>1, ScanKeepsScore
  <2>3. CASE ScanEnd \/ Continue \/ Emit
    BY <1>3, <2>3 DEF ScanEnd, Continue, Emit
  <2> QED
    BY <2>1, <2>2, <2>3 DEF DiffStep
<1> QED
  BY <1>1, <1>2, <1>3 DEF DeltaInv

\* The steps between the segments.
LEMMA EndsDelta == DeltaInv /\ BsdiffInv' /\ (EndSegment \/ Finish \/ UNCHANGED vars) => DeltaInv'
<1> SUFFICES ASSUME DeltaInv, BsdiffInv', EndSegment \/ Finish \/ UNCHANGED vars PROVE DeltaInv'
  OBVIOUS
<1>1. UNCHANGED <<pc, from, to, scan, lastoffset, oldscore, scsc, req>>
  BY DEF EndSegment, Finish, vars, bsdiffVars, args, last
<1>2. segment' \in Nat
  BY DEF EndSegment, Finish, vars, result, DeltaInv
<1>3. phase' \in {"segment", "done"} => pc \in {"ready", "done"}
  BY DEF EndSegment, Finish, vars, DeltaInv
<1>4. phase' \notin {"segment", "done"} => UNCHANGED <<phase, sa, rank, k>>
  BY DEF EndSegment, Finish, vars, sort
<1>5. (pc = "inner" => /\ oldscore = Cardinality(Window(scan, scsc))
                       /\ \A i \in scsc..scan - 1 : ~Aligned(i))'
  BY <1>1 DEF DeltaInv, Window, Aligned
<1> QED
  BY <1>1, <1>2, <1>3, <1>4, <1>5 DEF DeltaInv

\* DeltaInv is inductive.
LEMMA DeltaStep == DeltaInv /\ [Next]_vars => DeltaInv'
<1> SUFFICES ASSUME DeltaInv, [Next]_vars PROVE DeltaInv'
  OBVIOUS
<1>1. BsdiffInv'
  BY StepIsBsdiff, StepInv DEF DeltaInv
<1> QED
  BY <1>1, NextSegmentDelta, SortRoundDelta, DiffStepDelta, EndsDelta DEF Next, Done

\* So it always holds.
LEMMA AlwaysDelta == Spec => []DeltaInv
BY DeltaInit, DeltaStep, PTL DEF Spec

\* For every base, target and radix, when bsdiff starts to search, the suffix array
\* that prefix doubling built is sorted (encode.rs, suffix_array).
THEOREM AlwaysSorted == Spec => []SuffixesSorted
<1>1. DeltaInv => SuffixesSorted
  <2> SUFFICES ASSUME DeltaInv, phase = "diff", NEW i \in 1..Len(sa) - 1
               PROVE  LET a == Slice(from, sa[i], Len(from))
                          b == Slice(from, sa[i + 1], Len(from))
                      IN  a # b /\ (IsPrefix(a, b) \/ LexLess(a, b))
    BY DEF SuffixesSorted
  <2>1. from \in Seq(Byte) /\ Ordered(from, sa) /\ Len(from) \in Nat
    BY LenProperties DEF DeltaInv, BsdiffInv, BsdiffTypeOK
  <2>2. sa \in Seq(0..Len(from) - 1) /\ Len(sa) = Len(from)
    BY <2>1 DEF Ordered, Lists
  <2>3. i \in 1..Len(sa) /\ i + 1 \in 1..Len(sa) /\ i < i + 1
    BY <2>1, <2>2
  <2>4. sa[i] \in 0..Len(from) - 1 /\ sa[i + 1] \in 0..Len(from) - 1
    BY <2>2, <2>3, ElementOfSeq
  <2>5. PICK w \in Nat : Lower(from, sa[i], sa[i + 1], w)
    BY <2>1, <2>2, <2>3 DEF Ordered
  <2> QED
    BY <2>1, <2>4, <2>5, LowerIsLess
<1> QED
  BY <1>1, AlwaysDelta, PTL

\* For every base, target and slack, the score that the scan keeps up to date is the
\* number of bytes of its window at which the previous match still agrees
\* (encode.rs, bsdiff).
THEOREM AlwaysWindow == Spec => []ScoreIsWindow
<1>1. DeltaInv => ScoreIsWindow
  BY DEF DeltaInv, ScoreIsWindow, Window
<1> QED
  BY <1>1, AlwaysDelta, PTL

\* With the suffix array and search of the source, the decoder is in step with bsdiff
\* after every triple.
THEOREM AlwaysDecodable == Spec => []DecoderInStep
<1>1. DeltaInv => DecoderInStep
  BY DEF DeltaInv, BsdiffInv
<1> QED
  BY <1>1, AlwaysDelta, PTL

\* bsdiff with the suffix array and search of the source implements bsdiff with any
\* search: every offset that it scans from is one of a match.
THEOREM ImplementsBsdiff == Spec => OffersAreMatches
<1>1. Init => BsdiffInit
  BY DEF Init
<1> QED
  BY <1>1, AlwaysDelta, StepIsBsdiff, PTL DEF Spec, BsdiffSpec, OffersAreMatches

----------------------------------------------------------------------------
(* Sequences taken apart.                                                  *)

\* A concatenation is cut where it was joined.
LEMMA Joined ==
    ASSUME NEW a \in Seq(Byte), NEW b \in Seq(Byte)
    PROVE  /\ a \o b \in Seq(Byte) /\ Len(a \o b) = Len(a) + Len(b)
           /\ Slice(a \o b, 0, Len(a)) = a
           /\ Slice(a \o b, Len(a), Len(a \o b)) = b
<1> DEFINE c == a \o b
           m == Len(a)
           n == Len(b)
<1>0. m \in Nat /\ n \in Nat
  BY LenProperties
<1>1. /\ c \in Seq(Byte) /\ Len(c) = m + n
      /\ \A i \in 1..m + n : c[i] = IF i <= m THEN a[i] ELSE b[i - m]
  BY ConcatProperties
<1> HIDE DEF c
<1>2. Slice(c, 0, m) \in Seq(Byte) /\ Len(Slice(c, 0, m)) = m - 0 /\ \A i \in 1..m - 0 : Slice(c, 0, m)[i] = c[0 + i]
  <2>1. 0 \in Nat /\ 0 <= m /\ m <= Len(c)
    BY <1>0, <1>1
  <2> HIDE DEF m
  <2> QED
    BY <1>0, <1>1, <2>1, SliceProperties
<1>3. /\ Slice(c, m, m + n) \in Seq(Byte) /\ Len(Slice(c, m, m + n)) = n
      /\ \A i \in 1..n : Slice(c, m, m + n)[i] = c[m + i]
  <2> DEFINE e == m + n
  <2>1. e \in Nat /\ m <= e /\ e <= Len(c) /\ e - m = n
    BY <1>0, <1>1
  <2> HIDE DEF m, n, e
  <2>2. /\ Slice(c, m, e) \in Seq(Byte) /\ Len(Slice(c, m, e)) = e - m
        /\ \A i \in 1..e - m : Slice(c, m, e)[i] = c[m + i]
    BY <1>0, <1>1, <2>1, SliceProperties
  <2> QED
    BY <2>1, <2>2 DEF e
<1>4. Slice(c, 0, m) = a
  <2>1. \A i \in 1..m : Slice(c, 0, m)[i] = a[i]
    <3>1. ASSUME NEW i \in 1..m PROVE Slice(c, 0, m)[i] = a[i]
      <4>1. i \in 1..m - 0 /\ 0 + i = i /\ i \in 1..m + n /\ i <= m
        BY <1>0
      <4> QED
        BY <1>1, <1>2, <4>1
    <3> QED
      BY <3>1
  <2> QED
    BY <1>0, <1>2, <2>1, SeqEqual
<1>5. Slice(c, m, m + n) = b
  <2>1. ASSUME NEW i \in 1..n PROVE Slice(c, m, m + n)[i] = b[i]
    <3>1. m + i \in 1..m + n /\ ~(m + i <= m) /\ (m + i) - m = i
      BY <1>0
    <3> QED
      BY <1>1, <1>3, <3>1
  <2> QED
    BY <1>0, <1>3, <2>1, SeqEqual
<1>6. Slice(c, m, Len(c)) = b
  BY <1>1, <1>5
<1> QED
  BY <1>1, <1>4, <1>6 DEF c

\* A first element is taken off again.
LEMMA Led ==
    ASSUME NEW S, NEW x \in S, NEW s \in Seq(S)
    PROVE  /\ <<x>> \o s \in Seq(S) /\ Len(<<x>> \o s) = Len(s) + 1
           /\ (<<x>> \o s)[1] = x /\ Head(<<x>> \o s) = x /\ Tail(<<x>> \o s) = s
           /\ <<x>> \o s # <<>>
<1> DEFINE c == <<x>> \o s
           n == Len(s)
<1>0. <<x>> \in Seq(S) /\ Len(<<x>>) = 1 /\ <<x>>[1] = x /\ n \in Nat
  BY LenProperties
<1>1. /\ c \in Seq(S) /\ Len(c) = 1 + n
      /\ \A i \in 1..1 + n : c[i] = IF i <= 1 THEN <<x>>[i] ELSE s[i - 1]
  BY <1>0, ConcatProperties
<1> HIDE DEF c
<1>2. c[1] = x
  <2>1. 1 \in 1..1 + n
    BY <1>0
  <2> QED
    BY <1>0, <1>1, <2>1
<1>3. c # <<>>
  BY <1>0, <1>1, EmptySeq
<1>4. Head(c) = x
  BY <1>1, <1>2, <1>3
<1>5. Tail(c) \in Seq(S) /\ Len(Tail(c)) = n /\ \A i \in 1..n : Tail(c)[i] = c[i + 1]
  BY <1>0, <1>1, <1>3, HeadTailProperties
<1>6. ASSUME NEW i \in 1..n PROVE Tail(c)[i] = s[i]
  <2>1. i + 1 \in 1..1 + n /\ ~(i + 1 <= 1) /\ (i + 1) - 1 = i
    BY <1>0
  <2> QED
    BY <1>1, <1>5, <2>1
<1>7. Tail(c) = s
  BY <1>5, <1>6, SeqEqual
<1> QED
  BY <1>0, <1>1, <1>2, <1>3, <1>4, <1>7 DEF c

----------------------------------------------------------------------------
(* The numbers of a patch.                                                 *)

\* A quotient and its remainder.
LEMMA Division ==
    ASSUME NEW n \in Nat, NEW d \in Nat, d >= 1
    PROVE  /\ n \div d \in Nat /\ n % d \in 0..d - 1 /\ n = d * (n \div d) + (n % d)
           /\ d >= 2 /\ n >= 1 => n \div d < n
<1> DEFINE q == n \div d
           r == n % d
<1>1. q \in Nat /\ r \in 0..d - 1 /\ n = d * q + r
  OBVIOUS
<1> HIDE DEF q, r
<1>2. ASSUME d >= 2, n >= 1 PROVE q < n
  <2>1. (d - 2) * q >= 0
    BY <1>1, <1>2
  <2>2. (d - 2) * q = d * q - 2 * q
    BY <1>1
  <2>3. d * q >= 2 * q
    BY <1>1, <2>1, <2>2
  <2> QED
    BY <1>1, <1>2, <2>3
<1> QED
  BY <1>1, <1>2 DEF q, r

\* A byte is a continuation bit and digits.
LEMMA Radix ==
    /\ LowBase \in Nat /\ LowBase >= 1 /\ Cont \in Nat /\ Cont >= 2 /\ Cont = 2 * LowBase
    /\ 0..2 * Cont - 1 = Byte /\ Byte \subseteq Nat
    /\ Scattered \in Byte /\ Repeated \in Byte
<1>1. LowBase \in Nat /\ LowBase >= 1
  BY BsdiffAssumption
<1>2. Cont = 2 * LowBase /\ 4 * LowBase = 2 * Cont
  BY <1>1 DEF Cont
<1>3. 0..2 * Cont - 1 = Byte
  BY <1>2 DEF Byte, Base
<1> QED
  BY <1>1, <1>2, <1>3 DEF Scattered, Repeated

\* The recursions of CrlePackSize and Number
DigitsOf(f, u) == IF u < Cont THEN <<u>> ELSE <<Cont + (u % Cont)>> \o f[u \div Cont]
ReadAt(r, s, i) ==
    IF s[i] < Cont \/ i = Len(s) THEN [value |-> s[i] % Cont, last |-> i]
    ELSE [value |-> (s[i] % Cont) + Cont * r[i + 1].value, last |-> r[i + 1].last]

\* The recursion of CrlePackSize is by the number, so there is such a function.
LEMMA DigitsExist ==
    ASSUME NEW v \in Nat
    PROVE  \E f : f = [u \in 0..v |-> DigitsOf(f, u)]
<1> DEFINE Solves(f, m) == \A u \in 0..v : u <= m => f[u] = DigitsOf(f, u)
           P == {m \in Nat : \E f : Solves(f, m)}
<1>0. Cont \in Nat /\ Cont >= 2
  BY Radix
<1>1. 0 \in P
  <2> DEFINE h == [u \in 0..v |-> <<u>>]
  <2>1. ASSUME NEW u \in 0..v, u <= 0 PROVE h[u] = DigitsOf(h, u)
    BY <1>0, <2>1 DEF DigitsOf
  <2>2. Solves(h, 0)
    BY <2>1
  <2> HIDE DEF h, Solves
  <2>3. \E f : Solves(f, 0)
    BY <2>2
  <2> QED
    BY <2>3
<1>2. ASSUME NEW m \in Nat, m \in P PROVE m + 1 \in P
  <2>1. PICK f : Solves(f, m)
    BY <1>2
  <2> DEFINE h == [u \in 0..v |-> IF u = m + 1 THEN DigitsOf(f, u) ELSE f[u]]
  <2>2. ASSUME NEW u \in 0..v, u <= m + 1 PROVE h[u] = DigitsOf(h, u)
    <3>1. h[u] = DigitsOf(f, u)
      <4>1. CASE u = m + 1
        BY <4>1
      <4>2. CASE u # m + 1
        <5>1. u <= m
          BY <2>2, <4>2
        <5> QED
          BY <2>1, <4>2, <5>1
      <4> QED
        BY <4>1, <4>2
    <3>2. CASE u < Cont
      BY <3>1, <3>2 DEF DigitsOf
    <3>3. CASE ~(u < Cont)
      <4> DEFINE q == u \div Cont
      <4>1. q \in 0..v /\ q # m + 1
        <5>1. u \in Nat /\ u >= 1
          BY <1>0, <3>3
        <5>2. q \in Nat /\ q < u
          BY <1>0, <5>1, Division
        <5> HIDE DEF q
        <5> QED
          BY <2>2, <5>1, <5>2
      <4> HIDE DEF q
      <4>2. h[q] = f[q]
        BY <4>1
      <4> HIDE DEF h
      <4> QED
        BY <3>1, <3>3, <4>2 DEF DigitsOf, q
    <3> QED
      BY <3>2, <3>3
  <2>3. Solves(h, m + 1)
    BY <2>2
  <2> HIDE DEF h, Solves
  <2>4. \E g : Solves(g, m + 1)
    BY <2>3
  <2> QED
    BY <2>4
<1>3. v \in P
  <2> HIDE DEF P
  <2> QED BY <1>1, <1>2, SetInduction
<1>4. PICK g : Solves(g, v)
  BY <1>3
<1> DEFINE f == [u \in 0..v |-> g[u]]
<1>5. ASSUME NEW u \in 0..v PROVE f[u] = DigitsOf(f, u)
  <2>1. g[u] = DigitsOf(g, u)
    BY <1>4
  <2>2. CASE u < Cont
    BY <2>1, <2>2 DEF DigitsOf
  <2>3. CASE ~(u < Cont)
    <3> DEFINE q == u \div Cont
    <3>1. q \in 0..v
      <4>1. u \in Nat /\ u >= 1
        BY <1>0, <2>3
      <4>2. q \in Nat /\ q < u
        BY <1>0, <4>1, Division
      <4> HIDE DEF q
      <4> QED
        BY <4>1, <4>2
    <3> HIDE DEF q
    <3>2. f[q] = g[q] /\ f[u] = g[u]
      BY <3>1
    <3> HIDE DEF f
    <3> QED
      BY <2>1, <2>3, <3>2 DEF DigitsOf, q
  <2> QED
    BY <2>2, <2>3
<1>6. f = [u \in 0..v |-> DigitsOf(f, u)]
  <2>1. f = [u \in 0..v |-> f[u]]
    OBVIOUS
  <2> HIDE DEF f
  <2> QED
    BY <1>5, <2>1
<1> QED
  BY <1>6

\* CrlePackSize is the value of that function on the number.
LEMMA DigitsAre ==
    ASSUME NEW v \in Nat
    PROVE  \E f : CrlePackSize(v) = f[v] /\ \A u \in 0..v : f[u] = DigitsOf(f, u)
<1> DEFINE f == CHOOSE g : g = [u \in 0..v |-> DigitsOf(g, u)]
<1>1. f = [u \in 0..v |-> DigitsOf(f, u)]
  BY DigitsExist
<1>2. CrlePackSize(v) = f[v]
  BY DEF CrlePackSize, DigitsOf
<1> HIDE DEF f
<1>3. \A u \in 0..v : f[u] = DigitsOf(f, u)
  BY <1>1
<1> QED
  BY <1>2, <1>3

\* The recursion of Number is by what is left to read, so there is such a function.
LEMMA ReadExists ==
    ASSUME NEW s, Len(s) \in Nat
    PROVE  \E r : r = [i \in 1..Len(s) |-> ReadAt(r, s, i)]
<1> DEFINE n == Len(s)
           Solves(r, m) == \A i \in 1..n : n - i <= m => r[i] = ReadAt(r, s, i)
           P == {m \in Nat : \E r : Solves(r, m)}
<1>0. n \in Nat
  OBVIOUS
<1>1. 0 \in P
  <2> DEFINE h == [i \in 1..n |-> [value |-> s[i] % Cont, last |-> i]]
  <2>1. ASSUME NEW i \in 1..n, n - i <= 0 PROVE h[i] = ReadAt(h, s, i)
    <3>1. i = Len(s)
      BY <2>1
    <3> QED
      BY <3>1 DEF ReadAt
  <2>2. Solves(h, 0)
    BY <2>1
  <2> HIDE DEF h, Solves
  <2>3. \E r : Solves(r, 0)
    BY <2>2
  <2> QED
    BY <2>3
<1>2. ASSUME NEW m \in Nat, m \in P PROVE m + 1 \in P
  <2>1. PICK r : Solves(r, m)
    BY <1>2
  <2> DEFINE h == [i \in 1..n |-> IF n - i = m + 1 THEN ReadAt(r, s, i) ELSE r[i]]
  <2>2. ASSUME NEW i \in 1..n, n - i <= m + 1 PROVE h[i] = ReadAt(h, s, i)
    <3>1. h[i] = ReadAt(r, s, i)
      <4>1. CASE n - i = m + 1
        BY <4>1
      <4>2. CASE n - i # m + 1
        <5>1. n - i <= m
          BY <2>2, <4>2
        <5> QED
          BY <2>1, <4>2, <5>1
      <4> QED
        BY <4>1, <4>2
    <3>2. CASE i = Len(s)
      BY <3>1, <3>2 DEF ReadAt
    <3>3. CASE i # Len(s)
      <4>1. i + 1 \in 1..n /\ n - (i + 1) # m + 1
        BY <2>2, <3>3
      <4>2. h[i + 1] = r[i + 1]
        BY <4>1
      <4> HIDE DEF h
      <4> QED
        BY <3>1, <4>2 DEF ReadAt
    <3> QED
      BY <3>2, <3>3
  <2>3. Solves(h, m + 1)
    BY <2>2
  <2> HIDE DEF h, Solves
  <2>4. \E g : Solves(g, m + 1)
    BY <2>3
  <2> QED
    BY <2>4
<1>3. n \in P
  <2> HIDE DEF P
  <2> QED BY <1>0, <1>1, <1>2, SetInduction
<1>4. PICK g : Solves(g, n)
  BY <1>3
<1> DEFINE f == [i \in 1..n |-> g[i]]
<1>5. ASSUME NEW i \in 1..n PROVE f[i] = ReadAt(f, s, i)
  <2>1. g[i] = ReadAt(g, s, i)
    BY <1>0, <1>4
  <2>2. CASE i = Len(s)
    BY <2>1, <2>2 DEF ReadAt
  <2>3. CASE i # Len(s)
    <3>1. i + 1 \in 1..n
      BY <2>3
    <3>2. f[i + 1] = g[i + 1] /\ f[i] = g[i]
      BY <3>1
    <3> HIDE DEF f
    <3> QED
      BY <2>1, <3>2 DEF ReadAt
  <2> QED
    BY <2>2, <2>3
<1>6. f = [i \in 1..n |-> ReadAt(f, s, i)]
  <2>1. f = [i \in 1..n |-> f[i]]
    OBVIOUS
  <2> HIDE DEF f
  <2> QED
    BY <1>5, <2>1
<1> QED
  BY <1>6

\* Number is the value of that function at the first digit.
LEMMA NumberReads ==
    ASSUME NEW s, Len(s) \in Nat
    PROVE  \E r : Number(s) = r[1] /\ \A i \in 1..Len(s) : r[i] = ReadAt(r, s, i)
<1> DEFINE f == CHOOSE g : g = [i \in 1..Len(s) |-> ReadAt(g, s, i)]
<1>1. f = [i \in 1..Len(s) |-> ReadAt(f, s, i)]
  BY ReadExists
<1>2. Number(s) = f[1]
  BY DEF Number, ReadAt
<1> HIDE DEF f
<1>3. \A i \in 1..Len(s) : f[i] = ReadAt(f, s, i)
  BY <1>1
<1> QED
  BY <1>2, <1>3

\* Bytes are joined in any order.
LEMMA Regroup ==
    ASSUME NEW a \in Seq(Byte), NEW b \in Seq(Byte), NEW c \in Seq(Byte)
    PROVE  (a \o b) \o c = a \o (b \o c)
BY ConcatAssociative

\* A quotient and a remainder are the only ones.
LEMMA Remainder ==
    ASSUME NEW d \in Nat, d >= 1, NEW q \in Nat, NEW x \in 0..d - 1
    PROVE  (d * q + x) % d = x /\ (d * q + x) \div d = q
<1> DEFINE n == d * q + x
           p == n \div d
           r == n % d
<1>1. n \in Nat
  OBVIOUS
<1>2. p \in Nat /\ r \in 0..d - 1 /\ n = d * p + r
  BY <1>1, Division
<1>3. d * q + x = d * p + r
  BY <1>2
<1> HIDE DEF n, p, r
<1>4. ~(p > q)
  <2> SUFFICES ASSUME p > q PROVE FALSE
    OBVIOUS
  <2>1. p - q - 1 \in Nat
    BY <1>2
  <2>2. d * (p - q - 1) >= 0
    BY <2>1
  <2>3. d * (p - q - 1) = d * p - d * q - d
    BY <1>2
  <2> QED
    BY <1>2, <1>3, <2>2, <2>3
<1>5. ~(q > p)
  <2> SUFFICES ASSUME q > p PROVE FALSE
    OBVIOUS
  <2>1. q - p - 1 \in Nat
    BY <1>2
  <2>2. d * (q - p - 1) >= 0
    BY <2>1
  <2>3. d * (q - p - 1) = d * q - d * p - d
    BY <1>2
  <2> QED
    BY <1>2, <1>3, <2>2, <2>3
<1>6. p = q
  BY <1>2, <1>4, <1>5
<1>7. r = x
  BY <1>2, <1>3, <1>6
<1> QED
  BY <1>6, <1>7 DEF n, p, r

\* r is the recursion of Number on s, and a is found in s after i elements
Reads(r, s) == \A i \in 1..Len(s) : r[i] = ReadAt(r, s, i)
Found(a, s, i) == i + Len(a) <= Len(s) /\ \A j \in 1..Len(a) : s[i + j] = a[j]

\* Digits that are found are read as their number, up to the last of them.
LEMMA DigitsRead ==
    ASSUME NEW v \in Nat
    PROVE  /\ CrlePackSize(v) \in Seq(Byte) /\ Len(CrlePackSize(v)) >= 1
           /\ \A s \in Seq(Byte), i \in Nat : \A r :
                Reads(r, s) /\ Found(CrlePackSize(v), s, i) =>
                    r[i + 1].value = v /\ r[i + 1].last = i + Len(CrlePackSize(v))
<1>1. PICK f : CrlePackSize(v) = f[v] /\ \A u \in 0..v : f[u] = DigitsOf(f, u)
  BY DigitsAre
<1>2. /\ Cont \in Nat /\ Cont >= 2 /\ \A x : x \in Byte <=> x \in 0..2 * Cont - 1
  BY Radix
<1> DEFINE Read(u, s, i, r) == r[i + 1].value = u /\ r[i + 1].last = i + Len(f[u])
           Good(u) == /\ f[u] \in Seq(Byte) /\ Len(f[u]) >= 1
                      /\ \A s \in Seq(Byte), i \in Nat : \A r :
                            Reads(r, s) /\ Found(f[u], s, i) => Read(u, s, i, r)
<1>3. ASSUME NEW u \in 0..v, u < Cont PROVE Good(u)
  <2>1. f[u] = <<u>>
    BY <1>1, <1>3 DEF DigitsOf
  <2>2. u \in Byte
    BY <1>2, <1>3
  <2>3. f[u] \in Seq(Byte) /\ Len(f[u]) = 1 /\ f[u][1] = u
    BY <2>1, <2>2
  <2>4. ASSUME NEW s \in Seq(Byte), NEW i \in Nat, NEW r, Reads(r, s), Found(f[u], s, i)
        PROVE  Read(u, s, i, r)
    <3>1. i + 1 <= Len(s) /\ s[i + 1] = u /\ Len(s) \in Nat
      BY <2>3, <2>4, LenProperties DEF Found
    <3>2. i + 1 \in 1..Len(s)
      BY <3>1
    <3>3. r[i + 1] = [value |-> u % Cont, last |-> i + 1]
      BY <1>3, <2>4, <3>1, <3>2 DEF Reads, ReadAt
    <3>4. u % Cont = u
      BY <1>2, <1>3
    <3> QED
      BY <2>3, <3>3, <3>4
  <2>5. Len(f[u]) >= 1
    BY <2>3
  <2> HIDE DEF Read
  <2> QED
    BY <2>3, <2>4, <2>5
<1>4. ASSUME NEW u \in 0..v, u >= Cont, Good(u \div Cont) PROVE Good(u)
  <2> DEFINE q == u \div Cont
             x == u % Cont
             a == f[q]
             c == Cont + x
  <2>1. u \in Nat /\ u >= 1
    BY <1>2, <1>4
  <2>2. q \in Nat /\ x \in 0..Cont - 1 /\ u = Cont * q + x
    BY <1>2, <2>1, Division
  <2>3. c \in Byte /\ c >= Cont /\ c \in Nat
    BY <1>2, <2>2
  <2>4. c % Cont = x
    <3>1. c = Cont * 1 + x
      BY <1>2, <2>2
    <3>2. Cont \in Nat /\ Cont >= 1 /\ 1 \in Nat
      BY <1>2
    <3> HIDE DEF x, c
    <3>3. (Cont * 1 + x) % Cont = x
      BY <2>2, <3>2, Remainder
    <3> QED
      BY <3>1, <3>3
  <2>5. f[u] = <<c>> \o a
    <3>1. ~(u < Cont)
      BY <1>2, <1>4, <2>1
    <3> QED
      BY <1>1, <3>1 DEF DigitsOf
  <2>6. Good(q)
    BY <1>4
  <2> HIDE DEF q, x
  <2>7. a \in Seq(Byte) /\ Len(a) >= 1 /\ Len(a) \in Nat
    BY <2>6, LenProperties
  <2>8. /\ f[u] \in Seq(Byte) /\ Len(f[u]) = 1 + Len(a)
        /\ \A j \in 1..1 + Len(a) : f[u][j] = IF j <= 1 THEN c ELSE a[j - 1]
    <3>1. <<c>> \in Seq(Byte) /\ Len(<<c>>) = 1 /\ <<c>>[1] = c
      BY <2>3
    <3>2. /\ <<c>> \o a \in Seq(Byte) /\ Len(<<c>> \o a) = 1 + Len(a)
          /\ \A j \in 1..1 + Len(a) : (<<c>> \o a)[j] = IF j <= 1 THEN <<c>>[j] ELSE a[j - 1]
      BY <2>7, <3>1, ConcatProperties
    <3>3. \A j \in 1..1 + Len(a) : j <= 1 => j = 1
      OBVIOUS
    <3> HIDE DEF c, a
    <3> QED
      BY <2>5, <3>1, <3>2, <3>3
  <2>9. ASSUME NEW s \in Seq(Byte), NEW i \in Nat, NEW r, Reads(r, s), Found(f[u], s, i)
        PROVE  Read(u, s, i, r)
    <3> HIDE DEF a, c
    <3>1. i + (1 + Len(a)) <= Len(s) /\ Len(s) \in Nat
      BY <2>8, <2>9, LenProperties DEF Found
    <3>2. \A j \in 1..1 + Len(a) : s[i + j] = IF j <= 1 THEN c ELSE a[j - 1]
      BY <2>8, <2>9 DEF Found
    <3>3. s[i + 1] = c
      <4>1. 1 \in 1..1 + Len(a) /\ 1 <= 1
        BY <2>7
      <4> QED
        BY <3>2, <4>1
    <3>4. Found(a, s, i + 1)
      <4>1. ASSUME NEW j \in 1..Len(a) PROVE s[(i + 1) + j] = a[j]
        <5>1. j + 1 \in 1..1 + Len(a) /\ ~(j + 1 <= 1) /\ (j + 1) - 1 = j /\ i + (j + 1) = (i + 1) + j
          BY <2>7
        <5> QED
          BY <3>2, <5>1
      <4>2. (i + 1) + Len(a) <= Len(s)
        BY <2>7, <3>1
      <4> QED
        BY <4>1, <4>2 DEF Found
    <3>5. Read(q, s, i + 1, r)
      <4>1. i + 1 \in Nat
        OBVIOUS
      <4> HIDE DEF Read
      <4> QED
        BY <2>6, <2>9, <3>4, <4>1 DEF a
    <3>6. r[(i + 1) + 1].value = q /\ r[(i + 1) + 1].last = (i + 1) + Len(a)
      BY <3>5 DEF a
    <3>7. i + 1 \in 1..Len(s) /\ i + 1 # Len(s) /\ ~(c < Cont)
      BY <1>2, <2>3, <2>7, <3>1
    <3>8. r[i + 1] = [value |-> (c % Cont) + Cont * r[(i + 1) + 1].value, last |-> r[(i + 1) + 1].last]
      BY <2>9, <3>3, <3>7 DEF Reads, ReadAt
    <3>9. r[i + 1].value = x + Cont * q /\ r[i + 1].last = (i + 1) + Len(a)
      BY <2>4, <3>6, <3>8
    <3>10. x + Cont * q = u
      BY <1>2, <2>2
    <3>11. (i + 1) + Len(a) = i + Len(f[u])
      BY <2>7, <2>8
    <3> QED
      BY <3>9, <3>10, <3>11
  <2> QED
    BY <2>7, <2>8, <2>9
<1> HIDE DEF Good
<1> DEFINE P == {m \in Nat : \A u \in 0..v : u <= m => Good(u)}
<1>5. 0 \in P
  <2>1. ASSUME NEW u \in 0..v, u <= 0 PROVE Good(u)
    BY <1>2, <1>3, <2>1
  <2> QED
    BY <2>1
<1>6. ASSUME NEW m \in Nat, m \in P PROVE m + 1 \in P
  <2>1. ASSUME NEW u \in 0..v, u <= m + 1 PROVE Good(u)
    <3>1. CASE u < Cont
      BY <1>3, <3>1
    <3>2. CASE ~(u < Cont)
      <4>1. u \in Nat /\ u >= 1 /\ u >= Cont
        BY <1>2, <3>2
      <4> DEFINE q == u \div Cont
      <4>2. q \in Nat /\ q < u
        BY <1>2, <4>1, Division
      <4> HIDE DEF q
      <4>3. q \in 0..v /\ q <= m
        BY <2>1, <4>2
      <4>4. Good(q)
        BY <1>6, <4>3
      <4> QED
        BY <1>4, <4>1, <4>4 DEF q
    <3> QED
      BY <3>1, <3>2
  <2> QED
    BY <2>1
<1>7. v \in P
  <2> HIDE DEF P
  <2> QED BY <1>5, <1>6, SetInduction
<1>8. Good(v)
  BY <1>7
<1> QED
  BY <1>1, <1>8 DEF Good

\* A number is unpacked, and what follows it left.
LEMMA CrleUnpacks ==
    ASSUME NEW v \in Nat, NEW tail \in Seq(Byte)
    PROVE  CrleUnpackSize(CrlePackSize(v) \o tail) = [value |-> v, rest |-> tail]
<1> DEFINE a == CrlePackSize(v)
           s == a \o tail
<1>1. /\ a \in Seq(Byte) /\ Len(a) >= 1 /\ Len(a) \in Nat /\ Len(tail) \in Nat
      /\ \A t \in Seq(Byte), i \in Nat : \A r :
            Reads(r, t) /\ Found(a, t, i) => r[i + 1].value = v /\ r[i + 1].last = i + Len(a)
  BY DigitsRead, LenProperties
<1> HIDE DEF a
<1>2. /\ s \in Seq(Byte) /\ Len(s) = Len(a) + Len(tail) /\ Slice(s, Len(a), Len(s)) = tail
  BY <1>1, Joined
<1>3. \A j \in 1..Len(a) + Len(tail) : s[j] = IF j <= Len(a) THEN a[j] ELSE tail[j - Len(a)]
  BY <1>1, ConcatProperties
<1> HIDE DEF s
<1>4. PICK r : Number(s) = r[1] /\ \A i \in 1..Len(s) : r[i] = ReadAt(r, s, i)
  BY <1>2, LenProperties, NumberReads
<1>5. Found(a, s, 0)
  <2>1. ASSUME NEW j \in 1..Len(a) PROVE s[0 + j] = a[j]
    <3>1. j \in 1..Len(a) + Len(tail) /\ j <= Len(a) /\ 0 + j = j
      BY <1>1
    <3> QED
      BY <1>3, <3>1
  <2>2. 0 + Len(a) <= Len(s)
    BY <1>1, <1>2
  <2> QED
    BY <2>1, <2>2 DEF Found
<1>6. Reads(r, s)
  BY <1>4 DEF Reads
<1>7. r[0 + 1].value = v /\ r[0 + 1].last = 0 + Len(a)
  BY <1>1, <1>2, <1>5, <1>6
<1>8. Number(s).value = v /\ Number(s).last = Len(a)
  BY <1>1, <1>4, <1>7
<1>9. CrleUnpackSize(s) = [value |-> v, rest |-> tail]
  BY <1>2, <1>8 DEF CrleUnpackSize
<1> QED
  BY <1>9 DEF s, a

\* UnpackSize, with what its second part yields.
LEMMA UnpackIs ==
    ASSUME NEW s, NEW m, m = More(s)
    PROVE  UnpackSize(s)
             = [value |-> IF s[1] % Cont >= LowBase THEN -((s[1] % LowBase) + LowBase * m.value)
                          ELSE (s[1] % LowBase) + LowBase * m.value,
                rest |-> m.rest]
<1>1. UnpackSize(s)
        = [value |-> IF s[1] % Cont >= LowBase THEN -((s[1] % LowBase) + LowBase * More(s).value)
                     ELSE (s[1] % LowBase) + LowBase * More(s).value,
           rest |-> More(s).rest]
  BY DEF UnpackSize
<1> QED
  BY <1>1

\* A size of either sign is unpacked, and what follows it left.
THEOREM UnpacksBack ==
    ASSUME NEW v \in Int, NEW tail \in Seq(Byte)
    PROVE  /\ PackSize(v) \in Seq(Byte) /\ Len(PackSize(v)) >= 1
           /\ UnpackSize(PackSize(v) \o tail) = [value |-> v, rest |-> tail]
<1> DEFINE a == Abs(v)
           sign == IF v < 0 THEN LowBase ELSE 0
           low == a % LowBase
           high == a \div LowBase
<1>1. /\ LowBase \in Nat /\ LowBase >= 1 /\ Cont \in Nat /\ Cont >= 2 /\ Cont = 2 * LowBase
      /\ \A x : x \in Byte <=> x \in 0..2 * Cont - 1
  BY Radix
<1>2. a \in Nat /\ (v < 0 => -a = v) /\ (~(v < 0) => a = v)
  BY DEF Abs
<1>3. /\ sign \in Nat /\ sign + LowBase <= Cont
      /\ \A x \in 0..LowBase - 1 : sign + x >= LowBase <=> v < 0
  BY <1>1
<1>m. \A x \in 0..LowBase - 1 : (sign + x) % LowBase = x
  <2> SUFFICES ASSUME NEW x \in 0..LowBase - 1 PROVE (sign + x) % LowBase = x
    OBVIOUS
  <2>1. (LowBase * 1 + x) % LowBase = x /\ (LowBase * 0 + x) % LowBase = x
    BY <1>1, Remainder
  <2>2. sign + x = LowBase * 1 + x \/ sign + x = LowBase * 0 + x
    BY <1>1
  <2> QED
    BY <2>1, <2>2
<1>4. high \in Nat /\ low \in 0..LowBase - 1 /\ a = LowBase * high + low
  BY <1>1, <1>2, Division
<1>5. PackSize(v) = IF a < LowBase THEN <<sign + a>> ELSE <<Cont + sign + low>> \o CrlePackSize(high)
  BY DEF PackSize
<1> HIDE DEF a, sign, low, high
<1>6. CASE a < LowBase
  <2> DEFINE c == sign + a
  <2>1. a \in 0..LowBase - 1
    BY <1>1, <1>2, <1>6
  <2>2. c \in Byte /\ c < Cont /\ c \in Nat
    BY <1>1, <1>2, <1>3, <1>6
  <2>3. c % LowBase = a /\ (c >= LowBase <=> v < 0)
    BY <1>3, <1>m, <2>1
  <2>4. c % Cont = c
    <3>1. c \in 0..Cont - 1 /\ Cont * 0 + c = c /\ Cont >= 1
      BY <1>1, <2>2
    <3> HIDE DEF c
    <3>2. (Cont * 0 + c) % Cont = c
      BY <1>1, <3>1, Remainder
    <3> QED
      BY <3>1, <3>2
  <2>5. PackSize(v) = <<c>>
    BY <1>5, <1>6
  <2> HIDE DEF c
  <2>6. (<<c>> \o tail)[1] = c /\ Tail(<<c>> \o tail) = tail
    BY <2>2, Led
  <2>7. (c % LowBase) + LowBase * 0 = a
    BY <1>1, <1>2, <2>3
  <2>8. UnpackSize(<<c>> \o tail)
          = [value |-> IF c % Cont >= LowBase THEN -((c % LowBase) + LowBase * 0) ELSE (c % LowBase) + LowBase * 0,
             rest |-> tail]
    <3> DEFINE s == <<c>> \o tail
    <3>1. s[1] = c /\ Tail(s) = tail /\ c < Cont
      BY <2>2, <2>6
    <3> HIDE DEF s
    <3>2. UnpackSize(s)
            = [value |-> IF c % Cont >= LowBase THEN -((c % LowBase) + LowBase * 0) ELSE (c % LowBase) + LowBase * 0,
               rest |-> tail]
      <4> DEFINE m == [value |-> 0, rest |-> tail]
      <4>1. m = More(s)
        BY <3>1 DEF More
      <4>2. m.value = 0 /\ m.rest = tail
        OBVIOUS
      <4> HIDE DEF m
      <4>3. UnpackSize(s)
              = [value |-> IF s[1] % Cont >= LowBase THEN -((s[1] % LowBase) + LowBase * m.value)
                           ELSE (s[1] % LowBase) + LowBase * m.value,
                 rest |-> m.rest]
        BY <4>1, UnpackIs
      <4> QED
        BY <3>1, <4>2, <4>3, Zenon
    <3> QED
      BY <3>2 DEF s
  <2>9. UnpackSize(<<c>> \o tail) = [value |-> v, rest |-> tail]
    BY <1>2, <2>3, <2>4, <2>7, <2>8
  <2>10. <<c>> \in Seq(Byte) /\ Len(<<c>>) = 1
    BY <2>2
  <2> QED
    BY <2>5, <2>9, <2>10
<1>7. CASE ~(a < LowBase)
  <2> DEFINE c == Cont + sign + low
             d == CrlePackSize(high)
  <2>1. c \in Byte /\ ~(c < Cont) /\ c \in Nat /\ c = Cont + (sign + low) /\ sign + low \in 0..Cont - 1
    BY <1>1, <1>3, <1>4
  <2>2. c % Cont = sign + low
    <3> DEFINE x == sign + low
    <3>1. x \in 0..Cont - 1 /\ c = Cont * 1 + x
      BY <1>1, <2>1
    <3>2. Cont \in Nat /\ Cont >= 1 /\ 1 \in Nat
      BY <1>1
    <3> HIDE DEF x, c
    <3>3. (Cont * 1 + x) % Cont = x
      BY <3>1, <3>2, Remainder
    <3> QED
      BY <3>1, <3>3 DEF x
  <2>3. c % LowBase = low
    <3>1. c = LowBase * 2 + low \/ c = LowBase * 3 + low
      BY <1>1, <1>4 DEF sign
    <3>2. (LowBase * 2 + low) % LowBase = low /\ (LowBase * 3 + low) % LowBase = low
      BY <1>1, <1>4, Remainder
    <3> QED
      BY <3>1, <3>2
  <2>4. c % Cont >= LowBase <=> v < 0
    BY <1>3, <1>4, <2>2
  <2>5. d \in Seq(Byte) /\ CrleUnpackSize(d \o tail) = [value |-> high, rest |-> tail]
    BY <1>4, DigitsRead, CrleUnpacks
  <2>6. PackSize(v) = <<c>> \o d
    BY <1>5, <1>7
  <2> HIDE DEF c, d
  <2>7. <<c>> \o d \in Seq(Byte) /\ Len(<<c>> \o d) = Len(d) + 1 /\ Len(d) \in Nat
    BY <2>1, <2>5, Led, LenProperties
  <2>8. (<<c>> \o d) \o tail = <<c>> \o (d \o tail)
    <3>1. <<c>> \in Seq(Byte)
      BY <2>1
    <3> QED
      BY <2>5, <3>1, ConcatAssociative
  <2>9. (<<c>> \o (d \o tail))[1] = c /\ Tail(<<c>> \o (d \o tail)) = d \o tail
    <3>1. d \o tail \in Seq(Byte)
      BY <2>5, Joined
    <3> QED
      BY <2>1, <3>1, Led
  <2>10. (c % LowBase) + LowBase * high = a
    BY <1>1, <1>4, <2>3
  <2>11. UnpackSize(<<c>> \o (d \o tail))
          = [value |-> IF c % Cont >= LowBase THEN -((c % LowBase) + LowBase * high)
                       ELSE (c % LowBase) + LowBase * high,
             rest |-> tail]
    <3> DEFINE s == <<c>> \o (d \o tail)
               t == d \o tail
    <3>1. s[1] = c /\ Tail(s) = t /\ ~(c < Cont)
      BY <2>1, <2>9
    <3>2. CrleUnpackSize(t) = [value |-> high, rest |-> tail]
      BY <2>5
    <3> HIDE DEF s, t
    <3>3. UnpackSize(s)
            = [value |-> IF c % Cont >= LowBase THEN -((c % LowBase) + LowBase * high)
                         ELSE (c % LowBase) + LowBase * high,
               rest |-> tail]
      <4> DEFINE m == [value |-> high, rest |-> tail]
      <4>1. m = More(s)
        BY <3>1, <3>2 DEF More
      <4>2. m.value = high /\ m.rest = tail
        OBVIOUS
      <4> HIDE DEF m
      <4>3. UnpackSize(s)
              = [value |-> IF s[1] % Cont >= LowBase THEN -((s[1] % LowBase) + LowBase * m.value)
                           ELSE (s[1] % LowBase) + LowBase * m.value,
                 rest |-> m.rest]
        BY <4>1, UnpackIs
      <4> QED
        BY <3>1, <4>2, <4>3, Zenon
    <3> QED
      BY <3>3 DEF s
  <2>12. UnpackSize(<<c>> \o (d \o tail)) = [value |-> v, rest |-> tail]
    BY <1>2, <2>4, <2>10, <2>11
  <2>13. Len(<<c>> \o d) >= 1
    BY <2>7
  <2> QED
    BY <2>6, <2>7, <2>8, <2>12, <2>13
<1> QED
  BY <1>6, <1>7

----------------------------------------------------------------------------
(* crle.                                                                   *)

\* A run has a byte at least, and all of it is the same byte.
LEMMA RunLenIs ==
    ASSUME NEW d \in Seq(Byte), NEW i \in 0..Len(d) - 1
    PROVE  RunLen(d, i) \in 1..Len(d) - i /\ \A j \in i..i + RunLen(d, i) - 1 : At(d, j) = At(d, i)
<1> DEFINE S == {l \in 1..Len(d) - i : \A j \in i..i + l - 1 : At(d, j) = At(d, i)}
<1>0. Len(d) \in Nat
  BY LenProperties
<1>1. S \in SUBSET (0..Len(d)) /\ S # {}
  <2>1. S \subseteq 1..Len(d) - i /\ 1..Len(d) - i \subseteq 0..Len(d)
    BY <1>0
  <2>2. 1 \in S
    <3>1. 1 \in 1..Len(d) - i /\ \A j \in i..i + 1 - 1 : j = i
      BY <1>0
    <3> QED
      BY <3>1
  <2> HIDE DEF S
  <2> QED
    BY <2>1, <2>2
<1>2. RunLen(d, i) = Max(S)
  BY DEF RunLen
<1>3. Max(S) \in S
  <2> HIDE DEF S
  <2> QED
    BY <1>0, <1>1, MaxIs
<1> QED
  BY <1>2, <1>3

\* The first run worth writing begins at i or later, at the end if there is none.
LEMMA FirstRunIs ==
    ASSUME NEW d \in Seq(Byte), NEW i \in 0..Len(d)
    PROVE  FirstRun(d, i) \in i..Len(d)
<1> DEFINE S == {Len(d)} \cup {j \in i..Len(d) - 1 : /\ j = i \/ At(d, j - 1) # At(d, j)
                                                     /\ RunLen(d, j) >= MinRepeat}
<1>0. Len(d) \in Nat
  BY LenProperties
<1>1. \A x \in S : x \in i..Len(d)
  BY <1>0
<1>2. Len(d) \in S
  OBVIOUS
<1>3. FirstRun(d, i) = Min(S)
  BY DEF FirstRun
<1> HIDE DEF S
<1>4. S \in SUBSET Nat /\ S # {}
  <2>1. ASSUME NEW x \in S PROVE x \in Nat
    <3>1. x \in i..Len(d)
      BY <1>1
    <3> QED
      BY <1>0, <3>1
  <2> QED
    BY <1>2, <2>1
<1>5. Min(S) \in S
  BY <1>4, MinIs
<1> QED
  BY <1>1, <1>3, <1>5

\* The piece of the stream that is written at i, and where the next one begins
Chunk(d, i) ==
    IF i < FirstRun(d, i)
      THEN <<Scattered>> \o CrlePackSize(FirstRun(d, i) - i) \o Slice(d, i, FirstRun(d, i))
      ELSE <<Repeated>> \o CrlePackSize(RunLen(d, i)) \o <<At(d, i)>>
After(d, i) == IF i < FirstRun(d, i) THEN FirstRun(d, i) ELSE i + RunLen(d, i)

\* The recursion of CrleCompress, and the same in pieces
RestOf(f, d, i) ==
    LET j == FirstRun(d, i)
    IN  CASE i = Len(d) -> <<>>
          [] i < j -> <<Scattered>> \o CrlePackSize(j - i) \o Slice(d, i, j) \o f[j]
          [] OTHER -> <<Repeated>> \o CrlePackSize(RunLen(d, i)) \o <<At(d, i)>>
                        \o f[i + RunLen(d, i)]

\* The rest from i on is a piece and the rest behind it, which is shorter.
LEMMA RestIs ==
    ASSUME NEW d \in Seq(Byte), NEW i \in 0..Len(d), NEW f
    PROVE  /\ RestOf(f, d, i) = IF i = Len(d) THEN <<>> ELSE Chunk(d, i) \o f[After(d, i)]
           /\ i # Len(d) => After(d, i) \in i + 1..Len(d)
<1>0. Len(d) \in Nat
  BY LenProperties
<1>1. FirstRun(d, i) \in i..Len(d)
  BY FirstRunIs
<1>2. i # Len(d) => RunLen(d, i) \in 1..Len(d) - i
  <2>1. i # Len(d) => i \in 0..Len(d) - 1
    BY <1>0
  <2> QED
    BY <2>1, RunLenIs
<1>3. i = Len(d) => ~(i < FirstRun(d, i))
  BY <1>0, <1>1
<1>4. i # Len(d) => After(d, i) \in i + 1..Len(d)
  BY <1>0, <1>1, <1>2 DEF After
<1>5. CASE i = Len(d)
  BY <1>3, <1>4, <1>5 DEF RestOf
<1>6. CASE i # Len(d) /\ i < FirstRun(d, i)
  BY <1>4, <1>6 DEF RestOf, Chunk, After
<1>7. CASE i # Len(d) /\ ~(i < FirstRun(d, i))
  BY <1>4, <1>7 DEF RestOf, Chunk, After
<1> QED
  BY <1>5, <1>6, <1>7

\* The recursion of CrleCompress is by what is left, so there is such a function.
LEMMA RestExists ==
    ASSUME NEW d \in Seq(Byte)
    PROVE  \E f : f = [i \in 0..Len(d) |-> RestOf(f, d, i)]
<1> DEFINE n == Len(d)
           Solves(f, m) == \A i \in 0..n : n - i <= m => f[i] = RestOf(f, d, i)
           P == {m \in Nat : \E f : Solves(f, m)}
<1>0. n \in Nat
  BY LenProperties
<1>a. \A i \in 0..n : \A f : RestOf(f, d, i) = IF i = n THEN <<>> ELSE Chunk(d, i) \o f[After(d, i)]
  BY RestIs
<1>b. \A i \in 0..n : i # n => After(d, i) \in i + 1..n
  BY RestIs
<1>1. 0 \in P
  <2> DEFINE h == [i \in 0..n |-> <<>>]
  <2>1. ASSUME NEW i \in 0..n, n - i <= 0 PROVE h[i] = RestOf(h, d, i)
    <3>1. i = n
      BY <1>0, <2>1
    <3> QED
      BY <1>a, <3>1
  <2>2. Solves(h, 0)
    BY <2>1
  <2> HIDE DEF h, Solves
  <2>3. \E f : Solves(f, 0)
    BY <2>2
  <2> QED
    BY <2>3
<1>2. ASSUME NEW m \in Nat, m \in P PROVE m + 1 \in P
  <2>1. PICK f : Solves(f, m)
    BY <1>2
  <2> DEFINE h == [i \in 0..n |-> IF n - i = m + 1 THEN RestOf(f, d, i) ELSE f[i]]
  <2>2. ASSUME NEW i \in 0..n, n - i <= m + 1 PROVE h[i] = RestOf(h, d, i)
    <3>1. h[i] = RestOf(f, d, i)
      <4>1. CASE n - i = m + 1
        BY <4>1
      <4>2. CASE n - i # m + 1
        <5>1. n - i <= m
          BY <1>0, <2>2, <4>2
        <5> QED
          BY <2>1, <4>2, <5>1
      <4> QED
        BY <4>1, <4>2
    <3>2. CASE i = n
      BY <1>a, <3>1, <3>2
    <3>3. CASE i # n
      <4> DEFINE e == After(d, i)
      <4>1. e \in 0..n /\ n - e # m + 1
        <5>1. e \in i + 1..n
          BY <1>b, <3>3
        <5> HIDE DEF e
        <5> QED
          BY <1>0, <2>2, <5>1
      <4> HIDE DEF e
      <4>2. h[e] = f[e]
        BY <4>1
      <4> HIDE DEF h
      <4> QED
        BY <1>a, <3>1, <3>3, <4>2 DEF e
    <3> QED
      BY <3>2, <3>3
  <2>3. Solves(h, m + 1)
    BY <2>2
  <2> HIDE DEF h, Solves
  <2>4. \E g : Solves(g, m + 1)
    BY <2>3
  <2> QED
    BY <2>4
<1>3. n \in P
  <2> HIDE DEF P
  <2> QED BY <1>0, <1>1, <1>2, SetInduction
<1>4. PICK g : Solves(g, n)
  BY <1>3
<1> DEFINE f == [i \in 0..n |-> g[i]]
<1>5. ASSUME NEW i \in 0..n PROVE f[i] = RestOf(f, d, i)
  <2>1. g[i] = RestOf(g, d, i)
    BY <1>0, <1>4
  <2>2. CASE i = n
    BY <1>a, <2>1, <2>2
  <2>3. CASE i # n
    <3> DEFINE e == After(d, i)
    <3>1. e \in 0..n
      BY <1>0, <1>b, <2>3
    <3> HIDE DEF e
    <3>2. f[e] = g[e] /\ f[i] = g[i]
      BY <3>1
    <3> HIDE DEF f
    <3> QED
      BY <1>a, <2>1, <2>3, <3>2 DEF e
  <2> QED
    BY <2>2, <2>3
<1>6. f = [i \in 0..n |-> RestOf(f, d, i)]
  <2>1. f = [i \in 0..n |-> f[i]]
    OBVIOUS
  <2> HIDE DEF f
  <2> QED
    BY <1>5, <2>1
<1> QED
  BY <1>6

\* CrleCompress is the value of that function on all of d.
LEMMA Compresses ==
    ASSUME NEW d \in Seq(Byte), d # <<>>
    PROVE  \E f : /\ CrleCompress(d) = f[0] /\ f[Len(d)] = <<>>
                  /\ \A i \in 0..Len(d) - 1 : f[i] = Chunk(d, i) \o f[After(d, i)]
<1> DEFINE f == CHOOSE g : g = [i \in 0..Len(d) |-> RestOf(g, d, i)]
<1>1. f = [i \in 0..Len(d) |-> RestOf(f, d, i)]
  BY RestExists
<1>2. CrleCompress(d) = f[0]
  BY DEF CrleCompress, RestOf
<1> HIDE DEF f
<1>3. \A i \in 0..Len(d) : f[i] = RestOf(f, d, i)
  BY <1>1
<1>4. Len(d) \in 0..Len(d) /\ \A i \in 0..Len(d) - 1 : i \in 0..Len(d) /\ i # Len(d)
  BY LenProperties
<1>5. f[Len(d)] = <<>> /\ \A i \in 0..Len(d) - 1 : f[i] = Chunk(d, i) \o f[After(d, i)]
  BY <1>3, <1>4, RestIs
<1> QED
  BY <1>2, <1>5

\* The recursion of CrleExpand
ExpandAt(a, s, n) ==
    IF n = 0 THEN [rest |-> s, out |-> <<>>]
    ELSE IF a[n - 1].rest = <<>> THEN a[n - 1] ELSE CrleStep(a[n - 1])

\* CrleExpand is by the number of pieces, so there is such a function.
LEMMA ExpandExists ==
    ASSUME NEW s, NEW z \in Nat
    PROVE  \E a : a = [n \in 0..z |-> ExpandAt(a, s, n)]
<1> DEFINE Solves(a, m) == \A n \in 0..m : a[n] = ExpandAt(a, s, n)
           P == {m \in Nat : \E a : Solves(a, m)}
<1>1. 0 \in P
  <2> DEFINE h == [n \in 0..0 |-> [rest |-> s, out |-> <<>>]]
  <2>1. \A n \in 0..0 : n = 0 /\ h[n] = [rest |-> s, out |-> <<>>]
    OBVIOUS
  <2>2. Solves(h, 0)
    BY <2>1 DEF ExpandAt
  <2> HIDE DEF h, Solves
  <2>3. \E a : Solves(a, 0)
    BY <2>2
  <2> QED
    BY <2>3
<1>2. ASSUME NEW m \in Nat, m \in P PROVE m + 1 \in P
  <2>1. PICK a : Solves(a, m)
    BY <1>2
  <2> DEFINE h == [n \in 0..m + 1 |-> IF n = m + 1 THEN ExpandAt(a, s, n) ELSE a[n]]
  <2>2. ASSUME NEW n \in 0..m + 1 PROVE h[n] = ExpandAt(h, s, n)
    <3>1. h[n] = ExpandAt(a, s, n)
      <4>1. n = m + 1 \/ n \in 0..m
        OBVIOUS
      <4> QED
        BY <2>1, <4>1
    <3>2. CASE n = 0
      BY <3>1, <3>2 DEF ExpandAt
    <3>3. CASE n # 0
      <4>1. n - 1 \in 0..m + 1 /\ n - 1 # m + 1
        BY <3>3
      <4>2. h[n - 1] = a[n - 1]
        BY <4>1
      <4> HIDE DEF h
      <4> QED
        BY <3>1, <3>3, <4>2 DEF ExpandAt
    <3> QED
      BY <3>2, <3>3
  <2>3. Solves(h, m + 1)
    BY <2>2
  <2> HIDE DEF h, Solves
  <2>4. \E g : Solves(g, m + 1)
    BY <2>3
  <2> QED
    BY <2>4
<1>3. z \in P
  <2> HIDE DEF P
  <2> QED BY <1>1, <1>2, SetInduction
<1>4. PICK g : Solves(g, z)
  BY <1>3
<1> DEFINE f == [n \in 0..z |-> g[n]]
<1>5. ASSUME NEW n \in 0..z PROVE f[n] = ExpandAt(f, s, n)
  <2>1. g[n] = ExpandAt(g, s, n) /\ f[n] = g[n]
    BY <1>4
  <2>2. n # 0 => f[n - 1] = g[n - 1]
    <3>1. n # 0 => n - 1 \in 0..z
      OBVIOUS
    <3> QED
      BY <3>1
  <2> HIDE DEF f
  <2> QED
    BY <2>1, <2>2 DEF ExpandAt
<1>6. f = [n \in 0..z |-> ExpandAt(f, s, n)]
  <2>1. f = [n \in 0..z |-> f[n]]
    OBVIOUS
  <2> HIDE DEF f
  <2> QED
    BY <1>5, <2>1
<1> QED
  BY <1>6

\* a is the run of CrleExpand on s
Expansion(a, s) ==
    /\ a[0] = [rest |-> s, out |-> <<>>]
    /\ \A n \in 0..Len(s) - 1 : a[n + 1] = IF a[n].rest = <<>> THEN a[n] ELSE CrleStep(a[n])

\* CrleExpand is where that run ends.
LEMMA Expands ==
    ASSUME NEW s, Len(s) \in Nat
    PROVE  \E a : CrleExpand(s) = a[Len(s)].out /\ Expansion(a, s)
<1> DEFINE f == CHOOSE g : g = [n \in 0..Len(s) |-> ExpandAt(g, s, n)]
<1>1. f = [n \in 0..Len(s) |-> ExpandAt(f, s, n)]
  BY ExpandExists
<1>2. CrleExpand(s) = f[Len(s)].out
  BY DEF CrleExpand, ExpandAt
<1> HIDE DEF f
<1>3. \A n \in 0..Len(s) : f[n] = ExpandAt(f, s, n)
  BY <1>1
<1>4. f[0] = [rest |-> s, out |-> <<>>]
  BY <1>3 DEF ExpandAt
<1>5. ASSUME NEW n \in 0..Len(s) - 1
      PROVE  f[n + 1] = IF f[n].rest = <<>> THEN f[n] ELSE CrleStep(f[n])
  <2>1. n + 1 \in 0..Len(s) /\ n + 1 # 0 /\ (n + 1) - 1 = n
    OBVIOUS
  <2> QED
    BY <1>3, <2>1 DEF ExpandAt
<1> QED
  BY <1>2, <1>4, <1>5 DEF Expansion

\* CrleStep, with what it reads first.
LEMMA CrleStepIs ==
    ASSUME NEW d, NEW u, u = CrleUnpackSize(Tail(d.rest))
    PROVE  CrleStep(d) = IF Head(d.rest) = Repeated
                           THEN [rest |-> Tail(u.rest), out |-> d.out \o [j \in 1..u.value |-> u.rest[1]]]
                           ELSE [rest |-> Slice(u.rest, u.value, Len(u.rest)),
                                 out |-> d.out \o Slice(u.rest, 0, u.value)]
BY DEF CrleStep

\* A piece is expanded to the bytes it stands for, and what follows it left.
LEMMA ChunkExpands ==
    ASSUME NEW d \in Seq(Byte), NEW i \in 0..Len(d) - 1, NEW tail \in Seq(Byte), NEW o
    PROVE  /\ Chunk(d, i) \in Seq(Byte) /\ Len(Chunk(d, i)) >= 1
           /\ CrleStep([rest |-> Chunk(d, i) \o tail, out |-> o])
                = [rest |-> tail, out |-> o \o Slice(d, i, After(d, i))]
<1>0. Len(d) \in Nat /\ i \in Nat /\ i < Len(d) /\ i \in 0..Len(d)
  BY LenProperties
<1>1. Scattered \in Byte /\ Repeated \in Byte /\ Scattered # Repeated
  BY Radix DEF Scattered, Repeated
<1>2. CASE i < FirstRun(d, i)
  <2> DEFINE j == FirstRun(d, i)
             v == j - i
             c == CrlePackSize(v)
             e == Slice(d, i, j)
  <2>1. j \in i..Len(d) /\ i < j
    BY <1>0, <1>2, FirstRunIs
  <2>2. v \in Nat /\ j \in Nat /\ i <= j /\ j <= Len(d) /\ j - i = v
    BY <1>0, <2>1
  <2>3. Chunk(d, i) = <<Scattered>> \o c \o e /\ After(d, i) = j
    BY <1>2 DEF Chunk, After
  <2> HIDE DEF j
  <2>4. e \in Seq(Byte) /\ Len(e) = v
    BY <1>0, <2>2, SliceProperties
  <2> HIDE DEF v
  <2>5. c \in Seq(Byte)
    BY <2>2, DigitsRead
  <2> HIDE DEF c
  <2>6. <<Scattered>> \in Seq(Byte)
    BY <1>1
  <2>7. e \o tail \in Seq(Byte) /\ Slice(e \o tail, 0, v) = e /\ Slice(e \o tail, v, Len(e \o tail)) = tail
    <3> HIDE DEF e
    <3> QED
      BY <2>4, Joined
  <2> HIDE DEF e
  <2>8. CrleUnpackSize(c \o (e \o tail)) = [value |-> v, rest |-> e \o tail]
    BY <2>2, <2>7, CrleUnpacks DEF c
  <2>9. /\ <<Scattered>> \o c \o e = <<Scattered>> \o (c \o e)
        /\ (<<Scattered>> \o (c \o e)) \o tail = <<Scattered>> \o ((c \o e) \o tail)
        /\ (c \o e) \o tail = c \o (e \o tail)
        /\ c \o e \in Seq(Byte)
    <3>1. c \o e \in Seq(Byte)
      BY <2>4, <2>5, Joined
    <3>2. <<Scattered>> \o c \o e = <<Scattered>> \o (c \o e)
      BY <2>4, <2>5, <2>6, Regroup
    <3>3. (c \o e) \o tail = c \o (e \o tail)
      BY <2>4, <2>5, <2>6, Regroup
    <3> DEFINE z == c \o e
    <3>4. z \in Seq(Byte)
      BY <3>1
    <3> HIDE DEF z
    <3>5. (<<Scattered>> \o z) \o tail = <<Scattered>> \o (z \o tail)
      BY <2>6, <3>4, Regroup
    <3> QED
      BY <3>1, <3>2, <3>3, <3>5 DEF z
  <2>10. c \o (e \o tail) \in Seq(Byte)
    BY <2>5, <2>7, Joined
  <2> DEFINE b == Chunk(d, i) \o tail
  <2>11. b = <<Scattered>> \o (c \o (e \o tail))
    BY <2>3, <2>9
  <2>12. Head(b) = Scattered /\ Tail(b) = c \o (e \o tail)
    BY <1>1, <2>10, <2>11, Led, SMTT(30)
  <2>13. Chunk(d, i) \in Seq(Byte) /\ Len(Chunk(d, i)) >= 1
    <3>1. Len(c \o e) \in Nat
      BY <2>9, LenProperties
    <3>2. Chunk(d, i) \in Seq(Byte) /\ Len(Chunk(d, i)) = Len(c \o e) + 1
      BY <1>1, <2>3, <2>9, Led
    <3> QED
      BY <3>1, <3>2
  <2> HIDE DEF b
  <2> DEFINE u == [value |-> v, rest |-> e \o tail]
             x == [rest |-> b, out |-> o]
  <2>14. u = CrleUnpackSize(Tail(x.rest)) /\ Head(x.rest) # Repeated /\ x.out = o
    BY <1>1, <2>8, <2>12
  <2>15. u.value = v /\ u.rest = e \o tail
    OBVIOUS
  <2> HIDE DEF u, x
  <2>16. CrleStep(x) = [rest |-> Slice(u.rest, u.value, Len(u.rest)), out |-> x.out \o Slice(u.rest, 0, u.value)]
    BY <2>14, CrleStepIs
  <2>17. CrleStep(x) = [rest |-> tail, out |-> o \o e]
    BY <2>7, <2>14, <2>15, <2>16
  <2> QED
    BY <2>3, <2>13, <2>17 DEF x, b, e
<1>3. CASE ~(i < FirstRun(d, i))
  <2> DEFINE v == RunLen(d, i)
             c == CrlePackSize(v)
             y == At(d, i)
             j == i + v
             e == [m \in 1..v |-> y]
  <2>1. v \in 1..Len(d) - i /\ \A m \in i..i + v - 1 : At(d, m) = y
    BY RunLenIs
  <2>2. v \in Nat /\ j \in Nat /\ i <= j /\ j <= Len(d) /\ j - i = v
    BY <1>0, <2>1
  <2>3. Chunk(d, i) = <<Repeated>> \o c \o <<y>> /\ After(d, i) = j
    BY <1>3 DEF Chunk, After
  <2>4. y \in Byte
    <3>1. i + 1 \in 1..Len(d)
      BY <1>0
    <3> QED
      BY <3>1, ElementOfSeq DEF At
  <2>5. e = Slice(d, i, j)
    <3>1. e \in Seq(Byte) /\ Len(e) = v
      <4> HIDE DEF v, y
      <4>1. e \in [1..v -> Byte]
        BY <2>4
      <4> QED
        BY <2>2, <4>1
    <3>2. Slice(d, i, j) \in Seq(Byte) /\ Len(Slice(d, i, j)) = v /\ \A m \in 1..v : Slice(d, i, j)[m] = d[i + m]
      <4> HIDE DEF j, v
      <4>1. /\ Slice(d, i, j) \in Seq(Byte) /\ Len(Slice(d, i, j)) = j - i
            /\ \A m \in 1..j - i : Slice(d, i, j)[m] = d[i + m]
        BY <1>0, <2>2, SliceProperties
      <4> QED
        BY <2>2, <4>1
    <3>3. ASSUME NEW m \in 1..v PROVE e[m] = Slice(d, i, j)[m]
      <4>1. i + m - 1 \in i..i + v - 1 /\ (i + m - 1) + 1 = i + m
        BY <1>0, <2>1
      <4>2. d[i + m] = y
        BY <2>1, <4>1 DEF At
      <4> QED
        BY <3>2, <4>2
    <3> HIDE DEF e, v, j
    <3> QED
      BY <3>1, <3>2, <3>3, SeqEqual
  <2> HIDE DEF v, y, j
  <2>6. c \in Seq(Byte)
    BY <2>2, DigitsRead
  <2> HIDE DEF c
  <2>7. <<Repeated>> \in Seq(Byte) /\ <<y>> \in Seq(Byte)
    BY <1>1, <2>4
  <2>8. <<y>> \o tail \in Seq(Byte) /\ (<<y>> \o tail)[1] = y /\ Tail(<<y>> \o tail) = tail
    BY <2>4, Led
  <2>9. CrleUnpackSize(c \o (<<y>> \o tail)) = [value |-> v, rest |-> <<y>> \o tail]
    BY <2>2, <2>8, CrleUnpacks DEF c
  <2>10. /\ <<Repeated>> \o c \o <<y>> = <<Repeated>> \o (c \o <<y>>)
         /\ (<<Repeated>> \o (c \o <<y>>)) \o tail = <<Repeated>> \o ((c \o <<y>>) \o tail)
         /\ (c \o <<y>>) \o tail = c \o (<<y>> \o tail)
         /\ c \o <<y>> \in Seq(Byte)
    <3>1. c \o <<y>> \in Seq(Byte)
      BY <2>6, <2>7, Joined
    <3>2. <<Repeated>> \o c \o <<y>> = <<Repeated>> \o (c \o <<y>>)
      BY <2>6, <2>7, ConcatAssociative
    <3>3. (c \o <<y>>) \o tail = c \o (<<y>> \o tail)
      BY <2>6, <2>7, ConcatAssociative
    <3> DEFINE z == c \o <<y>>
    <3>4. z \in Seq(Byte)
      BY <3>1
    <3> HIDE DEF z
    <3>5. (<<Repeated>> \o z) \o tail = <<Repeated>> \o (z \o tail)
      BY <2>6, <2>7, <3>4, ConcatAssociative
    <3> QED
      BY <3>1, <3>2, <3>3, <3>5 DEF z
  <2>11. c \o (<<y>> \o tail) \in Seq(Byte)
    BY <2>6, <2>8, Joined
  <2> DEFINE b == Chunk(d, i) \o tail
  <2>12. b = <<Repeated>> \o (c \o (<<y>> \o tail))
    BY <2>3, <2>10
  <2>13. Head(b) = Repeated /\ Tail(b) = c \o (<<y>> \o tail)
    BY <1>1, <2>11, <2>12, Led
  <2>14. Chunk(d, i) \in Seq(Byte) /\ Len(Chunk(d, i)) >= 1
    <3>1. Len(c \o <<y>>) \in Nat
      BY <2>10, LenProperties
    <3>2. Chunk(d, i) \in Seq(Byte) /\ Len(Chunk(d, i)) = Len(c \o <<y>>) + 1
      BY <1>1, <2>3, <2>10, Led
    <3> QED
      BY <3>1, <3>2
  <2> HIDE DEF b
  <2> DEFINE u == [value |-> v, rest |-> <<y>> \o tail]
             x == [rest |-> b, out |-> o]
  <2>15. u = CrleUnpackSize(Tail(x.rest)) /\ Head(x.rest) = Repeated /\ x.out = o
    BY <2>9, <2>13
  <2>16. u.value = v /\ u.rest = <<y>> \o tail
    OBVIOUS
  <2> HIDE DEF u, x
  <2>17. CrleStep(x) = [rest |-> Tail(u.rest), out |-> x.out \o [m \in 1..u.value |-> u.rest[1]]]
    BY <2>15, CrleStepIs
  <2>18. CrleStep(x) = [rest |-> tail, out |-> o \o e]
    BY <2>8, <2>15, <2>16, <2>17
  <2> HIDE DEF e
  <2> QED
    BY <2>3, <2>5, <2>14, <2>18 DEF x, b
<1> QED
  BY <1>2, <1>3

\* What is compressed is expanded to what it was.
THEOREM ExpandsBack ==
    ASSUME NEW d \in Seq(Byte), d # <<>>
    PROVE  CrleCompress(d) \in Seq(Byte) /\ CrleExpand(CrleCompress(d)) = d
<1>1. PICK f : /\ CrleCompress(d) = f[0] /\ f[Len(d)] = <<>>
               /\ \A i \in 0..Len(d) - 1 : f[i] = Chunk(d, i) \o f[After(d, i)]
  BY Compresses
<1>2. Len(d) \in Nat /\ \A i \in 0..Len(d) - 1 : After(d, i) \in i + 1..Len(d)
  <2>1. \A i \in 0..Len(d) - 1 : i \in 0..Len(d) /\ i # Len(d)
    BY LenProperties
  <2> QED
    BY <2>1, RestIs, LenProperties
<1> DEFINE N == Len(d)
           T == {m \in Nat : \A i \in 0..N : N - i <= m => f[i] \in Seq(Byte)}
<1>3. N \in T
  <2>1. 0 \in T
    <3>1. ASSUME NEW i \in 0..N, N - i <= 0 PROVE f[i] \in Seq(Byte)
      <4>1. i = N
        BY <1>2, <3>1
      <4> QED
        BY <1>1, <4>1, EmptySeq
    <3> QED
      BY <3>1
  <2>2. ASSUME NEW m \in Nat, m \in T PROVE m + 1 \in T
    <3>1. ASSUME NEW i \in 0..N, N - i <= m + 1 PROVE f[i] \in Seq(Byte)
      <4>1. CASE i = N
        BY <1>1, <4>1, EmptySeq
      <4>2. CASE i # N
        <5>1. i \in 0..N - 1
          BY <1>2, <4>2
        <5>2. After(d, i) \in i + 1..N
          BY <1>2, <5>1
        <5>3. After(d, i) \in 0..N /\ N - After(d, i) <= m
          BY <1>2, <3>1, <5>2
        <5>4. f[After(d, i)] \in Seq(Byte)
          BY <2>2, <5>3
        <5>5. Chunk(d, i) \in Seq(Byte)
          BY <5>1, <5>4, ChunkExpands
        <5>6. Chunk(d, i) \o f[After(d, i)] \in Seq(Byte)
          BY <5>4, <5>5, Joined
        <5> QED
          BY <1>1, <5>1, <5>6
      <4> QED
        BY <4>1, <4>2
    <3> QED
      BY <3>1
  <2> HIDE DEF T
  <2> QED
    BY <1>2, <2>1, <2>2, SetInduction
<1>4. \A i \in 0..N : f[i] \in Seq(Byte) /\ Len(f[i]) \in Nat
  <2>1. ASSUME NEW i \in 0..N PROVE f[i] \in Seq(Byte)
    <3>1. N - i <= N
      BY <1>2
    <3> QED
      BY <1>3, <3>1
  <2> QED
    BY <2>1, LenProperties
<1> HIDE DEF T
<1> DEFINE s == f[0]
           L == Len(s)
<1>5. s \in Seq(Byte) /\ L \in Nat
  BY <1>2, <1>4
<1>6. PICK a : CrleExpand(s) = a[L].out /\ Expansion(a, s)
  BY <1>5, Expands
<1> HIDE DEF s
<1>7. /\ a[0] = [rest |-> s, out |-> <<>>]
      /\ \A n \in 0..L - 1 : a[n + 1] = IF a[n].rest = <<>> THEN a[n] ELSE CrleStep(a[n])
  BY <1>6 DEF Expansion
<1>8. ASSUME NEW n \in 0..L, a[n].rest = <<>> PROVE a[L] = a[n]
  <2> DEFINE S == {m \in Nat : n + m <= L => a[n + m] = a[n]}
  <2>1. 0 \in S
    <3>1. n + 0 = n
      OBVIOUS
    <3> QED
      BY <3>1
  <2>2. ASSUME NEW m \in Nat, m \in S PROVE m + 1 \in S
    <3>1. ASSUME n + (m + 1) <= L PROVE a[n + (m + 1)] = a[n]
      <4>1. n + m \in 0..L - 1 /\ (n + m) + 1 = n + (m + 1) /\ n + m <= L
        BY <1>5, <3>1
      <4>2. a[n + m] = a[n]
        BY <2>2, <4>1
      <4>3. a[(n + m) + 1] = a[n]
        BY <1>7, <1>8, <4>1, <4>2
      <4> QED
        BY <4>1, <4>3
    <3> QED
      BY <3>1
  <2> HIDE DEF S
  <2>3. L - n \in Nat /\ n + (L - n) = L
    BY <1>5
  <2>4. L - n \in S
    BY <2>1, <2>2, <2>3, SetInduction
  <2> QED
    BY <1>5, <2>3, <2>4 DEF S
<1> DEFINE Ends(i) == \A n \in 0..L : Len(f[i]) <= L - n /\ a[n] = [rest |-> f[i], out |-> Slice(d, 0, i)]
                         => a[L].out = d
           E == {m \in Nat : \A i \in 0..N : N - i <= m => Ends(i)}
<1>9. Ends(N)
  <2>1. ASSUME NEW n \in 0..L, a[n] = [rest |-> f[N], out |-> Slice(d, 0, N)] PROVE a[L].out = d
    <3>1. a[n].rest = <<>> /\ a[n].out = Slice(d, 0, N)
      BY <1>1, <2>1
    <3>2. Slice(d, 0, N) = d
      BY <1>2, SubSeqFull DEF Slice
    <3> QED
      BY <1>8, <3>1, <3>2
  <2> QED
    BY <2>1
<1>10. ASSUME NEW i \in 0..N - 1, Ends(After(d, i)) PROVE Ends(i)
  <2> DEFINE e == After(d, i)
             c == Chunk(d, i)
  <2>1. e \in i + 1..N
    BY <1>2
  <2>2. e \in 0..N /\ e \in Nat /\ i <= e /\ e <= N /\ i \in 0..N /\ i \in Nat
    BY <1>2, <2>1
  <2>3. f[i] = c \o f[e]
    BY <1>1
  <2>4. f[e] \in Seq(Byte) /\ Len(f[e]) \in Nat
    BY <1>4, <2>2
  <2>5. /\ c \in Seq(Byte) /\ Len(c) >= 1
        /\ \A o : CrleStep([rest |-> c \o f[e], out |-> o]) = [rest |-> f[e], out |-> o \o Slice(d, i, e)]
    BY <2>4, ChunkExpands
  <2>6. Len(f[i]) = Len(c) + Len(f[e]) /\ Len(c) \in Nat
    <3> HIDE DEF c, e
    <3> QED
      BY <2>3, <2>4, <2>5, Joined, LenProperties
  <2>7. Slice(d, 0, i) \o Slice(d, i, e) = Slice(d, 0, e)
    <3> HIDE DEF e
    <3> QED
      BY <1>2, <2>2, SlicesJoin
  <2>8. Ends(e)
    BY <1>10
  <2> HIDE DEF c, e
  <2>9. ASSUME NEW n \in 0..L, Len(f[i]) <= L - n, a[n] = [rest |-> f[i], out |-> Slice(d, 0, i)]
        PROVE  a[L].out = d
    <3>1. a[n].rest = f[i]
      BY <2>9
    <3>2. f[i] # <<>>
      BY <2>4, <2>5, <2>6, EmptySeq
    <3>0. /\ n \in 0..L /\ Len(f[i]) <= L - n /\ Len(f[i]) = Len(c) + Len(f[e])
          /\ Len(c) \in Nat /\ Len(c) >= 1 /\ Len(f[e]) \in Nat
      BY <2>4, <2>5, <2>6, <2>9
    <3>3. n \in 0..L - 1
      BY <1>5, <3>0
    <3>4. a[n + 1] = CrleStep(a[n])
      BY <1>7, <3>1, <3>2, <3>3
    <3>5. CrleStep(a[n]) = [rest |-> f[e], out |-> Slice(d, 0, i) \o Slice(d, i, e)]
      BY <2>3, <2>5, <2>9
    <3>6. a[n + 1] = [rest |-> f[e], out |-> Slice(d, 0, e)]
      BY <2>7, <3>4, <3>5
    <3>7. n + 1 \in 0..L /\ Len(f[e]) <= L - (n + 1)
      BY <1>5, <3>0, <3>3
    <3> QED
      BY <2>8, <3>6, <3>7
  <2> QED
    BY <2>9
<1> HIDE DEF Ends
<1>11. 0 \in E
  <2>1. ASSUME NEW i \in 0..N, N - i <= 0 PROVE Ends(i)
    <3>1. i = N
      BY <1>2, <2>1
    <3> QED
      BY <1>9, <3>1
  <2> QED
    BY <2>1
<1>12. ASSUME NEW m \in Nat, m \in E PROVE m + 1 \in E
  <2>1. ASSUME NEW i \in 0..N, N - i <= m + 1 PROVE Ends(i)
    <3>1. CASE i = N
      BY <1>9, <3>1
    <3>2. CASE i # N
      <4>1. i \in 0..N - 1
        BY <1>2, <3>2
      <4>2. After(d, i) \in i + 1..N
        BY <1>2, <4>1
      <4>3. After(d, i) \in 0..N /\ N - After(d, i) <= m
        BY <1>2, <2>1, <4>2
      <4>4. Ends(After(d, i))
        BY <1>12, <4>3
      <4> QED
        BY <1>10, <4>1, <4>4
    <3> QED
      BY <3>1, <3>2
  <2> QED
    BY <2>1
<1>13. N \in E
  <2> HIDE DEF E
  <2> QED
    BY <1>2, <1>11, <1>12, SetInduction
<1>14. Ends(0)
  <2>1. 0 \in 0..N /\ N - 0 <= N
    BY <1>2
  <2> QED
    BY <1>13, <2>1
<1>15. a[L].out = d
  <2>1. Slice(d, 0, 0) = <<>>
    BY SubSeqEmpty DEF Slice
  <2>2. 0 \in 0..L /\ Len(f[0]) <= L - 0
    BY <1>5 DEF s
  <2>3. a[0] = [rest |-> f[0], out |-> Slice(d, 0, 0)]
    BY <1>7, <2>1 DEF s
  <2> QED
    BY <1>14, <2>2, <2>3 DEF Ends
<1> QED
  BY <1>1, <1>5, <1>6, <1>15 DEF s

----------------------------------------------------------------------------
(* The bytes of a segment.                                                 *)

\* The recursion of FlattenSeq
FlattenAt(f, q, n) == IF n = 1 THEN q[n] ELSE f[n - 1] \o q[n]

\* The recursion of FlattenSeq has a solution.
LEMMA FlattenExists ==
    ASSUME NEW q, NEW z \in Nat
    PROVE  \E f : f = [n \in 1..z |-> FlattenAt(f, q, n)]
<1> DEFINE Solves(a, m) == \A n \in 1..m : a[n] = FlattenAt(a, q, n)
           P == {m \in Nat : \E a : Solves(a, m)}
<1>1. 0 \in P
  <2>1. 1..0 = {}
    OBVIOUS
  <2>2. \E a : Solves(a, 0)
    BY <2>1
  <2> HIDE DEF Solves
  <2> QED
    BY <2>2
<1>2. ASSUME NEW m \in Nat, m \in P PROVE m + 1 \in P
  <2>1. PICK a : Solves(a, m)
    BY <1>2
  <2> DEFINE h == [n \in 1..m + 1 |-> IF n = m + 1 THEN FlattenAt(a, q, n) ELSE a[n]]
  <2>2. ASSUME NEW n \in 1..m + 1 PROVE h[n] = FlattenAt(h, q, n)
    <3>1. h[n] = FlattenAt(a, q, n)
      <4>1. n = m + 1 \/ n \in 1..m
        OBVIOUS
      <4> QED
        BY <2>1, <4>1
    <3>2. CASE n = 1
      BY <3>1, <3>2 DEF FlattenAt
    <3>3. CASE n # 1
      <4>1. n - 1 \in 1..m + 1 /\ n - 1 # m + 1
        BY <3>3
      <4>2. h[n - 1] = a[n - 1]
        BY <4>1
      <4> HIDE DEF h
      <4> QED
        BY <3>1, <3>3, <4>2 DEF FlattenAt
    <3> QED
      BY <3>2, <3>3
  <2>3. Solves(h, m + 1)
    BY <2>2
  <2> HIDE DEF h, Solves
  <2>4. \E g : Solves(g, m + 1)
    BY <2>3
  <2> QED
    BY <2>4
<1>3. z \in P
  <2> HIDE DEF P
  <2> QED BY <1>1, <1>2, SetInduction
<1>4. PICK g : Solves(g, z)
  BY <1>3
<1> DEFINE f == [n \in 1..z |-> g[n]]
<1>5. ASSUME NEW n \in 1..z PROVE f[n] = FlattenAt(f, q, n)
  <2>1. g[n] = FlattenAt(g, q, n) /\ f[n] = g[n]
    BY <1>4
  <2>2. n # 1 => f[n - 1] = g[n - 1]
    <3>1. n # 1 => n - 1 \in 1..z
      OBVIOUS
    <3> QED
      BY <3>1
  <2> HIDE DEF f
  <2> QED
    BY <2>1, <2>2 DEF FlattenAt
<1>6. f = [n \in 1..z |-> FlattenAt(f, q, n)]
  <2>1. f = [n \in 1..z |-> f[n]]
    OBVIOUS
  <2> HIDE DEF f
  <2> QED
    BY <1>5, <2>1
<1> QED
  BY <1>6

\* Flattening joins one element after the other.
LEMMA Flattens ==
    ASSUME NEW q, Len(q) \in Nat, Len(q) >= 1
    PROVE  \E f : FlattenSeq(q) = f[Len(q)] /\ \A n \in 1..Len(q) : f[n] = FlattenAt(f, q, n)
<1> DEFINE f == CHOOSE g : g = [n \in 1..Len(q) |-> FlattenAt(g, q, n)]
<1>1. f = [n \in 1..Len(q) |-> FlattenAt(f, q, n)]
  BY FlattenExists
<1>2. FlattenSeq(q) = f[Len(q)]
  BY DEF FlattenSeq, FlattenAt
<1> HIDE DEF f
<1>3. \A n \in 1..Len(q) : f[n] = FlattenAt(f, q, n)
  BY <1>1
<1> QED
  BY <1>2, <1>3

\* One element more is joined at the end.
LEMMA FlattenAppends ==
    ASSUME NEW q, NEW p, NEW m \in Nat, Len(q) = m, Len(p) = m + 1,
           \A n \in 1..m : p[n] = q[n],
           FlattenSeq(q) \in Seq(Byte), m = 0 => FlattenSeq(q) = <<>>,
           p[m + 1] \in Seq(Byte)
    PROVE  FlattenSeq(p) = FlattenSeq(q) \o p[m + 1]
<1>1. m + 1 \in Nat /\ m + 1 >= 1 /\ m + 1 \in 1..m + 1
  OBVIOUS
<1>2. PICK g : FlattenSeq(p) = g[m + 1] /\ \A n \in 1..m + 1 : g[n] = FlattenAt(g, p, n)
  BY <1>1, Flattens
<1>3. CASE m = 0
  <2>1. g[1] = p[1]
    BY <1>1, <1>2, <1>3 DEF FlattenAt
  <2>2. FlattenSeq(p) = p[m + 1]
    BY <1>2, <1>3, <2>1
  <2> QED
    BY <1>3, <2>2, ConcatEmptySeq
<1>4. CASE m # 0
  <2>1. PICK f : FlattenSeq(q) = f[m] /\ \A n \in 1..m : f[n] = FlattenAt(f, q, n)
    BY <1>4, Flattens
  <2> DEFINE P == {n \in Nat : n \in 1..m => g[n] = f[n]}
  <2>2. 0 \in P
    OBVIOUS
  <2>3. ASSUME NEW n \in Nat, n \in P PROVE n + 1 \in P
    <3>1. ASSUME n + 1 \in 1..m PROVE g[n + 1] = f[n + 1]
      <4>1. n + 1 \in 1..m + 1 /\ (n + 1) - 1 = n /\ (n + 1 # 1 => n \in 1..m)
        BY <3>1
      <4>2. g[n + 1] = FlattenAt(g, p, n + 1) /\ f[n + 1] = FlattenAt(f, q, n + 1) /\ p[n + 1] = q[n + 1]
        BY <1>2, <2>1, <3>1, <4>1
      <4>3. n + 1 # 1 => g[n] = f[n]
        BY <2>3, <4>1
      <4> QED
        BY <4>1, <4>2, <4>3 DEF FlattenAt
    <3> QED
      BY <3>1
  <2>4. m \in P
    <3> HIDE DEF P
    <3> QED
      BY <2>2, <2>3, SetInduction
  <2>5. g[m] = f[m]
    BY <1>4, <2>4
  <2>6. g[m + 1] = g[m] \o p[m + 1]
    <3>1. m + 1 # 1 /\ (m + 1) - 1 = m
      BY <1>4
    <3> QED
      BY <1>1, <1>2, <3>1 DEF FlattenAt
  <2> QED
    BY <1>2, <2>1, <2>5, <2>6
<1> QED
  BY <1>3, <1>4

\* What the triples of b are written as, and all that a segment is written as
Bytes(b) == FlattenSeq([i \in 1..Len(b) |-> TripleBytes(b[i])])
Marked(b) == PackSize(0) \o Bytes(b)

\* A triple of bytes, and one that bsdiff may emit
IsTriple(t) == t.diff \in Seq(Byte) /\ t.extra \in Seq(Byte) /\ t.seek \in Int

\* A triple takes three bytes at least.
LEMMA TriplesAreBytes ==
    ASSUME NEW t, IsTriple(t)
    PROVE  TripleBytes(t) \in Seq(Byte) /\ Len(TripleBytes(t)) >= 1
<1> DEFINE m == Len(t.diff)
           n == Len(t.extra)
           a == PackSize(m)
           b == PackSize(n)
           c == PackSize(t.seek)
<1>1. t.diff \in Seq(Byte) /\ t.extra \in Seq(Byte) /\ m \in Int /\ n \in Int /\ t.seek \in Int
  BY LenProperties DEF IsTriple
<1>2. <<>> \in Seq(Byte)
  BY EmptySeq
<1>3. /\ a \in Seq(Byte) /\ Len(a) >= 1 /\ b \in Seq(Byte) /\ c \in Seq(Byte)
  BY <1>1, <1>2, UnpacksBack
<1>4. TripleBytes(t) = (((a \o t.diff) \o b) \o t.extra) \o c
  BY DEF TripleBytes
<1> HIDE DEF a, b, c
<1> DEFINE u == a \o t.diff
           v == u \o b
           w == v \o t.extra
           x == w \o c
<1>5. u \in Seq(Byte) /\ Len(u) = Len(a) + m
  BY <1>1, <1>3, Joined
<1> HIDE DEF u
<1>6. v \in Seq(Byte) /\ Len(v) = Len(u) + Len(b)
  BY <1>3, <1>5, Joined
<1> HIDE DEF v
<1>7. w \in Seq(Byte) /\ Len(w) = Len(v) + n
  BY <1>1, <1>6, Joined
<1> HIDE DEF w
<1>8. x \in Seq(Byte) /\ Len(x) = Len(w) + Len(c)
  BY <1>3, <1>7, Joined
<1>9. Len(a) \in Nat /\ m \in Nat /\ Len(b) \in Nat /\ n \in Nat /\ Len(c) \in Nat
  BY <1>1, <1>3, LenProperties
<1> HIDE DEF m, n, x
<1>10. Len(x) >= 1
  <2>1. Len(u) \in Nat /\ Len(u) >= 1
    BY <1>3, <1>5, <1>9
  <2>2. Len(v) \in Nat /\ Len(v) >= 1
    BY <1>6, <1>9, <2>1
  <2>3. Len(w) \in Nat /\ Len(w) >= 1
    BY <1>7, <1>9, <2>2
  <2> QED
    BY <1>8, <1>9, <2>3
<1> QED
  BY <1>4, <1>8, <1>10 DEF x, w, v, u

\* No triples are no bytes, and a triple more is its bytes more.
LEMMA NoBytes == Bytes(<<>>) = <<>>
<1>1. Len(<<>>) = 0
  BY EmptySeq
<1> DEFINE q == [i \in 1..Len(<<>>) |-> TripleBytes(<<>>[i])]
<1>2. q = <<>>
  <2>1. 1..Len(<<>>) = {}
    BY <1>1
  <2>2. q \in [1..0 -> {}]
    BY <1>1, <2>1
  <2> HIDE DEF q
  <2>3. q \in Seq({}) /\ Len(q) = 0
    BY <2>2
  <2> QED
    BY <2>3, EmptySeq
<1>3. FlattenSeq(<<>>) = <<>>
  BY <1>1 DEF FlattenSeq
<1> QED
  BY <1>2, <1>3 DEF Bytes

\* A triple more is written behind the others.
LEMMA BytesAppend ==
    ASSUME NEW S, NEW b \in Seq(S), NEW t \in S, IsTriple(t), Bytes(b) \in Seq(Byte)
    PROVE  Bytes(Append(b, t)) = Bytes(b) \o TripleBytes(t)
<1> DEFINE m == Len(b)
           e == Append(b, t)
           q == [i \in 1..m |-> TripleBytes(b[i])]
           p == [i \in 1..Len(e) |-> TripleBytes(e[i])]
<1>1. m \in Nat /\ Len(e) = m + 1 /\ e[m + 1] = t /\ \A i \in 1..m : e[i] = b[i]
  <2>1. m \in Nat
    BY LenProperties
  <2>2. Len(e) = m + 1 /\ \A i \in 1..m + 1 : e[i] = IF i <= m THEN b[i] ELSE t
    BY AppendProperties
  <2> QED
    BY <2>1, <2>2
<1>2. TripleBytes(t) \in Seq(Byte)
  BY TriplesAreBytes
<1> HIDE DEF e
<1>3. /\ Bytes(b) = FlattenSeq(q) /\ Bytes(e) = FlattenSeq(p)
  BY DEF Bytes
<1>4. Len(q) = m /\ Len(p) = m + 1
  <2>1. q \in [1..m -> {TripleBytes(b[i]) : i \in 1..m}]
    OBVIOUS
  <2>2. p \in [1..m + 1 -> {TripleBytes(e[i]) : i \in 1..m + 1}]
    BY <1>1
  <2> HIDE DEF q, p
  <2> QED
    BY <1>1, <2>1, <2>2
<1>5. p[m + 1] = TripleBytes(t) /\ \A n \in 1..m : p[n] = q[n]
  BY <1>1
<1>6. m = 0 => FlattenSeq(q) = <<>>
  <2>1. m = 0 => b = <<>>
    BY EmptySeq
  <2> QED
    BY <1>3, <2>1, NoBytes
<1> HIDE DEF p, q, m
<1>7. FlattenSeq(p) = FlattenSeq(q) \o p[m + 1]
  BY <1>1, <1>2, <1>3, <1>4, <1>5, <1>6, FlattenAppends
<1> QED
  BY <1>3, <1>5, <1>7 DEF e

\* t, before tail, is decoded to the bytes it stands for, and tail is left
ReadsBack(t, tail, base, img, at) ==
    TripleStep(base, [rest |-> TripleBytes(t) \o tail, img |-> img, at |-> at])
      = [rest |-> tail, at |-> at + Len(t.diff) + t.seek,
         img |-> img \o Patched(base, at, t.diff) \o t.extra]

\* A triple is read back, and what follows it left.
LEMMA TripleReads ==
    ASSUME NEW t, IsTriple(t), NEW tail \in Seq(Byte), NEW base, NEW img, NEW at
    PROVE  ReadsBack(t, tail, base, img, at)
<1> DEFINE diff == t.diff
           extra == t.extra
           seek == t.seek
           m == Len(diff)
           n == Len(extra)
           a == PackSize(m)
           b == PackSize(n)
           c == PackSize(seek)
<1>1. diff \in Seq(Byte) /\ extra \in Seq(Byte) /\ m \in Int /\ n \in Int /\ seek \in Int
  BY LenProperties DEF IsTriple
<1>2. a \in Seq(Byte) /\ b \in Seq(Byte) /\ c \in Seq(Byte)
  BY <1>1, UnpacksBack
<1>3. TripleBytes(t) = (((a \o diff) \o b) \o extra) \o c
  BY DEF TripleBytes
<1> DEFINE v == c \o tail
           w == extra \o v
           x == b \o w
           y == diff \o x
<1>4. v \in Seq(Byte) /\ UnpackSize(v) = [value |-> seek, rest |-> tail]
  BY <1>1, <1>2, UnpacksBack, Joined
<1> HIDE DEF m, n
<1>5. w \in Seq(Byte) /\ Slice(w, 0, n) = extra /\ Slice(w, n, Len(w)) = v
  <2> HIDE DEF v
  <2> QED
    BY <1>1, <1>4, Joined DEF n
<1>6. x \in Seq(Byte) /\ UnpackSize(x) = [value |-> n, rest |-> w]
  <2> HIDE DEF w
  <2> QED
    BY <1>1, <1>2, <1>5, UnpacksBack, Joined
<1>7. y \in Seq(Byte) /\ Slice(y, 0, m) = diff /\ Slice(y, m, Len(y)) = x
  <2> HIDE DEF x
  <2> QED
    BY <1>1, <1>6, Joined DEF m
<1>8. UnpackSize(a \o y) = [value |-> m, rest |-> y]
  <2> HIDE DEF y
  <2> QED
    BY <1>1, <1>7, UnpacksBack
<1>9. TripleBytes(t) \o tail = a \o y
  <2> HIDE DEF a, b, c, diff, extra
  <2> DEFINE ad == a \o diff
             adb == ad \o b
             adbe == adb \o extra
  <2>1. ad \in Seq(Byte) /\ adb \in Seq(Byte) /\ adbe \in Seq(Byte)
    <3>1. ad \in Seq(Byte)
      BY <1>1, <1>2, Joined
    <3> HIDE DEF ad
    <3>2. adb \in Seq(Byte)
      BY <1>2, <3>1, Joined
    <3> HIDE DEF adb
    <3>3. adbe \in Seq(Byte)
      BY <1>1, <3>2, Joined
    <3> QED
      BY <3>1, <3>2, <3>3
  <2>2. ad \o x = a \o y
    <3> HIDE DEF x
    <3>1. a \in Seq(Byte) /\ diff \in Seq(Byte) /\ x \in Seq(Byte)
      BY <1>1, <1>2, <1>6
    <3> QED
      BY <3>1, Regroup
  <2> HIDE DEF ad, y
  <2>3. adb \o w = ad \o x
    <3> HIDE DEF w
    <3>1. ad \in Seq(Byte) /\ b \in Seq(Byte) /\ w \in Seq(Byte)
      BY <1>2, <1>5, <2>1
    <3> QED
      BY <3>1, Regroup
  <2> HIDE DEF adb, x
  <2>4. adbe \o v = adb \o w
    <3> HIDE DEF v
    <3>1. adbe = adb \o extra /\ adb \in Seq(Byte) /\ extra \in Seq(Byte) /\ v \in Seq(Byte)
      BY <1>1, <1>4, <2>1
    <3> QED
      BY <3>1, Regroup
  <2> HIDE DEF adbe, w
  <2>5. (adbe \o c) \o tail = adbe \o v
    <3>1. adbe \in Seq(Byte) /\ c \in Seq(Byte) /\ tail \in Seq(Byte)
      BY <1>2, <2>1
    <3> QED
      BY <3>1, Regroup
  <2>6. TripleBytes(t) = adbe \o c
    BY <1>3 DEF adbe, adb, ad
  <2> QED
    BY <2>2, <2>3, <2>4, <2>5, <2>6
<1> HIDE DEF a, b, c, v, w, x, y
<1> DEFINE d == [rest |-> TripleBytes(t) \o tail, img |-> img, at |-> at]
           p == [value |-> m, rest |-> y]
           q == [value |-> n, rest |-> w]
           r == [value |-> seek, rest |-> tail]
<1>10. d.rest = a \o y /\ d.img = img /\ d.at = at
  BY <1>9
<1>11. p.value = m /\ p.rest = y /\ q.value = n /\ q.rest = w /\ r.value = seek /\ r.rest = tail
  OBVIOUS
<1> HIDE DEF d, p, q, r
<1>12. p = UnpackSize(d.rest)
  BY <1>8, <1>10 DEF p
<1>13. q = UnpackSize(Slice(p.rest, p.value, Len(p.rest)))
  BY <1>6, <1>7, <1>11 DEF q
<1>14. r = UnpackSize(Slice(q.rest, q.value, Len(q.rest)))
  BY <1>4, <1>5, <1>11 DEF r
<1>15. TripleStep(base, d)
         = [rest |-> r.rest, at |-> d.at + p.value + r.value,
            img |-> d.img \o Patched(base, d.at, Slice(p.rest, 0, p.value)) \o Slice(q.rest, 0, q.value)]
  BY <1>12, <1>13, <1>14 DEF TripleStep
<1>16. TripleStep(base, d)
         = [rest |-> tail, at |-> at + m + seek, img |-> img \o Patched(base, at, diff) \o extra]
  BY <1>5, <1>7, <1>10, <1>11, <1>15
<1> QED
  BY <1>16 DEF d, m, ReadsBack

\* f is the beginning of base
Extends(base, f) ==
    base \in Seq(Byte) /\ Len(f) <= Len(base) /\ \A i \in 1..Len(f) : base[i] = f[i]

\* The decoder reads no further than the base that was diffed.
LEMMA PatchedSame ==
    ASSUME NEW f \in Seq(Byte), NEW base, Extends(base, f),
           NEW p \in Nat, NEW d, Len(d) \in Nat, p + Len(d) <= Len(f)
    PROVE  Patched(base, p, d) = Patched(f, p, d)
<1>1. \A i \in 1..Len(d) : base[p + i] = f[p + i]
  <2> SUFFICES ASSUME NEW i \in 1..Len(d) PROVE base[p + i] = f[p + i]
    OBVIOUS
  <2>1. p + i \in 1..Len(f)
    BY LenProperties
  <2> QED
    BY <2>1 DEF Extends
<1> QED
  BY <1>1 DEF Patched

\* The recursion of Segment
SegmentAt(a, base, size, bytes, n) ==
    IF n = 0 THEN [rest |-> UnpackSize(bytes).rest, img |-> <<>>, at |-> 0]
    ELSE IF Len(a[n - 1].img) >= size THEN a[n - 1] ELSE TripleStep(base, a[n - 1])

\* The recursion of Segment has a solution.
LEMMA SegmentExists ==
    ASSUME NEW base, NEW size, NEW bytes, NEW z \in Nat
    PROVE  \E a : a = [n \in 0..z |-> SegmentAt(a, base, size, bytes, n)]
<1> DEFINE Solves(a, m) == \A n \in 0..m : a[n] = SegmentAt(a, base, size, bytes, n)
           P == {m \in Nat : \E a : Solves(a, m)}
<1>1. 0 \in P
  <2> DEFINE h == [n \in 0..0 |-> [rest |-> UnpackSize(bytes).rest, img |-> <<>>, at |-> 0]]
  <2>1. \A n \in 0..0 : n = 0 /\ h[n] = [rest |-> UnpackSize(bytes).rest, img |-> <<>>, at |-> 0]
    OBVIOUS
  <2>2. Solves(h, 0)
    BY <2>1 DEF SegmentAt
  <2> HIDE DEF h, Solves
  <2>3. \E a : Solves(a, 0)
    BY <2>2
  <2> QED
    BY <2>3
<1>2. ASSUME NEW m \in Nat, m \in P PROVE m + 1 \in P
  <2>1. PICK a : Solves(a, m)
    BY <1>2
  <2> DEFINE h == [n \in 0..m + 1 |-> IF n = m + 1 THEN SegmentAt(a, base, size, bytes, n) ELSE a[n]]
  <2>2. ASSUME NEW n \in 0..m + 1 PROVE h[n] = SegmentAt(h, base, size, bytes, n)
    <3>1. h[n] = SegmentAt(a, base, size, bytes, n)
      <4>1. n = m + 1 \/ n \in 0..m
        OBVIOUS
      <4> QED
        BY <2>1, <4>1
    <3>2. CASE n = 0
      BY <3>1, <3>2 DEF SegmentAt
    <3>3. CASE n # 0
      <4>1. n - 1 \in 0..m + 1 /\ n - 1 # m + 1
        BY <3>3
      <4>2. h[n - 1] = a[n - 1]
        BY <4>1
      <4> HIDE DEF h
      <4> QED
        BY <3>1, <3>3, <4>2 DEF SegmentAt
    <3> QED
      BY <3>2, <3>3
  <2>3. Solves(h, m + 1)
    BY <2>2
  <2> HIDE DEF h, Solves
  <2>4. \E g : Solves(g, m + 1)
    BY <2>3
  <2> QED
    BY <2>4
<1>3. z \in P
  <2> HIDE DEF P
  <2> QED BY <1>1, <1>2, SetInduction
<1>4. PICK g : Solves(g, z)
  BY <1>3
<1> DEFINE f == [n \in 0..z |-> g[n]]
<1>5. ASSUME NEW n \in 0..z PROVE f[n] = SegmentAt(f, base, size, bytes, n)
  <2>1. g[n] = SegmentAt(g, base, size, bytes, n) /\ f[n] = g[n]
    BY <1>4
  <2>2. n # 0 => f[n - 1] = g[n - 1]
    <3>1. n # 0 => n - 1 \in 0..z
      OBVIOUS
    <3> QED
      BY <3>1
  <2> HIDE DEF f
  <2> QED
    BY <2>1, <2>2 DEF SegmentAt
<1>6. f = [n \in 0..z |-> SegmentAt(f, base, size, bytes, n)]
  <2>1. f = [n \in 0..z |-> f[n]]
    OBVIOUS
  <2> HIDE DEF f
  <2> QED
    BY <1>5, <2>1
<1> QED
  BY <1>6

\* a is the run of Segment on bytes
SegmentRun(a, base, size, bytes) ==
    /\ a[0] = [rest |-> UnpackSize(bytes).rest, img |-> <<>>, at |-> 0]
    /\ \A n \in 0..Len(bytes) - 1 :
         a[n + 1] = IF Len(a[n].img) >= size THEN a[n] ELSE TripleStep(base, a[n])

\* Segment yields what its run ends with.
LEMMA SegmentRuns ==
    ASSUME NEW base, NEW size, NEW bytes, Len(bytes) \in Nat
    PROVE  \E a : Segment(base, size, bytes) = a[Len(bytes)] /\ SegmentRun(a, base, size, bytes)
<1> DEFINE f == CHOOSE g : g = [n \in 0..Len(bytes) |-> SegmentAt(g, base, size, bytes, n)]
<1>1. f = [n \in 0..Len(bytes) |-> SegmentAt(f, base, size, bytes, n)]
  BY SegmentExists
<1>2. Segment(base, size, bytes) = f[Len(bytes)]
  BY DEF Segment, SegmentAt
<1> HIDE DEF f
<1>3. \A n \in 0..Len(bytes) : f[n] = SegmentAt(f, base, size, bytes, n)
  BY <1>1
<1>4. f[0] = [rest |-> UnpackSize(bytes).rest, img |-> <<>>, at |-> 0]
  BY <1>3 DEF SegmentAt
<1>5. ASSUME NEW n \in 0..Len(bytes) - 1
      PROVE  f[n + 1] = IF Len(f[n].img) >= size THEN f[n] ELSE TripleStep(base, f[n])
  <2>1. n + 1 \in 0..Len(bytes) /\ n + 1 # 0 /\ (n + 1) - 1 = n
    OBVIOUS
  <2> QED
    BY <1>3, <2>1 DEF SegmentAt
<1> QED
  BY <1>2, <1>4, <1>5 DEF SegmentRun

\* A complete segment stays what it is.
LEMMA SegmentStays ==
    ASSUME NEW base, NEW size, NEW bytes, Len(bytes) \in Nat, NEW a, SegmentRun(a, base, size, bytes),
           NEW n \in 0..Len(bytes), Len(a[n].img) >= size
    PROVE  a[Len(bytes)] = a[n]
<1> DEFINE L == Len(bytes)
           S == {m \in Nat : n + m <= L => a[n + m] = a[n]}
<1>1. 0 \in S
  <2>1. n + 0 = n
    OBVIOUS
  <2> QED
    BY <2>1
<1>2. ASSUME NEW m \in Nat, m \in S PROVE m + 1 \in S
  <2>1. ASSUME n + (m + 1) <= L PROVE a[n + (m + 1)] = a[n]
    <3>1. n + m \in 0..L - 1 /\ (n + m) + 1 = n + (m + 1) /\ n + m <= L
      BY <2>1
    <3>2. a[n + m] = a[n]
      BY <1>2, <3>1
    <3>3. a[(n + m) + 1] = a[n]
      BY <3>1, <3>2 DEF SegmentRun
    <3> QED
      BY <3>1, <3>3
  <2> QED
    BY <2>1
<1> HIDE DEF S
<1>3. L - n \in Nat /\ n + (L - n) = L
  OBVIOUS
<1>4. L - n \in S
  BY <1>1, <1>2, <1>3, SetInduction
<1> QED
  BY <1>3, <1>4 DEF S

----------------------------------------------------------------------------
(* A segment and the decoder of bytes.                                     *)

\* The triples that bsdiff may emit
Triples == [diff : Seq(Byte), extra : Seq(Byte), seek : Int]

\* Whatever follows the triples b of a segment of n bytes, and whatever follows
\* f in the base, the decoder has written o after them and reads on at c
Reconstructs(b, f, o, c, n) ==
    \A base, tail, a :
        Extends(base, f) /\ tail \in Seq(Byte) /\ SegmentRun(a, base, n, Marked(b) \o tail) =>
            a[Len(b)] = [rest |-> tail, img |-> o, at |-> c]

\* b is triples, written as at least as many bytes
Written(b) == b \in Seq(Triples) /\ Bytes(b) \in Seq(Byte) /\ Len(Bytes(b)) >= Len(b)

\* bsdiff's own part of the invariant: the triples emitted, as bytes, make the
\* decoder write what they stand for
BodyInv ==
    /\ pc \in {"inner", "emit"} => lastscan < Len(to)
    /\ Written(body)
    /\ Reconstructs(body, from, out, cursor, Len(to))

\* The data-format marker takes a byte at least.
LEMMA MarkerIsBytes == PackSize(0) \in Seq(Byte) /\ Len(PackSize(0)) >= 1 /\ Len(PackSize(0)) \in Nat
<1>1. <<>> \in Seq(Byte) /\ 0 \in Int
  BY EmptySeq
<1>2. PackSize(0) \in Seq(Byte) /\ Len(PackSize(0)) >= 1
  BY <1>1, UnpacksBack
<1> QED
  BY <1>2, LenProperties

\* What a segment is written as is longer than it has triples.
LEMMA MarkedIsBytes ==
    ASSUME NEW b, Written(b)
    PROVE  /\ Marked(b) \in Seq(Byte) /\ Len(Marked(b)) \in Nat /\ Len(b) \in Nat
           /\ Len(Marked(b)) >= Len(b) + 1 /\ Marked(b) # <<>>
<1> DEFINE z == PackSize(0)
           y == Bytes(b)
           x == Marked(b)
<1>1. z \in Seq(Byte) /\ Len(z) >= 1 /\ Len(z) \in Nat
  BY MarkerIsBytes
<1>2. y \in Seq(Byte) /\ Len(y) \in Nat /\ Len(y) >= Len(b) /\ Len(b) \in Nat
  BY LenProperties DEF Written
<1>3. x = z \o y
  BY DEF Marked
<1> HIDE DEF y, z, x
<1>4. x \in Seq(Byte) /\ Len(x) = Len(z) + Len(y)
  BY <1>1, <1>2, <1>3, Joined
<1>5. Len(x) \in Nat /\ Len(x) >= Len(b) + 1
  BY <1>1, <1>2, <1>4
<1>6. x # <<>>
  BY <1>2, <1>5, EmptySeq
<1> QED
  BY <1>2, <1>4, <1>5, <1>6 DEF x

\* A triple more is written behind the others.
LEMMA MarkedMore ==
    ASSUME NEW b, Written(b), NEW t \in Triples, NEW tail \in Seq(Byte)
    PROVE  /\ Written(Append(b, t)) /\ Len(Append(b, t)) = Len(b) + 1
           /\ IsTriple(t) /\ Len(t.diff) \in Nat
           /\ TripleBytes(t) \o tail \in Seq(Byte)
           /\ Marked(Append(b, t)) \o tail = Marked(b) \o (TripleBytes(t) \o tail)
<1> DEFINE e == Append(b, t)
           u == TripleBytes(t)
           m == Len(b)
           z == PackSize(0)
           y == Bytes(b)
<1>1. IsTriple(t) /\ Len(t.diff) \in Nat
  <2>1. t.diff \in Seq(Byte) /\ t.extra \in Seq(Byte) /\ t.seek \in Int
    BY DEF Triples
  <2> QED
    BY <2>1, LenProperties DEF IsTriple
<1>2. u \in Seq(Byte) /\ Len(u) >= 1 /\ Len(u) \in Nat
  BY <1>1, TriplesAreBytes, LenProperties
<1>3. b \in Seq(Triples) /\ y \in Seq(Byte) /\ Len(y) >= m /\ Len(y) \in Nat
  BY LenProperties DEF Written
<1>4. e \in Seq(Triples) /\ Len(e) = m + 1 /\ m \in Nat
  BY <1>3, AppendProperties, LenProperties
<1>5. Bytes(e) = y \o u
  BY <1>1, <1>3, BytesAppend
<1>6. z \in Seq(Byte)
  BY MarkerIsBytes
<1>7. Marked(b) = z \o y /\ Marked(e) = z \o (y \o u)
  BY <1>5 DEF Marked
<1> HIDE DEF e, u, y, z
<1>8. y \o u \in Seq(Byte) /\ Len(y \o u) = Len(y) + Len(u)
  BY <1>2, <1>3, Joined
<1>9. Len(Bytes(e)) >= Len(e)
  BY <1>2, <1>3, <1>4, <1>5, <1>8
<1>10. Marked(e) \o tail = Marked(b) \o (u \o tail)
  <2>1. (z \o y) \o u = z \o (y \o u)
    BY <1>2, <1>3, <1>6, Regroup
  <2> DEFINE x == z \o y
  <2>2. x \in Seq(Byte)
    BY <1>3, <1>6, Joined
  <2> HIDE DEF x
  <2>3. (x \o u) \o tail = x \o (u \o tail)
    BY <1>2, <2>2, Regroup
  <2> QED
    BY <1>7, <2>1, <2>3 DEF x
<1>11. u \o tail \in Seq(Byte)
  BY <1>2, Joined
<1>12. Written(e)
  BY <1>4, <1>5, <1>8, <1>9 DEF Written
<1> QED
  BY <1>1, <1>4, <1>10, <1>11, <1>12 DEF e, u

\* Before the first triple nothing is decoded but the marker.
LEMMA NothingReconstructs ==
    ASSUME NEW f, NEW n
    PROVE  Written(<<>>) /\ Reconstructs(<<>>, f, <<>>, 0, n)
<1>1. <<>> \in Seq(Byte) /\ Len(<<>>) = 0 /\ <<>> \in Seq(Triples)
  BY EmptySeq
<1>2. ASSUME NEW base, NEW tail \in Seq(Byte), NEW a, SegmentRun(a, base, n, Marked(<<>>) \o tail)
      PROVE  a[0] = [rest |-> tail, img |-> <<>>, at |-> 0]
  <2>1. PackSize(0) \in Seq(Byte) /\ UnpackSize(PackSize(0) \o tail) = [value |-> 0, rest |-> tail]
    BY UnpacksBack
  <2>2. Marked(<<>>) = PackSize(0)
    BY <2>1, NoBytes, ConcatEmptySeq DEF Marked
  <2>3. a[0] = [rest |-> UnpackSize(PackSize(0) \o tail).rest, img |-> <<>>, at |-> 0]
    BY <1>2, <2>2 DEF SegmentRun
  <2> QED
    BY <2>1, <2>3
<1>3. Reconstructs(<<>>, f, <<>>, 0, n)
  BY <1>1, <1>2 DEF Reconstructs
<1>4. Len(Bytes(<<>>)) >= Len(<<>>) /\ Bytes(<<>>) \in Seq(Byte)
  <2>1. Bytes(<<>>) = <<>>
    BY NoBytes
  <2>2. 0 >= 0
    OBVIOUS
  <2> QED
    BY <1>1, <2>1, <2>2
<1>5. Written(<<>>)
  BY <1>1, <1>4 DEF Written
<1> QED
  BY <1>3, <1>5

\* A triple more makes the decoder write what it stands for.
LEMMA MoreReconstructs ==
    ASSUME NEW b, Written(b), NEW t \in Triples,
           NEW f, f \in Seq(Byte), NEW c \in Nat, c + Len(t.diff) <= Len(f),
           NEW o, NEW n, Len(o) \in Nat, n \in Nat, Len(o) < n,
           Reconstructs(b, f, o, c, n)
    PROVE  /\ Written(Append(b, t))
           /\ Reconstructs(Append(b, t), f, o \o Patched(f, c, t.diff) \o t.extra,
                           c + Len(t.diff) + t.seek, n)
<1> DEFINE e == Append(b, t)
           u == TripleBytes(t)
           m == Len(b)
<1>1. Written(e) /\ Len(e) = m + 1 /\ IsTriple(t) /\ Len(t.diff) \in Nat
  <2>1. <<>> \in Seq(Byte)
    BY EmptySeq
  <2> QED
    BY <2>1, MarkedMore
<1> DEFINE x == o \o Patched(f, c, t.diff) \o t.extra
           y == c + Len(t.diff) + t.seek
<1>2. ASSUME NEW base, NEW tail, tail \in Seq(Byte), NEW a, Extends(base, f),
             SegmentRun(a, base, n, Marked(e) \o tail)
      PROVE  a[m + 1] = [rest |-> tail, img |-> x, at |-> y]
  <2> DEFINE v == u \o tail
             w == Marked(b) \o v
  <2>1. v \in Seq(Byte) /\ Marked(e) \o tail = w
    <3>1. tail \in Seq(Byte)
      BY <1>2
    <3> HIDE DEF e, u, v, w, x, y, m
    <3>2. /\ TripleBytes(t) \o tail \in Seq(Byte)
          /\ Marked(Append(b, t)) \o tail = Marked(b) \o (TripleBytes(t) \o tail)
      BY <3>1, MarkedMore, ZenonT(60)
    <3> QED
      BY <3>2 DEF e, u, v, w
  <2>2. TripleStep(base, [rest |-> v, img |-> o, at |-> c]) = [rest |-> tail, at |-> y, img |-> x]
    <3>1. Patched(base, c, t.diff) = Patched(f, c, t.diff)
      BY <1>1, <1>2, PatchedSame
    <3>2. IsTriple(t) /\ tail \in Seq(Byte)
      BY <1>1, <1>2
    <3>3. ReadsBack(t, tail, base, o, c)
      BY <3>2, TripleReads
    <3> QED
      BY <3>1, <3>3 DEF ReadsBack
  <2> HIDE DEF e, u, v, x, y
  <2>3. m \in 0..Len(w) - 1
    <3> DEFINE q == Marked(b)
    <3>1. q \in Seq(Byte) /\ Len(q) \in Nat /\ m \in Nat /\ Len(q) >= m + 1
      BY MarkedIsBytes
    <3> HIDE DEF q, m
    <3>2. Len(q \o v) = Len(q) + Len(v)
      BY <2>1, <3>1, Joined
    <3>3. Len(v) \in Nat
      BY <2>1, LenProperties
    <3> QED
      BY <3>1, <3>2, <3>3 DEF q
  <2>4. SegmentRun(a, base, n, w)
    BY <1>2, <2>1
  <2>5. a[m] = [rest |-> v, img |-> o, at |-> c]
    BY <1>2, <2>1, <2>4 DEF Reconstructs
  <2> HIDE DEF w, m
  <2>6. a[m + 1] = IF Len(a[m].img) >= n THEN a[m] ELSE TripleStep(base, a[m])
    BY <2>3, <2>4 DEF SegmentRun
  <2>7. ~(Len(a[m].img) >= n)
    BY <2>5
  <2>8. a[m + 1] = TripleStep(base, [rest |-> v, img |-> o, at |-> c])
    BY <2>5, <2>6, <2>7
  <2> QED
    BY <2>2, <2>8
<1> HIDE DEF e, x, y
<1>3. Reconstructs(e, f, x, y, n)
  BY <1>1, <1>2 DEF Reconstructs
<1> QED
  BY <1>1, <1>3 DEF e, x, y

\* A segment that is decoded completely is left there.
LEMMA SegmentDecodes ==
    ASSUME NEW b, Written(b), NEW f, NEW c, NEW o, Len(o) \in Nat, Reconstructs(b, f, o, c, Len(o)),
           NEW base, Extends(base, f), NEW tail, tail \in Seq(Byte)
    PROVE  Segment(base, Len(o), Marked(b) \o tail) = [rest |-> tail, img |-> o, at |-> c]
<1> DEFINE w == Marked(b) \o tail
           n == Len(o)
           i == Len(b)
<1>1. Len(w) \in Nat /\ i \in 0..Len(w)
  <2> DEFINE x == Marked(b)
  <2>1. x \in Seq(Byte) /\ Len(x) \in Nat /\ i \in Nat /\ Len(x) >= i + 1
    BY MarkedIsBytes
  <2> HIDE DEF x, i
  <2>2. Len(x \o tail) = Len(x) + Len(tail)
    BY <2>1, Joined
  <2>3. Len(tail) \in Nat
    BY LenProperties
  <2> QED
    BY <2>1, <2>2, <2>3 DEF x
<1> HIDE DEF w, n, i
<1>2. PICK a : Segment(base, n, w) = a[Len(w)] /\ SegmentRun(a, base, n, w)
  BY <1>1, SegmentRuns
<1>3. a[i] = [rest |-> tail, img |-> o, at |-> c]
  BY <1>2 DEF Reconstructs, w, n, i
<1>4. Len(a[i].img) >= n
  BY <1>3 DEF n
<1>5. a[Len(w)] = a[i]
  BY <1>1, <1>2, <1>4, SegmentStays
<1>6. Segment(base, n, w) = [rest |-> tail, img |-> o, at |-> c]
  BY <1>2, <1>3, <1>5
<1> QED
  BY <1>6 DEF n, w

\* bsdiff's initial state has emitted nothing.
LEMMA BodyInit == BsdiffInit => BodyInv
BY NothingReconstructs, Zenon DEF BsdiffInit, BodyInv

\* Every step of bsdiff keeps its triples decodable as bytes.
LEMMA BodyStep == BsdiffInv /\ BodyInv /\ [BsdiffNext]_bsdiffVars => BodyInv'
<1> SUFFICES ASSUME BsdiffInv, BodyInv, [BsdiffNext]_bsdiffVars PROVE BodyInv'
  OBVIOUS
<1>0. /\ from \in Seq(Byte) /\ to \in Seq(Byte) /\ Len(to) \in Nat /\ Len(from) \in Nat
      /\ scan \in Nat /\ lastscan \in Nat /\ lastscan <= scan /\ scan <= Len(to) /\ lastpos \in 0..Len(from)
      /\ pos \in Nat
      /\ out = Slice(to, 0, lastscan) /\ cursor = lastpos
  BY LenProperties DEF BsdiffInv, BsdiffTypeOK, DecoderInStep, IndicesInBounds
<1>1. CASE Call
  <2>1. pc' = "outer" /\ body' = <<>> /\ out' = <<>> /\ cursor' = 0
    BY <1>1 DEF Call, Start
  <2> QED
    BY <2>1, NothingReconstructs DEF BodyInv
<1>2. CASE Outer
  <2>1. UNCHANGED <<from, to, lastscan, body, out, cursor>> /\ (pc' = "inner" => scan < Len(to)) /\ pc' # "emit"
    BY <1>2 DEF Outer, args, last, decoder
  <2>2. pc' \in {"inner", "emit"} => lastscan' < Len(to')
    BY <1>0, <2>1
  <2> QED
    BY <2>1, <2>2 DEF BodyInv
<1>3. CASE Offer
  <2>1. PICK p \in 0..Len(from) : \E l \in 0..Least(Len(from) - p, Len(to) - scan) : Scan(l, p)
    BY <1>3 DEF Offer
  <2>2. pc = "inner" /\ UNCHANGED <<from, to, lastscan, body, out, cursor>>
    BY <2>1 DEF Scan, args, last, decoder
  <2> QED
    BY <2>2 DEF BodyInv
<1>4. CASE ScanEnd \/ Continue
  <2>1. UNCHANGED <<from, to, lastscan, body, out, cursor>> /\ pc \in {"inner", "emit"}
    BY <1>4 DEF ScanEnd, Continue, args, last, decoder
  <2> QED
    BY <2>1 DEF BodyInv
<1>5. CASE Emit
  <2>1. PICK lenf \in Nat, lenb \in Nat :
          /\ lenb <= pos /\ lenb <= scan - lastscan
          /\ lastscan + lenf <= scan - lenb /\ lenf <= Len(from) - lastpos
          /\ scan = Len(to) => lenb = 0
          /\ EmitTriple(lenf, lenb)
    BY <1>5, EmitSplits
  <2> DEFINE t == Triple(lenf, lenb)
             i == lastscan + lenf
             j == scan - lenb
  <2>2. /\ pc = "emit" /\ pc' = "outer" /\ UNCHANGED <<from, to>>
        /\ body' = Append(body, t) /\ Decode(t)
    BY <1>5, <2>1 DEF Emit, EmitTriple, args
  <2>3. i \in Nat /\ j \in Nat /\ i <= j /\ j <= Len(to) /\ lastpos + lenf <= Len(from) /\ lastscan + lenf <= Len(to)
    BY <1>0, <2>1
  <2>4. t = [diff |-> Difference(to, lastscan, from, lastpos, lenf), extra |-> Slice(to, i, j),
             seek |-> Seek(lenf, lenb)]
    BY DEF Triple
  <2>5. /\ Difference(to, lastscan, from, lastpos, lenf) \in Seq(Byte)
        /\ Len(Difference(to, lastscan, from, lastpos, lenf)) = lenf
    BY <1>0, <2>1, <2>3, DiffDecodes
  <2>6. Slice(to, i, j) \in Seq(Byte)
    <3> HIDE DEF i, j
    <3> QED
      BY <1>0, <2>3, SliceProperties
  <2>7. Seek(lenf, lenb) \in Int
    BY <1>0, <2>1 DEF Seek
  <2>8. t \in Triples /\ Len(t.diff) = lenf
    BY <2>4, <2>5, <2>6, <2>7 DEF Triples
  <2> HIDE DEF t, i, j
  <2>9. Len(out) = lastscan /\ lastscan < Len(to)
    <3>0. 0 \in Nat /\ 0 <= lastscan /\ lastscan <= Len(to)
      BY <1>0
    <3>1. Len(Slice(to, 0, lastscan)) = lastscan - 0
      BY <1>0, <3>0, SliceProperties
    <3> QED
      BY <1>0, <2>2, <3>1 DEF BodyInv
  <2>10. /\ Written(Append(body, t))
         /\ Reconstructs(Append(body, t), from, out \o Patched(from, cursor, t.diff) \o t.extra,
                         cursor + Len(t.diff) + t.seek, Len(to))
    <3>1. cursor \in Nat /\ cursor + Len(t.diff) <= Len(from) /\ Len(out) \in Nat /\ Len(out) < Len(to)
      BY <1>0, <2>3, <2>8, <2>9
    <3>2. Written(body) /\ Reconstructs(body, from, out, cursor, Len(to))
      BY DEF BodyInv
    <3> QED
      BY <1>0, <2>8, <3>1, <3>2, MoreReconstructs
  <2>11. /\ out' = out \o Patched(from, cursor, t.diff) \o t.extra
         /\ cursor' = cursor + Len(t.diff) + t.seek
    BY <2>2 DEF Decode
  <2> QED
    BY <2>2, <2>10, <2>11 DEF BodyInv
<1>6. CASE UNCHANGED bsdiffVars
  BY <1>6 DEF bsdiffVars, args, last, decoder, BodyInv
<1> QED
  BY <1>1, <1>2, <1>3, <1>4, <1>5, <1>6 DEF BsdiffNext

----------------------------------------------------------------------------
(* The geometry of the segments.                                           *)

\* What a slice holds, also where it is empty.
LEMMA SliceParts ==
    ASSUME NEW s \in Seq(Byte), NEW i \in Nat, NEW j \in Int, j <= Len(s)
    PROVE  /\ Slice(s, i, j) \in Seq(Byte)
           /\ Len(Slice(s, i, j)) = IF i < j THEN j - i ELSE 0
           /\ \A n \in 1..j - i : Slice(s, i, j)[n] = s[i + n]
<1>1. CASE i <= j
  <2>1. j \in Nat
    BY <1>1
  <2>2. /\ Slice(s, i, j) \in Seq(Byte) /\ Len(Slice(s, i, j)) = j - i
        /\ \A n \in 1..j - i : Slice(s, i, j)[n] = s[i + n]
    BY <1>1, <2>1, SliceProperties
  <2>3. ~(i < j) => j - i = 0
    BY <1>1
  <2> QED
    BY <2>2, <2>3
<1>2. CASE ~(i <= j)
  <2>1. Slice(s, i, j) = <<>>
    BY <1>2, SubSeqEmpty DEF Slice
  <2>2. 1..j - i = {}
    BY <1>2
  <2>3. ~(i < j)
    BY <1>2
  <2> QED
    BY <2>1, <2>2, <2>3, EmptySeq
<1> QED
  BY <1>1, <1>2

\* A slice that ends earlier is the beginning of one that goes to the end.
LEMMA SliceExtends ==
    ASSUME NEW s \in Seq(Byte), NEW i \in Nat, NEW j \in Int, j <= Len(s)
    PROVE  Extends(Slice(s, i, Len(s)), Slice(s, i, j))
<1> DEFINE z == Len(s)
           b == Slice(s, i, z)
           f == Slice(s, i, j)
<1>1. z \in Nat /\ z \in Int /\ z <= z /\ j <= z
  BY LenProperties
<1>2. /\ b \in Seq(Byte) /\ Len(b) = IF i < z THEN z - i ELSE 0
      /\ \A n \in 1..z - i : b[n] = s[i + n]
  BY <1>1, SliceParts
<1>3. /\ Len(f) = IF i < j THEN j - i ELSE 0
      /\ \A n \in 1..j - i : f[n] = s[i + n]
  BY SliceParts
<1> HIDE DEF z, b, f
<1>4. Len(f) <= Len(b)
  BY <1>1, <1>2, <1>3
<1>5. ASSUME NEW n \in 1..Len(f) PROVE b[n] = f[n]
  <2>1. n \in 1..j - i /\ n \in 1..z - i
    BY <1>1, <1>3
  <2> QED
    BY <1>2, <1>3, <2>1
<1>6. Extends(b, f)
  BY <1>2, <1>4, <1>5 DEF Extends
<1> QED
  BY <1>6 DEF b, f, z

\* The segments cover the image, and none is empty.
LEMMA CeilingCovers ==
    ASSUME NEW n \in Nat, NEW d \in Nat, d >= 1
    PROVE  /\ Ceiling(n, d) \in Nat /\ n <= Ceiling(n, d) * d
           /\ \A s \in 0..Ceiling(n, d) - 1 : s * d < n
<1> DEFINE e == n + (d - 1)
           q == e \div d
           r == e % d
<1>1. e \in Nat
  OBVIOUS
<1>2. q \in Nat /\ r \in 0..d - 1 /\ e = d * q + r
  BY <1>1, Division
<1>3. Ceiling(n, d) = q
  BY DEF Ceiling
<1> HIDE DEF q, r
<1>4. n <= q * d
  BY <1>2
<1>5. ASSUME NEW s \in 0..q - 1 PROVE s * d < n
  <2>1. s \in Nat /\ q - 1 \in Nat /\ s <= q - 1
    BY <1>2
  <2>2. s * d <= (q - 1) * d
    BY <2>1
  <2>3. (q - 1) * d = q * d - d
    BY <1>2
  <2> QED
    BY <1>2, <2>1, <2>2, <2>3
<1> QED
  BY <1>2, <1>3, <1>4, <1>5

\* The arguments of an encoder of patches in place.
LEMMA Arguments ==
    ASSUME NEW r \in Requests
    PROVE  /\ r.from \in Seq(Byte) /\ r.to \in Seq(Byte) /\ Len(r.from) \in Nat /\ Len(r.to) \in Nat
           /\ r.type \in {"sequential", "in-place"}
           /\ InPlaceType(r) => r.seg \in Nat /\ r.seg >= 1 /\ r.mem \in Nat /\ CalcShift(r) \in Int
<1>1. r.from \in Seq(Byte) /\ r.to \in Seq(Byte) /\ r.type \in {"sequential", "in-place"}
  BY DeltaAssumption
<1>2. Len(r.from) \in Nat /\ Len(r.to) \in Nat
  BY <1>1, LenProperties
<1>3. InPlaceType(r) => r.seg \in Nat /\ r.seg >= 1 /\ r.mem \in Nat
  BY DeltaAssumption DEF InPlaceType
<1>4. InPlaceType(r) => CalcShift(r) \in Int
  <2> SUFFICES ASSUME InPlaceType(r) PROVE CalcShift(r) \in Int
    OBVIOUS
  <2>1. Ceiling(r.mem, r.seg) \in Int /\ Ceiling(Len(r.from), r.seg) \in Int
    BY <1>2, <1>3 DEF Ceiling
  <2>2. Ceiling(r.mem, r.seg) - Ceiling(Len(r.from), r.seg) \in Int
    BY <2>1
  <2> QED
    BY <1>3, <2>2 DEF CalcShift, Greatest
<1> QED
  BY <1>1, <1>2, <1>3, <1>4

\* A segment of a patch in place takes up where the last one ended, and the
\* base the decoder has left begins with the one that was diffed.
LEMMA SegmentFits ==
    ASSUME NEW r \in Requests, InPlaceType(r), NEW s \in Nat, s < SegmentCount(r),
           NEW base, base = Slice(r.from, Greatest((s + 1) * r.seg - CalcShift(r), 0), Len(r.from))
    PROVE  /\ s * r.seg \in Nat /\ s * r.seg < Len(r.to)
           /\ Least(s * r.seg, Len(r.to)) = s * r.seg
           /\ Len(SegmentTo(r, s)) = Least(r.seg, Len(r.to) - s * r.seg)
           /\ Len(Slice(r.to, 0, s * r.seg)) = s * r.seg
           /\ Slice(r.to, 0, s * r.seg) \o SegmentTo(r, s) = Slice(r.to, 0, Least((s + 1) * r.seg, Len(r.to)))
           /\ Extends(base, SegmentFrom(r, s))
<1> DEFINE g == r.seg
           z == Len(r.to)
           i == s * g
           j == Least((s + 1) * g, z)
<1>1. /\ r.from \in Seq(Byte) /\ r.to \in Seq(Byte) /\ Len(r.from) \in Nat /\ z \in Nat
      /\ g \in Nat /\ g >= 1 /\ r.mem \in Nat /\ CalcShift(r) \in Int
  BY Arguments
<1>2. i < z
  <2>1. s \in 0..Ceiling(z, g) - 1
    <3>1. SegmentCount(r) = Ceiling(z, g)
      BY DEF SegmentCount
    <3>2. Ceiling(z, g) \in Nat
      BY <1>1, CeilingCovers
    <3> QED
      BY <3>1, <3>2
  <2> QED
    BY <1>1, <2>1, CeilingCovers
<1>3. i \in Nat /\ (s + 1) * g = i + g
  <2> HIDE DEF g
  <2> QED
    BY <1>1
<1>4. j \in Nat /\ i <= j /\ j <= z /\ j - i = Least(g, z - i)
  <2> DEFINE m == (s + 1) * g
  <2>1. m = i + g
    BY <1>3
  <2> HIDE DEF g, z, i, m
  <2> QED
    BY <1>1, <1>2, <1>3, <2>1 DEF Least
<1>5. SegmentTo(r, s) = Slice(r.to, i, j)
  BY DEF SegmentTo
<1>6. Least(i, z) = i
  BY <1>2, <1>3 DEF Least
<1> HIDE DEF i, j
<1>7. Len(Slice(r.to, i, j)) = j - i /\ Len(Slice(r.to, 0, i)) = i
  <2>1. 0 \in Nat /\ 0 <= i /\ i <= z /\ i - 0 = i
    BY <1>1, <1>2, <1>3
  <2> QED
    BY <1>1, <1>3, <1>4, <2>1, SliceProperties
<1>8. Slice(r.to, 0, i) \o Slice(r.to, i, j) = Slice(r.to, 0, j)
  <2>1. 0 \in Nat /\ 0 <= i /\ r.to \in Seq(Byte) /\ j <= Len(r.to)
    BY <1>1, <1>3, <1>4
  <2> HIDE DEF g, z
  <2> QED
    BY <1>3, <1>4, <2>1, SlicesJoin
<1>9. Extends(base, SegmentFrom(r, s))
  <2> DEFINE o == FromOffset(r, s)
             e == Least(Len(r.from), r.mem - CalcShift(r))
  <2>1. base = Slice(r.from, o, Len(r.from)) /\ SegmentFrom(r, s) = Slice(r.from, o, e)
    BY DEF FromOffset, SegmentFrom
  <2>2. o \in Nat
    <3>1. (s + 1) * g - CalcShift(r) \in Int
      BY <1>1, <1>3
    <3> QED
      BY <3>1 DEF FromOffset, Greatest
  <2>3. e \in Int /\ e <= Len(r.from)
    BY <1>1 DEF Least
  <2> HIDE DEF o, e
  <2> QED
    BY <1>1, <2>1, <2>2, <2>3, SliceExtends
<1> QED
  BY <1>2, <1>3, <1>4, <1>5, <1>6, <1>7, <1>8, <1>9 DEF i, j

----------------------------------------------------------------------------
(* The header.                                                             *)

\* The elements of a patch
Word == Byte \cup {"sequential", "in-place"}

\* Elements are joined in any order.
LEMMA RegroupWords ==
    ASSUME NEW a \in Seq(Word), NEW b \in Seq(Word), NEW c \in Seq(Word)
    PROVE  (a \o b) \o c = a \o (b \o c) /\ a \o b \in Seq(Word)
BY ConcatAssociative, ConcatProperties

\* Bytes are elements of a patch, and so are the sizes in it.
LEMMA BytesAreWords ==
    ASSUME NEW s \in Seq(Byte)
    PROVE  s \in Seq(Word)
<1>1. Byte \subseteq Word
  BY DEF Word
<1> QED
  BY <1>1, SeqMonotonic

\* A size is bytes.
LEMMA SizesAreWords ==
    ASSUME NEW v \in Int
    PROVE  PackSize(v) \in Seq(Byte) /\ PackSize(v) \in Seq(Word)
<1>1. <<>> \in Seq(Byte)
  BY EmptySeq
<1>2. PackSize(v) \in Seq(Byte)
  BY <1>1, UnpacksBack
<1> QED
  BY <1>2, BytesAreWords

\* What Apply does with a patch of each type
AppliesOne(r, base, z) ==
    Apply(base, Header(r) \o z) = Segment(base, Len(r.to), CrleExpand(z)).img
AppliesAll(r, base, z) ==
    Apply(base, Header(r) \o z) = Segments(base, r.seg, CalcShift(r), Len(r.to), CrleExpand(z))

\* The header of a sequential patch is read back.
LEMMA OneApplies ==
    ASSUME NEW r \in Requests, ~InPlaceType(r), NEW base, NEW z \in Seq(Byte)
    PROVE  AppliesOne(r, base, z)
<1> DEFINE n == Len(r.to)
           p == PackSize(n)
           x == r.type
           q == p \o z
<1>1. n \in Nat /\ n \in Int /\ x \in Word /\ x # "in-place"
  BY Arguments DEF InPlaceType, Word
<1>2. p \in Seq(Byte) /\ p \in Seq(Word) /\ z \in Seq(Word)
  BY <1>1, SizesAreWords, BytesAreWords
<1>3. UnpackSize(q) = [value |-> n, rest |-> z]
  BY <1>1, UnpacksBack
<1>4. Header(r) = <<x>> \o p
  BY DEF Header
<1> HIDE DEF n, p, x
<1>5. q \in Seq(Byte) /\ q \in Seq(Word)
  BY <1>2, Joined, BytesAreWords
<1>6. (<<x>> \o p) \o z = <<x>> \o q
  <2>1. <<x>> \in Seq(Word)
    BY <1>1
  <2> QED
    BY <1>2, <2>1, RegroupWords
<1> HIDE DEF q
<1>7. Head(<<x>> \o q) = x /\ Tail(<<x>> \o q) = q
  BY <1>1, <1>5, Led
<1> DEFINE y == Header(r) \o z
<1>8. Head(y) # "in-place" /\ Tail(y) = q
  BY <1>1, <1>4, <1>6, <1>7
<1> HIDE DEF y
<1>9. Apply(base, y) = ApplySequential(base, q)
  BY <1>8 DEF Apply
<1> DEFINE u == [value |-> n, rest |-> z]
<1>10. u.value = n /\ u.rest = z
  OBVIOUS
<1> HIDE DEF u
<1>11. UnpackSize(q) = u
  BY <1>3 DEF u
<1>12. ApplySequential(base, q) = Segment(base, n, CrleExpand(z)).img
  BY <1>10, <1>11 DEF ApplySequential
<1> QED
  BY <1>9, <1>12 DEF AppliesOne, y, n

\* p is the size v and q behind it, also when a stands in front
SizeBefore(a, v, q, p) ==
    /\ p \in Seq(Byte)
    /\ (a \o PackSize(v)) \o q = a \o p
    /\ UnpackSize(p).value = v /\ UnpackSize(p).rest = q

\* A size is joined in front of the rest of a header, and read off it again.
LEMMA SizeReads ==
    ASSUME NEW v \in Int, NEW a \in Seq(Word), NEW q \in Seq(Byte)
    PROVE  SizeBefore(a, v, q, PackSize(v) \o q)
<1> DEFINE p == PackSize(v) \o q
<1> DEFINE b == PackSize(v)
<1>1. b \in Seq(Byte) /\ b \in Seq(Word) /\ q \in Seq(Word)
  BY SizesAreWords, BytesAreWords
<1>2. UnpackSize(p) = [value |-> v, rest |-> q]
  BY UnpacksBack
<1> HIDE DEF b, p
<1>3. p \in Seq(Byte)
  <2>1. b \o q \in Seq(Byte)
    BY <1>1, Joined
  <2> QED
    BY <2>1 DEF b, p
<1>4. a \o b \in Seq(Word) /\ (a \o b) \o q = a \o (b \o q)
  BY <1>1, RegroupWords
<1>5. UnpackSize(p).value = v /\ UnpackSize(p).rest = q
  BY <1>2
<1> QED
  BY <1>3, <1>4, <1>5 DEF b, p, SizeBefore

\* The header of a patch in place is read back.
LEMMA AllApplies ==
    ASSUME NEW r \in Requests, InPlaceType(r), NEW base, NEW z \in Seq(Byte)
    PROVE  AppliesAll(r, base, z)
<1> DEFINE n == Len(r.to)
           m == Len(r.from)
           c == CalcShift(r)
           x == <<r.type>>
           a1 == x \o PackSize(r.mem)
           a2 == a1 \o PackSize(r.seg)
           a3 == a2 \o PackSize(c)
           a4 == a3 \o PackSize(m)
           q5 == PackSize(n) \o z
           q4 == PackSize(m) \o q5
           q3 == PackSize(c) \o q4
           q2 == PackSize(r.seg) \o q3
           q1 == PackSize(r.mem) \o q2
<1>1. /\ n \in Int /\ m \in Int /\ c \in Int /\ r.seg \in Int /\ r.mem \in Int
      /\ r.type \in Word /\ r.type = "in-place"
  BY Arguments DEF InPlaceType, Word
<1>2. x \in Seq(Word)
  BY <1>1
<1>3. Header(r) = a4 \o PackSize(n)
  BY DEF Header
<1> HIDE DEF n, m, c, x
<1>4. a1 \in Seq(Word)
  BY <1>1, <1>2, SizesAreWords, RegroupWords
<1> HIDE DEF a1
<1>5. a2 \in Seq(Word)
  BY <1>1, <1>4, SizesAreWords, RegroupWords
<1> HIDE DEF a2
<1>6. a3 \in Seq(Word)
  BY <1>1, <1>5, SizesAreWords, RegroupWords
<1> HIDE DEF a3
<1>7. a4 \in Seq(Word)
  BY <1>1, <1>6, SizesAreWords, RegroupWords
<1> HIDE DEF a4, q1, q2, q3, q4, q5
<1>8. q5 \in Seq(Byte) /\ (a4 \o PackSize(n)) \o z = a4 \o q5 /\ UnpackSize(q5).value = n /\ UnpackSize(q5).rest = z
  <2>1. SizeBefore(a4, n, z, q5)
    BY <1>1, <1>7, SizeReads DEF q5
  <2> QED
    BY <2>1 DEF SizeBefore
<1>9. q4 \in Seq(Byte) /\ (a3 \o PackSize(m)) \o q5 = a3 \o q4 /\ UnpackSize(q4).value = m /\ UnpackSize(q4).rest = q5
  <2>1. SizeBefore(a3, m, q5, q4)
    BY <1>1, <1>6, <1>8, SizeReads DEF q4
  <2> QED
    BY <2>1 DEF SizeBefore
<1>10. q3 \in Seq(Byte) /\ (a2 \o PackSize(c)) \o q4 = a2 \o q3 /\ UnpackSize(q3).value = c /\ UnpackSize(q3).rest = q4
  <2>1. SizeBefore(a2, c, q4, q3)
    BY <1>1, <1>5, <1>9, SizeReads DEF q3
  <2> QED
    BY <2>1 DEF SizeBefore
<1>11. q2 \in Seq(Byte) /\ (a1 \o PackSize(r.seg)) \o q3 = a1 \o q2 /\ UnpackSize(q2).value = r.seg /\ UnpackSize(q2).rest = q3
  <2>1. SizeBefore(a1, r.seg, q3, q2)
    BY <1>1, <1>4, <1>10, SizeReads DEF q2
  <2> QED
    BY <2>1 DEF SizeBefore
<1>12. q1 \in Seq(Byte) /\ (x \o PackSize(r.mem)) \o q2 = x \o q1 /\ UnpackSize(q1).value = r.mem /\ UnpackSize(q1).rest = q2
  <2>1. SizeBefore(x, r.mem, q2, q1)
    BY <1>1, <1>2, <1>11, SizeReads DEF q1
  <2> QED
    BY <2>1 DEF SizeBefore
<1> DEFINE y == Header(r) \o z
<1>13. y = <<r.type>> \o q1
  BY <1>3, <1>8, <1>9, <1>10, <1>11, <1>12 DEF x, a1, a2, a3, a4
<1>14. q1 \in Seq(Word)
  BY <1>12, BytesAreWords
<1>15. Head(<<r.type>> \o q1) = r.type /\ Tail(<<r.type>> \o q1) = q1
  BY <1>1, <1>14, Led
<1> HIDE DEF y
<1>16. Head(y) = "in-place" /\ Tail(y) = q1
  BY <1>1, <1>13, <1>15
<1>17. Apply(base, y) = ApplyInPlace(base, q1)
  BY <1>16 DEF Apply
<1>18. ApplyInPlace(base, q1) = Segments(base, r.seg, c, n, CrleExpand(z))
  BY <1>8, <1>9, <1>10, <1>11, <1>12 DEF ApplyInPlace
<1> QED
  BY <1>17, <1>18 DEF AppliesAll, y, n, c

\* A header is elements of a patch.
LEMMA HeaderIsWords ==
    ASSUME NEW r \in Requests, InPlaceType(r)
    PROVE  Header(r) \in Seq(Word)
<1> DEFINE x == <<r.type>>
           a1 == x \o PackSize(r.mem)
           a2 == a1 \o PackSize(r.seg)
           a3 == a2 \o PackSize(CalcShift(r))
           a4 == a3 \o PackSize(Len(r.from))
           a5 == a4 \o PackSize(Len(r.to))
<1>1. /\ Len(r.to) \in Int /\ Len(r.from) \in Int /\ CalcShift(r) \in Int
      /\ r.seg \in Int /\ r.mem \in Int /\ r.type \in Word
  BY Arguments DEF Word
<1>2. x \in Seq(Word)
  BY <1>1
<1> HIDE DEF x
<1>3. a1 \in Seq(Word)
  BY <1>1, <1>2, SizesAreWords, RegroupWords
<1> HIDE DEF a1
<1>4. a2 \in Seq(Word)
  BY <1>1, <1>3, SizesAreWords, RegroupWords
<1> HIDE DEF a2
<1>5. a3 \in Seq(Word)
  BY <1>1, <1>4, SizesAreWords, RegroupWords
<1> HIDE DEF a3
<1>6. a4 \in Seq(Word)
  BY <1>1, <1>5, SizesAreWords, RegroupWords
<1> HIDE DEF a4
<1>7. a5 \in Seq(Word)
  BY <1>1, <1>6, SizesAreWords, RegroupWords
<1> QED
  BY <1>7 DEF Header, x, a1, a2, a3, a4

----------------------------------------------------------------------------
(* All the segments of a patch in place.                                   *)

\* The recursion of Segments
SegmentsAt(a, base, seg, shift, size, bytes, s) ==
    IF s = 0 THEN [rest |-> bytes, img |-> <<>>] ELSE SegmentStep(base, seg, shift, size, s, a[s - 1])

\* The recursion of Segments has a solution.
LEMMA SegmentsExist ==
    ASSUME NEW base, NEW seg, NEW shift, NEW size, NEW bytes, NEW z \in Nat
    PROVE  \E a : a = [s \in 0..z |-> SegmentsAt(a, base, seg, shift, size, bytes, s)]
<1> DEFINE At2(a, s) == SegmentsAt(a, base, seg, shift, size, bytes, s)
           Solves(a, m) == \A s \in 0..m : a[s] = At2(a, s)
           P == {m \in Nat : \E a : Solves(a, m)}
<1>a. \A a, b, s : (s # 0 => a[s - 1] = b[s - 1]) => At2(a, s) = At2(b, s)
  BY DEF SegmentsAt
<1>b. \A a : At2(a, 0) = [rest |-> bytes, img |-> <<>>]
  BY DEF SegmentsAt
<1> HIDE DEF At2
<1>1. 0 \in P
  <2> DEFINE h == [s \in 0..0 |-> [rest |-> bytes, img |-> <<>>]]
  <2>1. \A s \in 0..0 : s = 0 /\ h[s] = [rest |-> bytes, img |-> <<>>]
    OBVIOUS
  <2> HIDE DEF h
  <2>2. Solves(h, 0)
    BY <1>b, <2>1
  <2> HIDE DEF Solves
  <2>3. \E a : Solves(a, 0)
    BY <2>2
  <2> QED
    BY <2>3
<1>2. ASSUME NEW m \in Nat, m \in P PROVE m + 1 \in P
  <2>1. PICK a : Solves(a, m)
    BY <1>2
  <2> DEFINE h == [s \in 0..m + 1 |-> IF s = m + 1 THEN At2(a, s) ELSE a[s]]
  <2>2. ASSUME NEW s \in 0..m + 1 PROVE h[s] = At2(h, s)
    <3>1. h[s] = At2(a, s)
      <4>1. s = m + 1 \/ s \in 0..m
        OBVIOUS
      <4> QED
        BY <2>1, <4>1
    <3>2. s # 0 => h[s - 1] = a[s - 1]
      <4>1. s # 0 => s - 1 \in 0..m + 1 /\ s - 1 # m + 1
        OBVIOUS
      <4> QED
        BY <4>1
    <3> HIDE DEF h
    <3> QED
      BY <1>a, <3>1, <3>2
  <2>3. Solves(h, m + 1)
    BY <2>2
  <2> HIDE DEF h, Solves
  <2>4. \E g : Solves(g, m + 1)
    BY <2>3
  <2> QED
    BY <2>4
<1>3. z \in P
  <2> HIDE DEF P
  <2> QED BY <1>1, <1>2, SetInduction
<1>4. PICK g : Solves(g, z)
  BY <1>3
<1> DEFINE f == [s \in 0..z |-> g[s]]
<1>5. ASSUME NEW s \in 0..z PROVE f[s] = At2(f, s)
  <2>1. g[s] = At2(g, s) /\ f[s] = g[s]
    BY <1>4
  <2>2. s # 0 => f[s - 1] = g[s - 1]
    <3>1. s # 0 => s - 1 \in 0..z
      OBVIOUS
    <3> QED
      BY <3>1
  <2> HIDE DEF f
  <2> QED
    BY <1>a, <2>1, <2>2
<1>6. f = [s \in 0..z |-> At2(f, s)]
  <2>1. f = [s \in 0..z |-> f[s]]
    OBVIOUS
  <2> HIDE DEF f
  <2> QED
    BY <1>5, <2>1
<1> QED
  BY <1>6 DEF At2

\* a is the run of Segments on bytes
SegmentsRun(a, base, seg, shift, size, bytes) ==
    /\ a[0] = [rest |-> bytes, img |-> <<>>]
    /\ \A s \in 0..Ceiling(size, seg) - 1 :
         a[s + 1] = SegmentStep(base, seg, shift, size, s + 1, a[s])

\* Segments yields what its run ends with.
LEMMA SegmentsRuns ==
    ASSUME NEW base, NEW seg, NEW shift, NEW size, NEW bytes, Ceiling(size, seg) \in Nat
    PROVE  \E a : /\ Segments(base, seg, shift, size, bytes) = a[Ceiling(size, seg)].img
                  /\ SegmentsRun(a, base, seg, shift, size, bytes)
<1> DEFINE z == Ceiling(size, seg)
           f == CHOOSE g : g = [s \in 0..z |-> SegmentsAt(g, base, seg, shift, size, bytes, s)]
<1>1. f = [s \in 0..z |-> SegmentsAt(f, base, seg, shift, size, bytes, s)]
  BY SegmentsExist
<1>2. Segments(base, seg, shift, size, bytes) = f[z].img
  BY DEF Segments, SegmentsAt
<1> HIDE DEF f, z
<1>3. \A s \in 0..z : f[s] = SegmentsAt(f, base, seg, shift, size, bytes, s)
  BY <1>1
<1>z. z \in Nat
  BY DEF z
<1>4. f[0] = [rest |-> bytes, img |-> <<>>]
  BY <1>3, <1>z DEF SegmentsAt
<1>5. ASSUME NEW s \in 0..z - 1
      PROVE  f[s + 1] = SegmentStep(base, seg, shift, size, s + 1, f[s])
  <2>1. s + 1 \in 0..z /\ s + 1 # 0 /\ (s + 1) - 1 = s
    BY <1>z
  <2> QED
    BY <1>3, <2>1 DEF SegmentsAt
<1>6. SegmentsRun(f, base, seg, shift, size, bytes)
  BY <1>4, <1>5 DEF SegmentsRun, z
<1> QED
  BY <1>2, <1>6 DEF z

----------------------------------------------------------------------------
(* The bytes to compress.                                                  *)

\* Whatever follows b, the segments of r up to s are what it is decoded to
Streamed(r, s, b) ==
    IF InPlaceType(r)
      THEN \A a, tail :
             /\ tail \in Seq(Byte)
             /\ SegmentsRun(a, r.from, r.seg, CalcShift(r), Len(r.to), b \o tail)
             => a[s] = [rest |-> tail, img |-> Slice(r.to, 0, Least(s * r.seg, Len(r.to)))]
      ELSE /\ s = 0 => b = <<>>
           /\ s = 1 => Segment(r.from, Len(r.to), b).img = r.to

\* What PatchDecodes needs to be inductive
StreamInv ==
    /\ DeltaInv /\ BodyInv
    /\ segment <= SegmentCount(req)
    /\ phase \in {"sort", "diff"} =>
         segment < SegmentCount(req) /\ from = SegmentFrom(req, segment) /\ to = SegmentTo(req, segment)
    /\ stream \in Seq(Byte) /\ (segment # 0 => stream # <<>>)
    /\ Streamed(req, segment, stream)
    /\ PatchDecodes

\* The number of segments, and that no segment is left once all are written.
LEMMA CountIsNat ==
    ASSUME NEW r \in Requests
    PROVE  /\ SegmentCount(r) \in Nat
           /\ r.to = <<>> <=> SegmentCount(r) = 0
           /\ ~InPlaceType(r) => SegmentCount(r) <= 1
           /\ InPlaceType(r) => /\ SegmentCount(r) = Ceiling(Len(r.to), r.seg)
                                /\ Slice(r.to, 0, Least(SegmentCount(r) * r.seg, Len(r.to))) = r.to
<1>1. /\ r.to \in Seq(Byte) /\ Len(r.to) \in Nat
      /\ InPlaceType(r) => r.seg \in Nat /\ r.seg >= 1
  BY Arguments
<1>2. r.to = <<>> <=> Len(r.to) = 0
  BY <1>1, EmptySeq
<1>3. CASE InPlaceType(r)
  <2> DEFINE g == r.seg
             z == Len(r.to)
             q == Ceiling(z, g)
  <2>1. q \in Nat /\ z <= q * g /\ \A s \in 0..q - 1 : s * g < z
    BY <1>1, <1>3, CeilingCovers
  <2>2. SegmentCount(r) = q
    BY <1>3 DEF SegmentCount
  <2> HIDE DEF q
  <2>3. q * g \in Nat
    <3> HIDE DEF g
    <3> QED
      BY <1>1, <1>3, <2>1 DEF g
  <2>4. Least(q * g, z) = z
    BY <1>1, <2>1, <2>3 DEF Least
  <2>5. Slice(r.to, 0, z) = r.to
    BY <1>1, SubSeqFull DEF Slice
  <2>6. z = 0 <=> q = 0
    <3>1. q = 0 => z = 0
      <4>1. q = 0 => q * g = 0
        BY <1>1, <1>3
      <4> QED
        BY <1>1, <2>1, <4>1
    <3>2. q # 0 => z # 0
      <4>1. q # 0 => 0 \in 0..q - 1 /\ 0 * g = 0
        BY <1>1, <1>3, <2>1
      <4> QED
        BY <2>1, <4>1
    <3> QED
      BY <3>1, <3>2
  <2> QED
    BY <1>2, <1>3, <2>1, <2>2, <2>4, <2>5, <2>6 DEF q
<1>4. CASE ~InPlaceType(r)
  BY <1>4 DEF SegmentCount
<1> QED
  BY <1>3, <1>4

\* Before the first segment there is nothing to compress.
LEMMA NothingStreamed ==
    ASSUME NEW r \in Requests
    PROVE  Streamed(r, 0, <<>>)
<1>1. CASE InPlaceType(r)
  <2>1. ASSUME NEW a, NEW tail, tail \in Seq(Byte),
               SegmentsRun(a, r.from, r.seg, CalcShift(r), Len(r.to), <<>> \o tail)
        PROVE  a[0] = [rest |-> tail, img |-> Slice(r.to, 0, Least(0 * r.seg, Len(r.to)))]
    <3>1. <<>> \o tail = tail
      BY <2>1, ConcatEmptySeq
    <3>2. a[0] = [rest |-> tail, img |-> <<>>]
      BY <2>1, <3>1 DEF SegmentsRun
    <3>3. Least(0 * r.seg, Len(r.to)) = 0
      BY <1>1, Arguments DEF Least
    <3>4. Slice(r.to, 0, 0) = <<>>
      BY SubSeqEmpty DEF Slice
    <3> QED
      BY <3>2, <3>3, <3>4
  <2> QED
    BY <1>1, <2>1 DEF Streamed
<1>2. CASE ~InPlaceType(r)
  BY <1>2 DEF Streamed
<1> QED
  BY <1>1, <1>2

\* A segment of a patch in place more.
LEMMA MoreStreamed ==
    ASSUME NEW r \in Requests, InPlaceType(r), NEW s \in Nat, s < SegmentCount(r),
           NEW b, b \in Seq(Byte), Streamed(r, s, b),
           NEW d, Written(d), NEW c, Reconstructs(d, SegmentFrom(r, s), SegmentTo(r, s), c, Len(SegmentTo(r, s)))
    PROVE  Streamed(r, s + 1, b \o Marked(d))
<1> DEFINE g == r.seg
           z == Len(r.to)
           w == Marked(d)
           o == SegmentTo(r, s)
           f == SegmentFrom(r, s)
           i == s * g
           shift == CalcShift(r)
           base == Slice(r.from, Greatest((s + 1) * g - shift, 0), Len(r.from))
<1>1. /\ i \in Nat /\ i < z /\ Least(i, z) = i /\ Len(o) = Least(g, z - i)
      /\ Len(Slice(r.to, 0, i)) = i
      /\ Slice(r.to, 0, i) \o o = Slice(r.to, 0, Least((s + 1) * g, z))
      /\ Extends(base, f)
  BY SegmentFits
<1>2. w \in Seq(Byte)
  BY MarkedIsBytes
<1>3. s \in 0..Ceiling(z, g) - 1
  <2>1. SegmentCount(r) \in Nat /\ SegmentCount(r) = Ceiling(z, g)
    BY CountIsNat
  <2> QED
    BY <2>1
<1>4. Len(o) \in Nat
  <2>1. o \in Seq(Byte)
    BY SegmentsAreImages
  <2> QED
    BY <2>1, LenProperties
<1>5. Reconstructs(d, f, o, c, Len(o))
  OBVIOUS
<1>6. Streamed(r, s, b) <=>
        \A a, tail :
             /\ tail \in Seq(Byte)
             /\ SegmentsRun(a, r.from, g, shift, z, b \o tail)
             => a[s] = [rest |-> tail, img |-> Slice(r.to, 0, Least(i, z))]
  BY DEF Streamed
<1> HIDE DEF w, o, f, base, i, g, z, shift
<1>7. ASSUME NEW a, NEW tail, tail \in Seq(Byte),
             SegmentsRun(a, r.from, g, shift, z, (b \o w) \o tail)
      PROVE  a[s + 1] = [rest |-> tail, img |-> Slice(r.to, 0, Least((s + 1) * g, z))]
  <2> DEFINE v == w \o tail
             y == Slice(r.to, 0, i)
  <2>1. v \in Seq(Byte) /\ (b \o w) \o tail = b \o v
    BY <1>2, <1>7, Joined, Regroup
  <2> HIDE DEF v
  <2>2. SegmentsRun(a, r.from, g, shift, z, b \o v)
    BY <1>7, <2>1
  <2>3. a[s] = [rest |-> v, img |-> y]
    BY <1>1, <1>6, <2>1, <2>2
  <2>4. a[s + 1] = SegmentStep(r.from, g, shift, z, s + 1, a[s])
    BY <1>3, <2>2 DEF SegmentsRun
  <2> DEFINE e == Segment(base, Len(o), v)
  <2>5. e = [rest |-> tail, img |-> o, at |-> c]
    BY <1>1, <1>4, <1>5, <1>7, SegmentDecodes DEF v, w
  <2>6. e.rest = tail /\ e.img = o
    BY <2>5
  <2>7. a[s].rest = v /\ a[s].img = y /\ Len(y) = i
    BY <1>1, <2>3
  <2> HIDE DEF y
  <2>8. Segment(base, Least(g, z - Len(a[s].img)), a[s].rest) = e
    BY <1>1, <2>7
  <2> HIDE DEF e
  <2>9. a[s + 1] = [rest |-> e.rest, img |-> y \o e.img]
    BY <2>4, <2>7, <2>8 DEF SegmentStep, base
  <2> QED
    BY <1>1, <2>6, <2>9 DEF y
<1> QED
  BY <1>7 DEF Streamed, w, g, z, shift

\* The only segment of a sequential patch.
LEMMA OneStreamed ==
    ASSUME NEW r \in Requests, ~InPlaceType(r), NEW b, b = <<>>,
           NEW d, Written(d), NEW c, Reconstructs(d, r.from, r.to, c, Len(r.to))
    PROVE  Streamed(r, 1, b \o Marked(d))
<1> DEFINE w == Marked(d)
           z == Len(r.to)
           f == r.from
           o == r.to
<1>1. w \in Seq(Byte)
  BY MarkedIsBytes
<1>2. <<>> \in Seq(Byte) /\ w \o <<>> = w /\ b \o w = w
  BY <1>1, EmptySeq, ConcatEmptySeq
<1>3. Extends(f, f)
  <2>1. f \in Seq(Byte) /\ Len(f) \in Nat
    BY Arguments
  <2> QED
    BY <2>1 DEF Extends
<1>4. Segment(f, Len(o), w \o <<>>) = [rest |-> <<>>, img |-> o, at |-> c]
  <2>1. Len(o) \in Nat /\ Reconstructs(d, f, o, c, Len(o))
    BY Arguments
  <2> DEFINE e == <<>>
  <2>2. e \in Seq(Byte)
    BY <1>2
  <2> HIDE DEF f, o, e
  <2>3. Segment(f, Len(o), w \o e) = [rest |-> e, img |-> o, at |-> c]
    BY <1>3, <2>1, <2>2, SegmentDecodes
  <2> QED
    BY <2>3 DEF e
<1>5. Segment(r.from, Len(r.to), b \o w).img = r.to
  BY <1>2, <1>4
<1> QED
  BY <1>5 DEF Streamed, w

\* The initial state.
LEMMA StreamInit == Init => StreamInv
<1> SUFFICES ASSUME Init PROVE StreamInv
  OBVIOUS
<1>1. DeltaInv /\ BodyInv
  BY DeltaInit, BodyInit DEF Init
<1>2. req \in Requests /\ phase = "segment" /\ segment = 0 /\ stream = <<>>
  BY DEF Init
<1>3. segment <= SegmentCount(req)
  BY <1>2, CountIsNat
<1>4. stream \in Seq(Byte)
  BY <1>2, EmptySeq
<1>5. Streamed(req, segment, stream)
  BY <1>2, NothingStreamed
<1>6. PatchDecodes
  BY <1>2 DEF PatchDecodes
<1> QED
  BY <1>1, <1>2, <1>3, <1>4, <1>5, <1>6 DEF StreamInv

\* A step within a segment leaves the stream and the arguments of bsdiff alone.
LEMMA WithinStream ==
    ASSUME StreamInv, DeltaInv', BodyInv', NextSegment \/ SortRound \/ DiffStep
    PROVE  StreamInv'
<1>1. phase' \in {"sort", "diff"} /\ UNCHANGED <<req, segment, stream, patch>>
  BY DEF NextSegment, SortRound, DiffStep, result
<1>2. segment < SegmentCount(req) /\ from' = SegmentFrom(req, segment) /\ to' = SegmentTo(req, segment)
  <2>1. CASE NextSegment
    BY <2>1 DEF NextSegment, Start
  <2>2. CASE SortRound \/ DiffStep
    <3>1. phase \in {"sort", "diff"}
      BY <2>2 DEF SortRound, DiffStep
    <3>2. from' = from /\ to' = to
      BY <2>2 DEF SortRound, DiffStep, bsdiffVars, Outer, Scan, ScanEnd, Continue, Emit, args
    <3> QED
      BY <3>1, <3>2 DEF StreamInv
  <2> QED
    BY <2>1, <2>2
<1>3. /\ segment <= SegmentCount(req) /\ stream \in Seq(Byte) /\ (segment # 0 => stream # <<>>)
      /\ Streamed(req, segment, stream)
  BY DEF StreamInv
<1>4. PatchDecodes'
  BY <1>1 DEF PatchDecodes
<1> QED
  BY <1>1, <1>2, <1>3, <1>4 DEF StreamInv

\* The end of a segment puts its bytes behind the others.
LEMMA EndSegmentStream ==
    ASSUME StreamInv, DeltaInv', BodyInv', EndSegment
    PROVE  StreamInv'
<1>1. /\ phase = "diff" /\ pc = "done" /\ phase' = "segment" /\ segment' = segment + 1
      /\ stream' = stream \o PackSize(0) \o Bytes(body) /\ req' = req
  BY DEF EndSegment, Bytes
<1>2. /\ req \in Requests /\ segment \in Nat /\ segment < SegmentCount(req)
      /\ from = SegmentFrom(req, segment) /\ to = SegmentTo(req, segment)
      /\ stream \in Seq(Byte) /\ (segment # 0 => stream # <<>>)
      /\ Streamed(req, segment, stream)
  BY <1>1 DEF StreamInv, DeltaInv
<1>3. Written(body) /\ Reconstructs(body, from, out, cursor, Len(to)) /\ out = to
  BY <1>1 DEF StreamInv, BodyInv, DeltaInv, BsdiffInv, DecoderInStep
<1> DEFINE w == Marked(body)
<1>4. w \in Seq(Byte) /\ w # <<>> /\ Len(w) \in Nat /\ Len(w) # 0
  <2>1. w \in Seq(Byte) /\ w # <<>> /\ Len(w) \in Nat
    BY <1>3, MarkedIsBytes
  <2> QED
    BY <2>1, EmptySeq
<1>5. stream' = stream \o w
  <2>1. PackSize(0) \in Seq(Byte) /\ Bytes(body) \in Seq(Byte)
    BY <1>3, MarkerIsBytes DEF Written
  <2> DEFINE z == PackSize(0)
             y == Bytes(body)
  <2> HIDE DEF z, y
  <2>2. (stream \o z) \o y = stream \o (z \o y)
    BY <1>2, <2>1, Regroup DEF z, y
  <2>3. w = z \o y
    BY DEF Marked, z, y
  <2> QED
    BY <1>1, <2>2, <2>3 DEF z, y
<1> HIDE DEF w
<1>6. stream' \in Seq(Byte) /\ stream' # <<>>
  <2>1. stream' \in Seq(Byte) /\ Len(stream') = Len(stream) + Len(w) /\ Len(stream) \in Nat
    BY <1>2, <1>4, <1>5, Joined, LenProperties
  <2> QED
    BY <1>4, <2>1, EmptySeq
<1>7. SegmentCount(req) \in Nat /\ segment + 1 <= SegmentCount(req)
  BY <1>2, CountIsNat
<1>8. Streamed(req, segment + 1, stream \o w)
  <2>1. CASE InPlaceType(req)
    BY <1>2, <1>3, <2>1, MoreStreamed DEF w
  <2>2. CASE ~InPlaceType(req)
    <3>1. segment = 0
      BY <1>2, <1>7, <2>2, CountIsNat
    <3>2. stream = <<>>
      BY <1>2, <2>2, <3>1 DEF Streamed
    <3>3. from = req.from /\ to = req.to
      BY <1>2, <2>2 DEF SegmentFrom, SegmentTo
    <3>4. Streamed(req, 1, stream \o Marked(body))
      BY <1>2, <1>3, <2>2, <3>2, <3>3, OneStreamed
    <3> QED
      BY <3>1, <3>4 DEF w
  <2> QED
    BY <2>1, <2>2
<1>9. PatchDecodes'
  BY <1>1 DEF PatchDecodes
<1> QED
  BY <1>1, <1>5, <1>6, <1>7, <1>8, <1>9 DEF StreamInv

\* A finished patch in place is decoded to the target.
LEMMA AllDecode ==
    ASSUME NEW r \in Requests, InPlaceType(r), NEW b, b \in Seq(Byte), Streamed(r, SegmentCount(r), b),
           NEW z, z \in Seq(Byte), CrleExpand(z) = b
    PROVE  Apply(r.from, Header(r) \o z) = r.to
<1> DEFINE g == r.seg
           n == Len(r.to)
           q == Ceiling(n, g)
           shift == CalcShift(r)
<1>1. q \in Nat /\ SegmentCount(r) = q /\ Slice(r.to, 0, Least(q * g, n)) = r.to
  BY CountIsNat
<1>2. <<>> \in Seq(Byte) /\ b \o <<>> = b
  BY EmptySeq, ConcatEmptySeq
<1>3. \A a, tail :
         /\ tail \in Seq(Byte)
         /\ SegmentsRun(a, r.from, g, shift, n, b \o tail)
         => a[q] = [rest |-> tail, img |-> Slice(r.to, 0, Least(q * g, n))]
  BY <1>1 DEF Streamed
<1>4. AppliesAll(r, r.from, z)
  BY AllApplies
<1>5. Apply(r.from, Header(r) \o z) = Segments(r.from, g, shift, n, b)
  BY <1>4 DEF AppliesAll
<1> HIDE DEF g, n, shift
<1>6. PICK a : /\ Segments(r.from, g, shift, n, b) = a[q].img
               /\ SegmentsRun(a, r.from, g, shift, n, b)
  BY <1>1, SegmentsRuns
<1>7. a[q].img = r.to
  <2> DEFINE e == <<>>
             y == Slice(r.to, 0, Least(q * g, n))
  <2>1. e \in Seq(Byte) /\ b \o e = b /\ y = r.to
    BY <1>1, <1>2
  <2>2. \A tail : /\ tail \in Seq(Byte)
                  /\ SegmentsRun(a, r.from, g, shift, n, b \o tail)
                  => a[q] = [rest |-> tail, img |-> y]
    BY <1>3
  <2> HIDE DEF e, y, q
  <2>3. SegmentsRun(a, r.from, g, shift, n, b \o e)
    BY <1>6, <2>1
  <2>4. a[q] = [rest |-> e, img |-> y]
    BY <2>1, <2>2, <2>3
  <2> QED
    BY <2>1, <2>4
<1> QED
  BY <1>5, <1>6, <1>7

\* A finished sequential patch is decoded to the target.
LEMMA OneDecodes ==
    ASSUME NEW r \in Requests, ~InPlaceType(r), NEW b, Streamed(r, 1, b),
           NEW z, z \in Seq(Byte), CrleExpand(z) = b
    PROVE  Apply(r.from, Header(r) \o z) = r.to
<1>1. AppliesOne(r, r.from, z)
  BY OneApplies
<1>2. Segment(r.from, Len(r.to), b).img = r.to
  BY DEF Streamed
<1> QED
  BY <1>1, <1>2 DEF AppliesOne

\* A patch of nothing is decoded to nothing.
LEMMA NothingDecodes ==
    ASSUME NEW r \in Requests, r.to = <<>>
    PROVE  /\ InPlaceType(r) => Apply(r.from, Header(r)) = r.to
           /\ ~InPlaceType(r) => Apply(r.from, Header(r) \o CrleCompress(PackSize(0))) = r.to
<1>0. <<>> \in Seq(Byte) /\ Len(r.to) = 0
  BY EmptySeq
<1>1. ASSUME InPlaceType(r) PROVE Apply(r.from, Header(r)) = r.to
  <2> DEFINE g == r.seg
             shift == CalcShift(r)
             b == CrleExpand(<<>>)
  <2>1. Ceiling(0, g) = 0 /\ Ceiling(0, g) \in Nat
    BY <1>0, <1>1, CountIsNat
  <2>2. AppliesAll(r, r.from, <<>>)
    BY <1>0, <1>1, AllApplies
  <2>3. Apply(r.from, Header(r) \o <<>>) = Segments(r.from, g, shift, 0, b)
    BY <1>0, <2>2 DEF AppliesAll
  <2> HIDE DEF g, shift, b
  <2>4. PICK a : /\ Segments(r.from, g, shift, 0, b) = a[Ceiling(0, g)].img
                 /\ SegmentsRun(a, r.from, g, shift, 0, b)
    BY <2>1, SegmentsRuns
  <2>5. a[0].img = <<>>
    BY <2>4 DEF SegmentsRun
  <2>6. Header(r) \o <<>> = Header(r)
    BY <1>1, HeaderIsWords, ConcatEmptySeq
  <2> QED
    BY <2>1, <2>3, <2>4, <2>5, <2>6
<1>2. ASSUME ~InPlaceType(r) PROVE Apply(r.from, Header(r) \o CrleCompress(PackSize(0))) = r.to
  <2> DEFINE p == PackSize(0)
             z == CrleCompress(p)
  <2>1. p \in Seq(Byte) /\ p # <<>>
    <3>1. p \in Seq(Byte) /\ Len(p) >= 1
      BY MarkerIsBytes
    <3> QED
      BY <3>1, EmptySeq
  <2> HIDE DEF p
  <2>2. z \in Seq(Byte) /\ CrleExpand(z) = p
    BY <2>1, ExpandsBack
  <2> HIDE DEF z
  <2>3. AppliesOne(r, r.from, z)
    BY <1>2, <2>2, OneApplies
  <2>4. Apply(r.from, Header(r) \o z) = Segment(r.from, 0, p).img
    BY <1>0, <2>2, <2>3 DEF AppliesOne
  <2>5. PICK a : Segment(r.from, 0, p) = a[Len(p)] /\ SegmentRun(a, r.from, 0, p)
    BY <2>1, SegmentRuns, LenProperties
  <2>6. a[0].img = <<>>
    BY <2>5 DEF SegmentRun
  <2>7. a[Len(p)] = a[0]
    <3>1. 0 \in 0..Len(p) /\ Len(p) \in Nat
      BY <2>1, LenProperties
    <3>2. Len(a[0].img) >= 0
      BY <1>0, <2>6
    <3> QED
      BY <2>5, <3>1, <3>2, SegmentStays
  <2> QED
    BY <2>4, <2>5, <2>6, <2>7 DEF z, p
<1> QED
  BY <1>1, <1>2

\* The finished patch.
LEMMA FinishStream ==
    ASSUME StreamInv, DeltaInv', BodyInv', Finish
    PROVE  StreamInv'
<1>1. /\ segment = SegmentCount(req) /\ phase' = "done"
      /\ UNCHANGED <<req, segment, stream>>
      /\ patch' = IF req.to # <<>>         THEN Header(req) \o CrleCompress(stream)
                  ELSE IF InPlaceType(req) THEN Header(req)
                                           ELSE Header(req) \o CrleCompress(PackSize(0))
  BY DEF Finish
<1>2. /\ req \in Requests /\ segment \in Nat /\ segment <= SegmentCount(req)
      /\ stream \in Seq(Byte) /\ (segment # 0 => stream # <<>>)
      /\ Streamed(req, segment, stream)
  BY DEF StreamInv, DeltaInv
<1>3. Apply(req.from, patch') = req.to
  <2>1. CASE req.to # <<>>
    <3> DEFINE z == CrleCompress(stream)
    <3>1. segment # 0
      BY <1>1, <1>2, <2>1, CountIsNat
    <3>2. z \in Seq(Byte) /\ CrleExpand(z) = stream
      BY <1>2, <3>1, ExpandsBack
    <3>3. patch' = Header(req) \o z
      BY <1>1, <2>1
    <3> HIDE DEF z
    <3>4. CASE InPlaceType(req)
      BY <1>1, <1>2, <3>2, <3>3, <3>4, AllDecode
    <3>5. CASE ~InPlaceType(req)
      <4>1. SegmentCount(req) \in Nat /\ SegmentCount(req) <= 1
        BY <1>2, <3>5, CountIsNat
      <4>2. segment = 1
        BY <1>1, <1>2, <3>1, <4>1
      <4> QED
        BY <1>2, <3>2, <3>3, <3>5, <4>2, OneDecodes
    <3> QED
      BY <3>4, <3>5
  <2>2. CASE req.to = <<>>
    BY <1>1, <1>2, <2>2, NothingDecodes
  <2> QED
    BY <2>1, <2>2
<1>4. PatchDecodes'
  BY <1>1, <1>3 DEF PatchDecodes
<1>5. Streamed(req, segment, stream)'
  BY <1>1, <1>2
<1> QED
  BY <1>1, <1>2, <1>4, <1>5 DEF StreamInv

\* StreamInv is inductive.
LEMMA StreamStep == StreamInv /\ [Next]_vars => StreamInv'
<1> SUFFICES ASSUME StreamInv, [Next]_vars PROVE StreamInv'
  OBVIOUS
<1>1. DeltaInv'
  BY DeltaStep DEF StreamInv
<1>2. BodyInv'
  BY StepIsBsdiff, BodyStep DEF StreamInv, DeltaInv
<1>3. CASE UNCHANGED vars
  <2>1. UNCHANGED <<req, phase, from, to, segment, stream, patch>>
    BY <1>3 DEF vars, bsdiffVars, args, result
  <2> QED
    BY <1>1, <1>2, <2>1 DEF StreamInv, PatchDecodes
<1> QED
  BY <1>1, <1>2, <1>3, WithinStream, EndSegmentStream, FinishStream DEF Next, Done

\* For every base, target and window the finished patch, decoded byte by byte,
\* is the target (encode.rs, Correctness contract).
THEOREM AlwaysRebuilt == Spec => []PatchDecodes
<1>1. StreamInv => PatchDecodes
  BY DEF StreamInv
<1> QED
  BY <1>1, StreamInit, StreamStep, PTL DEF Spec

----------------------------------------------------------------------------
(* What is left to do.                                                     *)

\* How far bsdiff has got: from "outer" and "emit" it goes on behind the match
Reached == IF pc \in {"outer", "emit"} /\ scan < Len(to) THEN scan + len ELSE scan

\* What is left of a turn of the outer loop, and of the last one
Stage ==
    IF scan < Len(to)
      THEN IF pc = "emit" THEN 6 ELSE IF pc = "outer" THEN 5 ELSE 4
      ELSE IF pc = "inner" THEN 3 ELSE IF pc = "emit" THEN 2 ELSE IF pc = "outer" THEN 1 ELSE 0

\* What is left of a phase
Turns ==
    IF phase = "sort" THEN Len(from) - k
    ELSE IF phase = "diff" THEN 7 * (Len(to) - Reached) + Stage
    ELSE 0

\* The phases of a segment that are to come
PhasesLeft ==
    IF phase = "segment" THEN 3 ELSE IF phase = "sort" THEN 2 ELSE IF phase = "diff" THEN 1 ELSE 0

\* What is left to do
Remaining == <<SegmentCount(req) - segment, PhasesLeft, Turns>>

\* b is less than a in lexical order
Decreases(a, b) ==
    \/ b[1] < a[1]
    \/ b[1] = a[1] /\ b[2] < a[2]
    \/ b[1] = a[1] /\ b[2] = a[2] /\ b[3] < a[3]

\* What keeps the counts natural
TurnInv ==
    /\ StreamInv
    /\ phase = "sort" => k <= Len(from)

\* bsdiff gets no further than the end of the target
Within ==
    /\ Len(to) \in Nat /\ Reached \in Nat /\ Reached <= Len(to) /\ Stage \in 0..6
    /\ scan \in Nat /\ len \in Nat /\ scan <= Len(to)

\* It does not.
LEMMA ReachedIs == DeltaInv => Within
<1> SUFFICES ASSUME DeltaInv PROVE Within
  OBVIOUS
<1>1. Len(to) \in Nat
  BY LenProperties DEF DeltaInv, BsdiffInv, BsdiffTypeOK
<1>2. /\ scan \in Nat /\ len \in Nat /\ scan <= Len(to)
      /\ pc \in {"outer", "emit"} /\ scan < Len(to) => scan + len <= Len(to)
  BY DEF DeltaInv, BsdiffInv, BsdiffTypeOK, DecoderInStep, IndicesInBounds
<1>3. Reached \in Nat /\ Reached <= Len(to)
  BY <1>1, <1>2 DEF Reached
<1>4. Stage \in 0..6
  BY DEF Stage
<1> QED
  BY <1>1, <1>2, <1>3, <1>4 DEF Within

\* The inner loop breaks only on a match of a byte at least: the score with
\* which its length is compared is no less than zero.
LEMMA BreaksOnMatch ==
    ASSUME DeltaInv, NEW l \in Nat, NEW p, Scan(l, p), pc' = "emit"
    PROVE  l > 0
<1> DEFINE W == {i \in scsc..scan + l - 1 : Aligned(i)}
           score == oldscore + Cardinality(W)
<1>1. scan \in Nat /\ scsc \in Nat /\ oldscore = Cardinality(Window(scan, scsc)) /\ pc = "inner"
  BY DEF Scan, DeltaInv, BsdiffInv, BsdiffTypeOK
<1>2. oldscore \in Nat
  BY <1>1, WindowsAreFinite, FS_CardinalityType
<1>3. Cardinality(W) \in Nat
  <2>1. scan + l \in Nat /\ W = Window(scsc, scan + l)
    BY <1>1 DEF Window
  <2>2. IsFiniteSet(Window(scsc, scan + l))
    BY <1>1, <2>1, WindowsAreFinite
  <2> QED
    BY <2>1, <2>2, FS_CardinalityType
<1>4. (l = score /\ l # 0) \/ l > score + Slack
  BY <1>1 DEF Scan
<1> HIDE DEF W
<1> QED
  BY <1>2, <1>3, <1>4, BsdiffAssumption

\* Another round of the sort has a width below the length.
LEMMA SortRoundAdvances ==
    ASSUME DeltaInv, k <= Len(from), SortRound, phase' = "sort"
    PROVE  k \in Nat /\ k' \in Nat /\ k < k' /\ k' <= Len(from) /\ from' = from
<1>1. /\ k \in Nat \ {0} /\ rank \in Seq(Nat) /\ Len(rank) = Len(from) /\ Len(from) \in Nat
  BY LenProperties DEF SortRound, DeltaInv, Ranks, BsdiffInv, BsdiffTypeOK
<1>2. rank' = Ranked(rank, k) /\ ~SortedEnough(rank', k) /\ k' = 2 * k /\ from' = from
  BY DEF SortRound, bsdiffVars, args
<1>3. Len(rank') = Len(rank)
  BY <1>1, <1>2 DEF Ranked
<1>4. 2 * k < Len(rank')
  BY <1>1, <1>2, <1>3 DEF SortedEnough
<1> QED
  BY <1>1, <1>2, <1>3, <1>4

\* TurnInv is inductive.
LEMMA TurnStep == TurnInv /\ [Next]_vars => TurnInv'
<1> SUFFICES ASSUME TurnInv, [Next]_vars PROVE TurnInv'
  OBVIOUS
<1>1. StreamInv' /\ DeltaInv /\ DeltaInv'
  BY StreamStep DEF TurnInv, StreamInv
<1>2. (phase = "sort" => k <= Len(from))'
  <2>1. CASE NextSegment
    <3> SUFFICES ASSUME phase' = "sort" PROVE k' <= Len(from')
      OBVIOUS
    <3>1. from' # <<>> /\ k' = 1
      BY <2>1 DEF NextSegment
    <3>2. from' \in Seq(Byte)
      BY <1>1 DEF DeltaInv, BsdiffInv, BsdiffTypeOK
    <3>3. Len(from') \in Nat /\ Len(from') # 0
      BY <3>1, <3>2, EmptySeq, LenProperties
    <3> QED
      BY <3>1, <3>3
  <2>2. CASE SortRound
    <3> SUFFICES ASSUME phase' = "sort" PROVE k' <= Len(from')
      OBVIOUS
    <3>1. k <= Len(from)
      BY <2>2 DEF TurnInv, SortRound
    <3> QED
      BY <1>1, <2>2, <3>1, SortRoundAdvances
  <2>3. CASE DiffStep \/ EndSegment \/ Finish
    <3>1. phase' # "sort"
      BY <2>3 DEF DiffStep, EndSegment, Finish
    <3> QED
      BY <3>1
  <2>4. CASE UNCHANGED vars
    BY <2>4 DEF vars, sort, bsdiffVars, args, TurnInv
  <2> QED
    BY <2>1, <2>2, <2>3, <2>4 DEF Next, Done
<1> QED
  BY <1>1, <1>2 DEF TurnInv

\* What is left are natural numbers.
LEMMA RemainingIs == TurnInv => Remaining \in Nat \X Nat \X Nat
<1> SUFFICES ASSUME TurnInv PROVE Remaining \in Nat \X Nat \X Nat
  OBVIOUS
<1>1. SegmentCount(req) - segment \in Nat
  <2>1. req \in Requests /\ segment \in Nat /\ segment <= SegmentCount(req)
    BY DEF TurnInv, StreamInv, DeltaInv
  <2> QED
    BY <2>1, CountIsNat
<1>2. PhasesLeft \in Nat
  BY DEF PhasesLeft
<1>3. Turns \in Nat
  <2>1. CASE phase = "sort"
    <3>1. k \in Nat /\ k <= Len(from) /\ Len(from) \in Nat
      BY <2>1, LenProperties DEF TurnInv, StreamInv, DeltaInv, BsdiffInv, BsdiffTypeOK
    <3> QED
      BY <2>1, <3>1 DEF Turns
  <2>2. CASE phase = "diff"
    <3>1. Len(to) \in Nat /\ Reached \in Nat /\ Reached <= Len(to) /\ Stage \in 0..6
      BY ReachedIs DEF TurnInv, StreamInv, Within
    <3> QED
      BY <2>2, <3>1 DEF Turns
  <2>3. CASE phase \notin {"sort", "diff"}
    BY <2>3 DEF Turns
  <2> QED
    BY <2>1, <2>2, <2>3
<1> QED
  BY <1>1, <1>2, <1>3 DEF Remaining

\* A step of bsdiff leaves less to do.
LEMMA DiffAdvances ==
    ASSUME DeltaInv, Within', DiffStep
    PROVE  Turns' < Turns
<1>1. phase = "diff" /\ phase' = "diff" /\ to' = to
  BY DEF DiffStep, Outer, Scan, ScanEnd, Continue, Emit, args
<1>2. /\ Len(to) \in Nat /\ Reached \in Nat /\ Reached <= Len(to) /\ Stage \in 0..6
      /\ scan \in Nat /\ len \in Nat /\ scan <= Len(to)
  BY ReachedIs DEF Within
<1>3. /\ Reached' \in Nat /\ Reached' <= Len(to) /\ Stage' \in 0..6
      /\ scan' \in Nat /\ len' \in Nat /\ scan' <= Len(to)
  <2>1. /\ Len(to') \in Nat /\ Reached' \in Nat /\ Reached' <= Len(to') /\ Stage' \in 0..6
        /\ scan' \in Nat /\ len' \in Nat /\ scan' <= Len(to')
    BY DEF Within
  <2> QED
    BY <1>1, <2>1
<1>4. Reached < Reached' \/ (Reached = Reached' /\ Stage' < Stage)
  <2>1. CASE Outer
    <3>1. CASE scan < Len(to)
      <4>1. pc = "outer" /\ pc' = "inner" /\ scan' = scan + len
        BY <2>1, <3>1 DEF Outer, PastMatch
      <4>2. Reached = scan + len /\ Reached' = scan' /\ Stage = 5
        BY <3>1, <4>1 DEF Reached, Stage
      <4>3. Stage' \in {3, 4}
        BY <4>1 DEF Stage
      <4> QED
        BY <4>1, <4>2, <4>3
    <3>2. CASE ~(scan < Len(to))
      BY <1>1, <1>2, <2>1, <3>2 DEF Outer, Reached, Stage
    <3> QED
      BY <3>1, <3>2
  <2>2. CASE ScanEnd
    BY <1>1, <1>2, <2>2 DEF ScanEnd, Reached, Stage
  <2>3. CASE Continue
    BY <1>1, <1>2, <2>3 DEF Continue, Reached, Stage
  <2>4. CASE Emit
    BY <1>1, <1>2, <2>4 DEF Emit, Reached, Stage
  <2>5. CASE pc = "inner" /\ \E p \in {Search} : \E l \in {MatchLen(p)} : Scan(l, p)
    <3> DEFINE l == MatchLen(Search)
    <3>1. Scan(l, Search) /\ pc = "inner" /\ scan < Len(to)
      BY <2>5 DEF Scan
    <3>2. l \in Nat /\ len' = l
      BY <1>3, <3>1 DEF Scan
    <3> HIDE DEF l
    <3>3. Reached = scan
      BY <3>1 DEF Reached
    <3>4. CASE pc' = "emit"
      <4>1. l > 0 /\ scan' = scan
        BY <3>1, <3>2, <3>4, BreaksOnMatch DEF Scan
      <4>2. Reached' = scan + l
        BY <1>1, <3>1, <3>2, <3>4, <4>1 DEF Reached
      <4> QED
        BY <1>2, <3>2, <3>3, <4>1, <4>2
    <3>5. CASE pc' # "emit"
      <4>1. pc' = "inner" /\ scan' = scan + 1
        BY <3>1, <3>5 DEF Scan
      <4>2. Reached' = scan + 1
        BY <4>1 DEF Reached
      <4> QED
        BY <1>2, <3>3, <4>2
    <3> QED
      BY <3>4, <3>5
  <2> QED
    BY <2>1, <2>2, <2>3, <2>4, <2>5 DEF DiffStep
<1>5. Turns = 7 * (Len(to) - Reached) + Stage /\ Turns' = 7 * (Len(to) - Reached') + Stage'
  BY <1>1 DEF Turns
<1> QED
  BY <1>2, <1>3, <1>4, <1>5, SMTT(30)

\* Every step of the encoder leaves less to do.
LEMMA StepAdvances ==
    ASSUME TurnInv, Within', Next, vars' # vars
    PROVE  Decreases(Remaining, Remaining')
<1>1. /\ DeltaInv /\ req \in Requests /\ segment \in Nat /\ SegmentCount(req) \in Nat
  BY CountIsNat DEF TurnInv, StreamInv, DeltaInv
<1> DEFINE n == SegmentCount(req) - segment
<1>2. n \in Int
  BY <1>1
<1>3. Remaining = <<n, PhasesLeft, Turns>> /\ Remaining' = <<n', PhasesLeft', Turns'>>
  BY DEF Remaining
<1>4. \/ n' < n
      \/ n' = n /\ PhasesLeft' < PhasesLeft
      \/ n' = n /\ PhasesLeft' = PhasesLeft /\ Turns' < Turns
  <2>1. CASE NextSegment
    <3>1. n' = n /\ phase = "segment" /\ phase' \in {"sort", "diff"}
      BY <2>1 DEF NextSegment, result
    <3> QED
      BY <3>1 DEF PhasesLeft
  <2>2. CASE SortRound
    <3>1. n' = n /\ phase = "sort" /\ phase' \in {"sort", "diff"}
      BY <2>2 DEF SortRound, result
    <3>2. CASE phase' = "diff"
      BY <3>1, <3>2 DEF PhasesLeft
    <3>3. CASE phase' = "sort"
      <4>1. k <= Len(from) /\ Len(from) \in Nat
        BY <3>1, LenProperties DEF TurnInv, StreamInv, DeltaInv, BsdiffInv, BsdiffTypeOK
      <4>2. k \in Nat /\ k' \in Nat /\ k < k' /\ from' = from
        BY <1>1, <2>2, <3>3, <4>1, SortRoundAdvances
      <4>3. Turns = Len(from) - k /\ Turns' = Len(from) - k'
        BY <3>1, <3>3, <4>2 DEF Turns
      <4>4. PhasesLeft' = PhasesLeft
        BY <3>1, <3>3 DEF PhasesLeft
      <4> QED
        BY <3>1, <4>1, <4>2, <4>3, <4>4
    <3> QED
      BY <3>1, <3>2, <3>3
  <2>3. CASE DiffStep
    <3>1. n' = n /\ phase' = phase
      BY <2>3 DEF DiffStep, result
    <3> QED
      BY <1>1, <2>3, <3>1, DiffAdvances DEF PhasesLeft
  <2>4. CASE EndSegment
    <3>1. req' = req /\ segment' = segment + 1
      BY <2>4 DEF EndSegment
    <3> QED
      BY <1>1, <3>1
  <2>5. CASE Finish
    <3>1. n' = n /\ phase = "segment" /\ phase' = "done"
      BY <2>5 DEF Finish
    <3> QED
      BY <3>1 DEF PhasesLeft
  <2>6. ~Done
    BY DEF Done
  <2> QED
    BY <2>1, <2>2, <2>3, <2>4, <2>5, <2>6 DEF Next
<1> HIDE DEF n
<1> QED
  BY <1>3, <1>4 DEF Decreases

\* For every base, target and window, whatever an encoder does leaves less to do
\* of what is at no time infinitely much: segments, then phases, then rounds of
\* the sort or turns of the loops.  No turn of the outer loop is idle, because
\* the inner one breaks only on a match of a byte at least (encode.rs, bsdiff).
THEOREM AlwaysAdvances ==
    Spec => [](Remaining \in Nat \X Nat \X Nat) /\ [][Decreases(Remaining, Remaining')]_vars
<1>1. Init => TurnInv
  BY StreamInit DEF TurnInv, Init
<1>2. TurnInv => Within
  BY ReachedIs DEF TurnInv, StreamInv
<1>3. TurnInv /\ Within' /\ [Next]_vars => [Decreases(Remaining, Remaining')]_vars
  BY StepAdvances
<1> QED
  BY <1>1, <1>2, <1>3, TurnStep, RemainingIs, PTL DEF Spec
=============================================================================
