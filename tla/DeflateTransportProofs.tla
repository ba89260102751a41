----------------------- MODULE DeflateTransportProofs -----------------------
(***************************************************************************)
(* Proofs about the DEFLATE block transport, for every payload and block   *)
(* size, whatever the encoders make of each block and whatever slices the  *)
(* node asks for: the payload arrives byte for byte, nothing is compressed *)
(* once the link is open, and the transfer costs what was predicted.       *)
(***************************************************************************)
EXTENDS DeflateTransport, SequenceTheorems, WellFoundedInduction, TLAPS

----------------------------------------------------------------------------
(* Induction, with the claim as a set.                                     *)

LEMMA SetInduction ==
    ASSUME NEW P, 0 \in P, \A n \in Nat : n \in P => n + 1 \in P
    PROVE  Nat \subseteq P
<1> DEFINE Less == OpToRel(<, Nat)
           Rest == Nat \ P
<1>1. IsWellFoundedOn(Less, Nat)
  BY NatLessThanWellFounded
<1>2. \A i, j \in Nat : <<i, j>> \in Less <=> i < j
  BY DEF OpToRel
<1> HIDE DEF Less
<1> SUFFICES ASSUME Rest # {} PROVE FALSE
  OBVIOUS
<1>3. PICK i \in Rest : \A j \in Rest : ~(<<j, i>> \in Less)
  BY <1>1, WFMin, Rest \subseteq Nat
<1>4. i \in Nat \ {0} /\ i - 1 \in Nat /\ i - 1 < i
  OBVIOUS
<1>5. i - 1 \notin Rest
  BY <1>2, <1>3, <1>4
<1>6. i - 1 \in P /\ (i - 1) + 1 = i
  BY <1>4, <1>5
<1> QED
  BY <1>4, <1>6

\* A set of naturals that is not empty has a least element.
LEMMA LeastExists ==
    ASSUME NEW S \in SUBSET Nat, S # {}
    PROVE  \E i \in S : \A j \in S : i <= j
<1> DEFINE Less == OpToRel(<, Nat)
<1>1. IsWellFoundedOn(Less, Nat)
  BY NatLessThanWellFounded
<1>2. \A i, j \in Nat : <<i, j>> \in Less <=> i < j
  BY DEF OpToRel
<1> HIDE DEF Less
<1>3. PICK i \in S : \A j \in S : ~(<<j, i>> \in Less)
  BY <1>1, WFMin
<1>4. ASSUME NEW j \in S PROVE i <= j
  <2>1. i \in Nat /\ j \in Nat
    OBVIOUS
  <2>2. ~(j < i)
    BY <1>2, <1>3, <2>1
  <2> QED
    BY <2>1, <2>2
<1> QED
  BY <1>4

----------------------------------------------------------------------------
(* The counters of transport-size.                                         *)

SumBody(s, f, count) == [n \in 0..count |-> IF n = 0 THEN 0 ELSE s[n - 1] + f[n - 1]]

\* The loop over the blocks ends, with counters for every number of blocks.
LEMMA SumExists ==
    ASSUME NEW count \in Nat, NEW f
    PROVE  \E s : s = SumBody(s, f, count)
<1> DEFINE Solves(g, k) == \A n \in 0..k : g[n] = IF n = 0 THEN 0 ELSE g[n - 1] + f[n - 1]
           P == {k \in Nat : \E g : Solves(g, k)}
<1>1. 0 \in P
  <2>1. Solves([n \in {0} |-> 0], 0)
    OBVIOUS
  <2>2. \E g : Solves(g, 0)
    <3> HIDE DEF Solves
    <3> QED BY <2>1
  <2> QED
    BY <2>2
<1>2. ASSUME NEW k \in Nat, k \in P PROVE k + 1 \in P
  <2>1. PICK g : Solves(g, k)
    BY <1>2
  <2> DEFINE h == [n \in 0..(k + 1) |-> IF n = k + 1 THEN g[k] + f[k] ELSE g[n]]
  <2>2. ASSUME NEW n \in 0..(k + 1) PROVE h[n] = IF n = 0 THEN 0 ELSE h[n - 1] + f[n - 1]
    <3>1. CASE n = k + 1
      <4>1. n # 0 /\ n - 1 = k /\ k \in 0..(k + 1) /\ k # k + 1
        BY <3>1
      <4> QED
        BY <3>1, <4>1
    <3>2. CASE n # k + 1
      <4>1. n \in 0..k /\ (n # 0 => n - 1 \in 0..(k + 1) /\ n - 1 # k + 1)
        BY <3>2
      <4> QED
        BY <2>1, <3>2, <4>1
    <3> QED
      BY <3>1, <3>2
  <2>3. Solves(h, k + 1)
    BY <2>2
  <2>4. \E s : Solves(s, k + 1)
    <3> HIDE DEF Solves
    <3> QED BY <2>3
  <2> QED
    BY <2>4
<1>3. count \in P
  <2> HIDE DEF P
  <2> QED BY <1>1, <1>2, SetInduction
<1>4. PICK g : Solves(g, count)
  BY <1>3
<1> DEFINE s == [n \in 0..count |-> g[n]]
<1>5. \A n \in 0..count : s[n] = IF n = 0 THEN 0 ELSE s[n - 1] + f[n - 1]
  BY <1>4
<1>6. s = SumBody(s, f, count)
  BY <1>5 DEF SumBody
<1> QED
  BY <1>6

LEMMA RunningSumIs ==
    ASSUME NEW count \in Nat, NEW f
    PROVE  /\ RunningSum(f, count)[0] = 0
           /\ \A n \in 0..(count - 1) :
                RunningSum(f, count)[n + 1] = RunningSum(f, count)[n] + f[n]
<1> DEFINE s == CHOOSE g : g = SumBody(g, f, count)
<1>1. s = SumBody(s, f, count)
  BY SumExists
<1>2. RunningSum(f, count) = s
  BY DEF RunningSum, SumBody
<1> HIDE DEF s
<1>3. \A n \in 0..count : s[n] = IF n = 0 THEN 0 ELSE s[n - 1] + f[n - 1]
  BY <1>1 DEF SumBody
<1>4. s[0] = 0
  BY <1>3
<1>5. ASSUME NEW n \in 0..(count - 1) PROVE s[n + 1] = s[n] + f[n]
  <2>1. n + 1 \in 0..count /\ n + 1 # 0 /\ (n + 1) - 1 = n
    OBVIOUS
  <2> QED
    BY <1>3, <2>1
<1> QED
  BY <1>2, <1>4, <1>5

----------------------------------------------------------------------------
(* The container.                                                          *)

LEMMA CeilDivCovers ==
    ASSUME NEW n \in Nat, NEW d \in Nat \ {0}
    PROVE  /\ CeilDiv(n, d) \in Nat /\ n <= CeilDiv(n, d) * d
           /\ \A b \in 0..(CeilDiv(n, d) - 1) : b * d \in Nat /\ b * d < n
<1> DEFINE q == (n + d - 1) \div d
           r == (n + d - 1) % d
<1>1. n + d - 1 \in Nat
  OBVIOUS
<1>2. q \in Nat /\ r \in 0..(d - 1) /\ n + d - 1 = d * q + r
  BY <1>1
<1> HIDE DEF q, r
<1>3. n <= q * d
  BY <1>2
<1>4. ASSUME NEW b \in 0..(q - 1) PROVE b * d \in Nat /\ b * d < n
  <2>1. b \in Nat /\ q - 1 \in Nat /\ b <= q - 1
    BY <1>2
  <2>2. b * d \in Nat /\ b * d <= (q - 1) * d
    BY <2>1
  <2>3. (q - 1) * d = q * d - d
    BY <1>2
  <2> QED
    BY <1>2, <2>1, <2>2, <2>3
<1> QED
  BY <1>2, <1>3, <1>4 DEF CeilDiv, q

\* Where a block begins in the payload; the last one ends with it.
Begins(b) == IF b * BlockSize < size THEN b * BlockSize ELSE size

LEMMA BlockBounds ==
    ASSUME size \in PayloadSizes
    PROVE  /\ size \in Nat /\ BlockCount \in Nat
           /\ Begins(0) = 0 /\ Begins(BlockCount) = size
           /\ \A b \in Blocks :
                /\ b \in Nat /\ b + 1 \in 0..BlockCount
                /\ b * BlockSize \in Nat /\ (b + 1) * BlockSize = b * BlockSize + BlockSize
                /\ Begins(b) = b * BlockSize /\ b * BlockSize < size
                /\ Begins(b + 1) \in Nat /\ Begins(b) < Begins(b + 1) /\ Begins(b + 1) <= size
<1>1. size \in Nat /\ BlockSize \in Nat \ {0}
  BY TransportAssumption
<1>2. /\ BlockCount \in Nat /\ size <= BlockCount * BlockSize
      /\ \A b \in Blocks : b * BlockSize \in Nat /\ b * BlockSize < size
  BY <1>1, CeilDivCovers DEF BlockCount, Blocks
<1>3. Begins(0) = 0
  BY <1>1 DEF Begins
<1>4. Begins(BlockCount) = size
  <2>1. BlockCount * BlockSize \in Nat
    BY <1>1, <1>2
  <2> QED
    BY <1>1, <1>2, <2>1 DEF Begins
<1>5. ASSUME NEW b \in Blocks
      PROVE  /\ b \in Nat /\ b + 1 \in 0..BlockCount
             /\ (b + 1) * BlockSize = b * BlockSize + BlockSize
  BY <1>1, <1>2 DEF Blocks
<1>6. ASSUME NEW b \in Blocks
      PROVE  /\ Begins(b) = b * BlockSize
             /\ Begins(b + 1) \in Nat /\ Begins(b) < Begins(b + 1) /\ Begins(b + 1) <= size
  <2>1. b * BlockSize \in Nat /\ b * BlockSize < size
    BY <1>2
  <2>2. Begins(b) = b * BlockSize
    BY <2>1 DEF Begins
  <2>3. Begins(b + 1) = IF b * BlockSize + BlockSize < size THEN b * BlockSize + BlockSize ELSE size
    BY <1>5 DEF Begins
  <2> QED
    BY <1>1, <2>1, <2>2, <2>3
<1> QED
  BY <1>1, <1>2, <1>3, <1>4, <1>5, <1>6

LEMMA FileIs ==
    ASSUME NEW i \in Nat, NEW j \in Nat, i <= j
    PROVE  /\ File(i, j) \in Seq(Nat) /\ Len(File(i, j)) = j - i
           /\ \A k \in 1..(j - i) : File(i, j)[k] = i + k - 1
<1>1. j - i \in Nat /\ \A k \in 1..(j - i) : i + k - 1 \in Nat
  OBVIOUS
<1> QED
  BY <1>1 DEF File

LEMMA FileJoins ==
    ASSUME NEW i \in Nat, NEW j \in Nat, NEW k \in Nat, i <= j, j <= k
    PROVE  File(i, j) \o File(j, k) = File(i, k)
<1> DEFINE a == File(i, j)
           b == File(j, k)
           c == File(i, k)
<1>1. /\ a \in Seq(Nat) /\ Len(a) = j - i /\ \A n \in 1..(j - i) : a[n] = i + n - 1
      /\ b \in Seq(Nat) /\ Len(b) = k - j /\ \A n \in 1..(k - j) : b[n] = j + n - 1
      /\ c \in Seq(Nat) /\ Len(c) = k - i /\ \A n \in 1..(k - i) : c[n] = i + n - 1
  <2>1. i <= k
    OBVIOUS
  <2> HIDE DEF a, b, c
  <2>2. a \in Seq(Nat) /\ Len(a) = j - i /\ \A n \in 1..(j - i) : a[n] = i + n - 1
    BY FileIs DEF a
  <2>3. b \in Seq(Nat) /\ Len(b) = k - j /\ \A n \in 1..(k - j) : b[n] = j + n - 1
    BY FileIs DEF b
  <2>4. c \in Seq(Nat) /\ Len(c) = k - i /\ \A n \in 1..(k - i) : c[n] = i + n - 1
    BY <2>1, FileIs DEF c
  <2> QED
    BY <2>2, <2>3, <2>4
<1> HIDE DEF a, b, c
<1>2. a \o b \in Seq(Nat) /\ Len(a \o b) = k - i
  <2>1. a \in Seq(Nat) /\ b \in Seq(Nat)
    BY <1>1
  <2>2. a \o b \in Seq(Nat) /\ Len(a \o b) = Len(a) + Len(b)
    BY <2>1, ConcatProperties
  <2> QED
    BY <1>1, <2>2
<1>3. ASSUME NEW n \in 1..(k - i) PROVE (a \o b)[n] = c[n]
  <2>1. CASE n <= j - i
    <3>1. (a \o b)[n] = a[n]
      BY <1>1, <2>1
    <3> QED
      BY <1>1, <2>1, <3>1
  <2>2. CASE n > j - i
    <3>1. (a \o b)[n] = b[n - (j - i)]
      BY <1>1, <1>2, <2>2, ConcatProperties, SMTT(30)
    <3>2. n - (j - i) \in 1..(k - j)
      BY <2>2
    <3>3. b[n - (j - i)] = j + (n - (j - i)) - 1
      BY <1>1, <3>2
    <3> QED
      BY <1>1, <3>1, <3>3
  <2>3. n <= j - i \/ n > j - i
    OBVIOUS
  <2> QED
    BY <2>1, <2>2, <2>3
<1>4. a \o b = c
  BY <1>1, <1>2, <1>3, SeqEqual
<1> QED
  BY <1>4 DEF a, b, c

\* OP_READ inside a block returns that part of the block.
LEMMA FilePart ==
    ASSUME NEW i \in Nat, NEW j \in Nat, NEW k \in Nat, NEW n \in Nat, i <= j, k + n <= j - i
    PROVE  File(i + k, i + k + n) = SubSeq(File(i, j), k + 1, k + n)
<1> DEFINE a == File(i + k, i + k + n)
           c == File(i, j)
           d == SubSeq(c, k + 1, k + n)
<1>1. /\ a \in Seq(Nat) /\ Len(a) = n /\ \A m \in 1..n : a[m] = i + k + m - 1
  <2>1. i + k \in Nat /\ i + k + n \in Nat /\ i + k <= i + k + n /\ (i + k + n) - (i + k) = n
    OBVIOUS
  <2> QED
    BY <2>1, FileIs
<1>2. c \in Seq(Nat) /\ Len(c) = j - i /\ \A m \in 1..(j - i) : c[m] = i + m - 1
  BY FileIs
<1> HIDE DEF a, c
<1>3. d \in Seq(Nat) /\ Len(d) = n /\ \A m \in 1..n : d[m] = c[k + m]
  <2>1. \A m \in (k + 1)..(k + n) : c[m] \in Nat
    BY <1>2
  <2>2. /\ d \in Seq(Nat) /\ Len(d) = (IF k + 1 <= k + n THEN (k + n) - (k + 1) + 1 ELSE 0)
        /\ \A m \in 1..((k + n) - (k + 1) + 1) : d[m] = c[(k + 1) + m - 1]
    BY <2>1, SubSeqProperties, k + 1 \in Int, k + n \in Int
  <2> HIDE DEF d
  <2>3. (k + n) - (k + 1) + 1 = n /\ \A m \in 1..n : (k + 1) + m - 1 = k + m
    OBVIOUS
  <2> QED
    BY <2>2, <2>3
<1> HIDE DEF d
<1>4. ASSUME NEW m \in 1..n PROVE a[m] = d[m]
  <2>1. k + m \in 1..(j - i)
    OBVIOUS
  <2>2. d[m] = i + (k + m) - 1
    BY <1>2, <1>3, <2>1
  <2> QED
    BY <1>1, <2>2
<1>5. a = d
  BY <1>1, <1>3, <1>4, SeqEqual
<1> QED
  BY <1>5 DEF a, c, d

\* A block is the part of the file between two beginnings.
LEMMA RawBlockIs ==
    ASSUME size \in PayloadSizes, NEW b \in Blocks
    PROVE  /\ RawBlock(b) = File(PayloadOff + Begins(b), PayloadOff + Begins(b + 1))
           /\ RawBlock(b) \in Seq(Nat)
           /\ Len(RawBlock(b)) = Begins(b + 1) - Begins(b)
<1> DEFINE x == PayloadOff + (b + 1) * BlockSize
           y == PayloadOff + size
<1>1. PayloadOff \in Nat /\ size \in Nat /\ (b + 1) * BlockSize \in Nat
  BY BlockBounds, TransportAssumption
<1>2. x \in Nat /\ y \in Nat
  BY <1>1
<1>3. PayloadOff + Begins(b + 1) = IF x < y THEN x ELSE y
  BY <1>1 DEF Begins
<1> HIDE DEF x, y
<1>4. Min({x, y}) = IF x < y THEN x ELSE y
  BY <1>2 DEF Min
<1>5. Begins(b) \in Nat /\ Begins(b + 1) \in Nat /\ Begins(b) < Begins(b + 1)
      /\ Begins(b) = b * BlockSize
  BY BlockBounds
<1>6. RawBlock(b) = File(PayloadOff + Begins(b), PayloadOff + Begins(b + 1))
  BY <1>3, <1>4, <1>5 DEF RawBlock, x, y
<1>7. /\ PayloadOff + Begins(b) \in Nat /\ PayloadOff + Begins(b + 1) \in Nat
      /\ PayloadOff + Begins(b) <= PayloadOff + Begins(b + 1)
      /\ (PayloadOff + Begins(b + 1)) - (PayloadOff + Begins(b)) = Begins(b + 1) - Begins(b)
  BY <1>1, <1>5
<1> QED
  BY <1>6, <1>7, FileIs

----------------------------------------------------------------------------
(* The encoders.                                                           *)

CodingFits == coding \in [Blocks -> Codings]

LEMMA CodingIs ==
    ASSUME CodingFits, NEW b \in Blocks
    PROVE  /\ DOMAIN coding[b] = {Encoders[i] : i \in 1..4}
           /\ \A e \in DOMAIN coding[b] : coding[b][e] # Fail => coding[b][e] \in Nat
<1>1. coding[b] \in [{Encoders[i] : i \in 1..4} -> Nat \cup {Fail}]
  BY EncoderAssumption DEF CodingFits
<1> QED
  BY <1>1

\* The stream of an encoder that does not fail.
LEMMA StreamIs ==
    ASSUME size \in PayloadSizes, CodingFits, NEW b \in Blocks,
           NEW e \in DOMAIN coding[b], coding[b][e] # Fail
    PROVE  /\ Stream(b, e) \in Seq(StreamByte) /\ Len(Stream(b, e)) = coding[b][e]
           /\ \A i \in 1..coding[b][e] : Stream(b, e)[i] = <<b, e, i>>
<1>1. coding[b][e] \in Nat /\ e \in {Encoders[i] : i \in 1..4} /\ b \in Nat
  BY CodingIs, BlockBounds
<1> DEFINE n == coding[b][e]
           s == [i \in 1..n |-> <<b, e, i>>]
<1>2. ASSUME NEW i \in 1..n PROVE <<b, e, i>> \in StreamByte
  <2>1. i \in Nat
    BY <1>1
  <2> QED
    BY <1>1, <2>1 DEF StreamByte
<1>3. n \in Nat /\ \A i \in 1..n : s[i] = <<b, e, i>>
  BY <1>1
<1>4. s \in [1..n -> StreamByte]
  BY <1>2
<1> HIDE DEF n
<1>5. Stream(b, e) = s
  BY DEF Stream, n
<1> HIDE DEF s
<1>6. s \in Seq(StreamByte) /\ Len(s) = n
  BY <1>3, <1>4
<1> QED
  BY <1>3, <1>5, <1>6 DEF n

\* deflate_raw fails with its first encoder, or returns what one of them made.
LEMMA DeflateRawIs ==
    ASSUME size \in PayloadSizes, CodingFits, NEW b \in Blocks, DeflateRaw(b) # Fail
    PROVE  \E e \in DOMAIN coding[b] : coding[b][e] # Fail /\ DeflateRaw(b) = Stream(b, e)
<1> DEFINE Ok == {i \in 1..4 : coding[b][Encoders[i]] # Fail}
           Length(i) == coding[b][Encoders[i]]
           Beats(i, j) == Length(i) < Length(j) \/ (Length(i) = Length(j) /\ i <= j)
           Best == CHOOSE i \in Ok : \A j \in Ok : Beats(i, j)
           Weight(i) == 5 * Length(i) + i
           W == {Weight(i) : i \in Ok}
<1>1. 1 \in Ok /\ DeflateRaw(b) = Stream(b, Encoders[Best])
  BY DEF DeflateRaw
<1>2. \A i \in Ok : i \in 1..4 /\ Length(i) \in Nat /\ Encoders[i] \in DOMAIN coding[b]
  BY CodingIs
<1>3. \A i \in Ok : Length(i) # Fail
  OBVIOUS
<1> HIDE DEF Ok, Length
<1>4. W \in SUBSET Nat /\ W # {}
  BY <1>1, <1>2
<1>5. PICK w \in W : \A v \in W : w <= v
  BY <1>4, LeastExists
<1>6. PICK i \in Ok : w = Weight(i)
  BY <1>5
<1>7. ASSUME NEW j \in Ok PROVE Beats(i, j)
  <2>1. Weight(i) <= Weight(j)
    BY <1>5, <1>6
  <2>2. i \in 1..4 /\ j \in 1..4 /\ Length(i) \in Nat /\ Length(j) \in Nat
    BY <1>2
  <2> QED
    BY <2>1, <2>2
<1>8. \E k \in Ok : \A j \in Ok : Beats(k, j)
  BY <1>7
<1>9. Best \in Ok
  <2> HIDE DEF Beats
  <2> QED BY <1>8
<1> HIDE DEF Best
<1>10. Encoders[Best] \in DOMAIN coding[b] /\ coding[b][Encoders[Best]] # Fail
  BY <1>2, <1>3, <1>9 DEF Length
<1> QED
  BY <1>1, <1>10

\* What the cache holds of a block is nothing or a whole stream, shorter than
\* the block and not empty.
LEMMA WorthwhileIs ==
    ASSUME size \in PayloadSizes, CodingFits, NEW b \in Blocks, Worthwhile(b) # Raw
    PROVE  /\ Worthwhile(b) \in Seq(StreamByte) /\ Len(Worthwhile(b)) \in Nat \ {0}
           /\ Shrinks(b) /\ Worthwhile(b) = DeflateRaw(b)
           /\ \E e \in DOMAIN coding[b] : coding[b][e] # Fail /\ Worthwhile(b) = Stream(b, e)
<1>1. /\ DeflateRaw(b) # Fail /\ DeflateRaw(b) # <<>> /\ Len(DeflateRaw(b)) < Len(RawBlock(b))
      /\ Worthwhile(b) = DeflateRaw(b)
  BY DEF Worthwhile
<1>2. PICK e \in DOMAIN coding[b] : coding[b][e] # Fail /\ DeflateRaw(b) = Stream(b, e)
  BY <1>1, DeflateRawIs
<1>3. Stream(b, e) \in Seq(StreamByte)
  BY <1>2, StreamIs
<1>4. Len(Stream(b, e)) \in Nat \ {0}
  BY <1>1, <1>2, <1>3, EmptySeq
<1> QED
  BY <1>1, <1>2, <1>3, <1>4 DEF Shrinks

\* Only the block a stream was made of comes out of it.
LEMMA InflateIs ==
    ASSUME size \in PayloadSizes, CodingFits, NEW b \in Blocks, Worthwhile(b) # Raw
    PROVE  (CHOOSE i \in Inflate(Worthwhile(b)) : TRUE) = RawBlock(b)
<1> DEFINE s == Worthwhile(b)
<1>1. PICK e \in DOMAIN coding[b] : coding[b][e] # Fail /\ s = Stream(b, e)
  BY WorthwhileIs
<1>2. Len(s) \in Nat \ {0} /\ Len(s) = coding[b][e] /\ s[1] = <<b, e, 1>>
  <2>1. Len(s) \in Nat \ {0}
    BY WorthwhileIs
  <2>2. Len(s) = coding[b][e] /\ \A i \in 1..coding[b][e] : s[i] = <<b, e, i>>
    BY <1>1, StreamIs
  <2> HIDE DEF s
  <2> QED
    BY <2>1, <2>2
<1> HIDE DEF s
<1>3. RawBlock(b) \in Inflate(s)
  BY <1>1 DEF Inflate
<1>4. ASSUME NEW i \in Inflate(s) PROVE i = RawBlock(b)
  <2>1. PICK c \in Blocks :
          i \in {RawBlock(c) : x \in {y \in DOMAIN coding[c] : coding[c][y] # Fail /\ s = Stream(c, y)}}
    BY DEF Inflate
  <2>2. PICK x \in DOMAIN coding[c] : i = RawBlock(c) /\ coding[c][x] # Fail /\ s = Stream(c, x)
    BY <2>1
  <2>3. Len(s) = coding[c][x] /\ \A k \in 1..coding[c][x] : s[k] = <<c, x, k>>
    BY <2>2, StreamIs
  <2>4. s[1] = <<c, x, 1>>
    BY <1>2, <2>3
  <2>5. c = b
    BY <1>2, <2>4
  <2> QED
    BY <2>2, <2>5
<1> QED
  BY <1>3, <1>4 DEF s

----------------------------------------------------------------------------
(* The invariant.                                                          *)

Served == size \in PayloadSizes /\ CodingFits

\* The cache holds of each block what would be computed again, and of the
\* blocks gone through it holds it already.
CacheInv ==
    /\ host \in {"prepare", "serve"} /\ next \in 0..BlockCount
    /\ host = "serve" => next = BlockCount
    /\ cache = [b \in Blocks |-> cache[b]]
    /\ \A b \in Blocks :
         /\ cache[b] = Unset \/ cache[b] = Worthwhile(b)
         /\ b < next => cache[b] = Worthwhile(b)

\* The node has a beginning of s.
Partial(s) == total = Len(s) /\ Len(got) \in 0..Len(s) /\ got = SubSeq(s, 1, Len(got))

FetchInv ==
    /\ block \in 0..BlockCount /\ mode \in {"ask", "deflate", "raw"}
    /\ mode # "ask" => block \in Blocks
    /\ mode = "ask" => got = <<>>
    /\ mode = "raw" => Partial(RawBlock(block))
    /\ mode = "deflate" => Worthwhile(block) # Raw /\ Partial(Worthwhile(block))

Description ==
    [payload_off |-> PayloadOff, payload_size |-> size,
     block_count |-> BlockCount, block_size |-> BlockSize]

ImageInv ==
    /\ desc # Unset => desc = Description
    /\ image = File(PayloadOff, PayloadOff + Begins(block))

\* The transfer has cost what the blocks fetched were predicted to cost, and
\* a block comes raw only where the prediction has it raw.
CostInv ==
    (\A b \in Blocks : DeflateRaw(b) # Fail) =>
        /\ sent = Predicted(block)
        /\ mode = "raw" => ~Shrinks(block)

TransferInv == Served /\ CacheInv /\ FetchInv /\ ImageInv /\ CostInv

----------------------------------------------------------------------------
(* What the operators return in its states.                                *)

LEMMA SelectionIs ==
    ASSUME Served, NEW b \in Blocks, DeflateRaw(b) # Fail
    PROVE  /\ Shrinks(b) <=> Worthwhile(b) # Raw
           /\ Shrinks(b) => SelectedLen(b) = Len(Worthwhile(b))
           /\ ~Shrinks(b) => SelectedLen(b) = Len(RawBlock(b))
<1>1. PICK e \in DOMAIN coding[b] : coding[b][e] # Fail /\ DeflateRaw(b) = Stream(b, e)
  BY DeflateRawIs DEF Served
<1>2. DeflateRaw(b) \in Seq(StreamByte)
  BY <1>1, StreamIs DEF Served
<1>3. DeflateRaw(b) # Raw
  BY <1>2, RawAssumption
<1> QED
  BY <1>3 DEF Shrinks, Worthwhile, SelectedLen

LEMMA PredictedIs ==
    ASSUME Served
    PROVE  /\ Predicted(0) = [bytes |-> 0, deflated |-> 0, packets |-> 0]
           /\ \A b \in Blocks :
                Predicted(b + 1) =
                  [bytes |-> Predicted(b).bytes + SelectedLen(b),
                   deflated |-> Predicted(b).deflated + (IF Shrinks(b) THEN 1 ELSE 0),
                   packets |-> Predicted(b).packets + CeilDiv(SelectedLen(b), Packet)]
<1> DEFINE B == [b \in Blocks |-> SelectedLen(b)]
           D == [b \in Blocks |-> IF Shrinks(b) THEN 1 ELSE 0]
           P == [b \in Blocks |-> CeilDiv(SelectedLen(b), Packet)]
<1>1. BlockCount \in Nat /\ Blocks = 0..(BlockCount - 1)
  BY BlockBounds DEF Served, Blocks
<1>2. \A n : Predicted(n) = [bytes |-> RunningSum(B, BlockCount)[n],
                             deflated |-> RunningSum(D, BlockCount)[n],
                             packets |-> RunningSum(P, BlockCount)[n]]
  BY DEF Predicted
<1>3. \A b \in Blocks : /\ B[b] = SelectedLen(b) /\ D[b] = (IF Shrinks(b) THEN 1 ELSE 0)
                        /\ P[b] = CeilDiv(SelectedLen(b), Packet)
  OBVIOUS
<1> HIDE DEF B, D, P
<1>4. /\ RunningSum(B, BlockCount)[0] = 0 /\ RunningSum(D, BlockCount)[0] = 0
      /\ RunningSum(P, BlockCount)[0] = 0
  BY <1>1, RunningSumIs
<1>5. ASSUME NEW b \in Blocks
      PROVE  /\ RunningSum(B, BlockCount)[b + 1] = RunningSum(B, BlockCount)[b] + B[b]
             /\ RunningSum(D, BlockCount)[b + 1] = RunningSum(D, BlockCount)[b] + D[b]
             /\ RunningSum(P, BlockCount)[b + 1] = RunningSum(P, BlockCount)[b] + P[b]
  BY <1>1, RunningSumIs
<1> QED
  BY <1>2, <1>3, <1>4, <1>5

LEMMA CachedIs ==
    ASSUME CacheInv, NEW b \in Blocks
    PROVE  CachedDeflateBlock(b) = Worthwhile(b)
BY DEF CacheInv, CachedDeflateBlock

\* While serving, a lookup finds its block in the cache.
LEMMA LookupKeeps ==
    ASSUME Served, CacheInv, host = "serve", NEW b, NEW off, NEW n, Lookup(b, off, n)
    PROVE  cache' = cache
<1>1. CASE b \notin Blocks
  BY <1>1 DEF Lookup
<1>2. CASE b \in Blocks
  <2>1. b < next
    BY <1>2, BlockBounds DEF Served, CacheInv, Blocks
  <2>2. CachedDeflateBlock(b) = cache[b]
    BY <1>2, <2>1, CachedIs DEF CacheInv
  <2>3. cache' = cache \/ cache' = [cache EXCEPT ![b] = cache[b]]
    BY <2>2 DEF Lookup
  <2>4. cache = [c \in Blocks |-> cache[c]]
    BY DEF CacheInv
  <2> QED
    BY <2>3, <2>4
<1> QED
  BY <1>1, <1>2

\* A slice within the stream is never refused.
LEMMA SliceIs ==
    ASSUME Served, CacheInv, NEW b \in Blocks, Worthwhile(b) # Raw,
           NEW k \in Nat, NEW n \in 0..ReadMax, n = 0 => k = 0, k + n <= Len(Worthwhile(b))
    PROVE  LET r == DeflateBlock(b, k, n) IN
           r # Raw /\ r.total = Len(Worthwhile(b)) /\ r.bytes = SubSeq(Worthwhile(b), k + 1, k + n)
<1> DEFINE s == Worthwhile(b)
           r == [total |-> Len(s), bytes |-> SubSeq(s, k + 1, k + n)]
<1>1. s \in Seq(StreamByte) /\ Len(s) \in Nat
  BY WorthwhileIs DEF Served
<1>2. ~(n > ReadMax) /\ ~(n = 0 /\ k # 0) /\ ~(k + n > Len(s))
  BY <1>1, TransportAssumption
<1>3. CachedDeflateBlock(b) = s
  BY CachedIs
<1>4. DeflateBlock(b, k, n) = r
  BY <1>2, <1>3 DEF DeflateBlock, Portion
<1>5. SubSeq(s, k + 1, k + n) \in Seq(StreamByte)
  <2> HIDE DEF s
  <2>1. \A i \in (k + 1)..(k + n) : s[i] \in StreamByte
    BY <1>1, <1>2, ElementOfSeq
  <2> QED
    BY <2>1, SubSeqProperties, k + 1 \in Int, k + n \in Int
<1> HIDE DEF s
<1>6. r \in [total : Nat, bytes : Seq(StreamByte)]
  BY <1>1, <1>5
<1>7. r # Raw
  BY <1>6, RawAssumption
<1> QED
  BY <1>4, <1>7 DEF s

LEMMA RefusedIs ==
    ASSUME CacheInv, NEW b \in Blocks, Worthwhile(b) = Raw
    PROVE  DeflateBlock(b, 0, 0) = Raw
BY CachedIs DEF DeflateBlock

\* The length the node computes is that of the block.
LEMMA RawLenIs ==
    ASSUME Served, desc = Description, block \in Blocks
    PROVE  RawLen = Len(RawBlock(block))
<1> DEFINE x == BlockSize
           y == size - block * BlockSize
<1>1. /\ block * BlockSize \in Nat /\ size \in Nat /\ BlockSize \in Nat
      /\ Begins(block) = block * BlockSize
      /\ (block + 1) * BlockSize = block * BlockSize + BlockSize
  BY BlockBounds, TransportAssumption DEF Served
<1>2. x \in Int /\ y \in Int
  BY <1>1
<1>3. RawLen = Min({x, y})
  BY DEF RawLen, Description
<1>4. Begins(block + 1) - Begins(block) = IF x < y THEN x ELSE y
  BY <1>1 DEF Begins
<1> HIDE DEF x, y
<1>5. Min({x, y}) = IF x < y THEN x ELSE y
  BY <1>2 DEF Min
<1> QED
  BY <1>3, <1>4, <1>5, RawBlockIs DEF Served

\* One more slice of s, and the node has a longer beginning of it.
LEMMA SliceJoins ==
    ASSUME NEW S, NEW s \in Seq(S), NEW k \in 0..Len(s), NEW n \in 0..(Len(s) - k)
    PROVE  /\ SubSeq(s, 1, k) \o SubSeq(s, k + 1, k + n) = SubSeq(s, 1, k + n)
           /\ Len(SubSeq(s, 1, k + n)) = k + n
<1>1. Len(s) \in Nat
  OBVIOUS
<1>2. 1 \in 1..(Len(s) + 1) /\ k \in (1 - 1)..Len(s) /\ k + n \in k..Len(s)
  BY <1>1
<1>3. SubSeq(s, 1, k) \o SubSeq(s, k + 1, k + n) = SubSeq(s, 1, k + n)
  BY <1>2, ConcatAdjacentSubSeq
<1>4. Len(SubSeq(s, 1, k + n)) = k + n
  <2>1. \A i \in 1..(k + n) : s[i] \in S
    BY <1>1, ElementOfSeq
  <2>2. Len(SubSeq(s, 1, k + n)) = IF 1 <= k + n THEN k + n - 1 + 1 ELSE 0
    BY <2>1, SubSeqProperties, k + n \in Int
  <2> QED
    BY <2>2
<1> QED
  BY <1>3, <1>4

----------------------------------------------------------------------------
(* The steps.                                                              *)

\* The container and what the encoders make of it never change.
LEMMA ServedKept ==
    ASSUME UNCHANGED served
    PROVE  /\ Served' <=> Served
           /\ BlockCount' = BlockCount /\ Blocks' = Blocks /\ Description' = Description
           /\ \A b : /\ Begins(b)' = Begins(b) /\ RawBlock(b)' = RawBlock(b)
                     /\ DeflateRaw(b)' = DeflateRaw(b) /\ Worthwhile(b)' = Worthwhile(b)
                     /\ Shrinks(b)' = Shrinks(b) /\ Predicted(b)' = Predicted(b)
<1>1. size' = size /\ coding' = coding
  BY DEF served
<1>2. BlockCount' = BlockCount /\ Blocks' = Blocks
  BY <1>1 DEF BlockCount, Blocks
<1>3. \A b : Begins(b)' = Begins(b) /\ RawBlock(b)' = RawBlock(b)
  BY <1>1 DEF Begins, RawBlock
<1>4. \A b : DeflateRaw(b)' = DeflateRaw(b)
  BY <1>1 DEF DeflateRaw, Stream
<1>5. \A b : Worthwhile(b)' = Worthwhile(b) /\ Shrinks(b)' = Shrinks(b)
  BY <1>3, <1>4 DEF Worthwhile, Shrinks
<1>6. \A b : SelectedLen(b)' = SelectedLen(b)
  BY <1>3, <1>4, <1>5 DEF SelectedLen
<1>7. \A b : Predicted(b)' = Predicted(b)
  BY <1>2, <1>5, <1>6 DEF Predicted
<1>8. Served' <=> Served
  BY <1>1, <1>2 DEF Served, CodingFits
<1> QED
  BY <1>1, <1>2, <1>3, <1>4, <1>5, <1>7, <1>8 DEF Description

\* The node's part, when the node does nothing.
LEMMA NodeKept ==
    ASSUME UNCHANGED <<served, desc, fetch, image, sent>>
    PROVE  FetchInv /\ ImageInv /\ CostInv => (FetchInv /\ ImageInv /\ CostInv)'
<1>1. UNCHANGED <<size, coding, desc, block, mode, total, got, image, sent>> /\ UNCHANGED served
  BY DEF served, fetch
<1>2. FetchInv => FetchInv'
  BY <1>1, ServedKept DEF FetchInv, Partial
<1>3. ImageInv => ImageInv'
  BY <1>1, ServedKept DEF ImageInv
<1>4. CostInv => CostInv'
  BY <1>1, ServedKept DEF CostInv
<1> QED
  BY <1>2, <1>3, <1>4

\* The seeder's part, when the seeder does nothing.
LEMMA CacheKept ==
    ASSUME UNCHANGED <<served, host, next, cache>>
    PROVE  CacheInv => CacheInv'
BY ServedKept DEF CacheInv, served

LEMMA TransferStart == Init => TransferInv
<1> SUFFICES ASSUME Init PROVE TransferInv
  OBVIOUS
<1>1. Served
  BY DEF Init, Served, CodingFits
<1>2. /\ BlockCount \in Nat /\ Begins(0) = 0 /\ 0 \in 0..BlockCount
      /\ \A b \in Blocks : ~(b < 0)
  BY <1>1, BlockBounds DEF Served
<1>3. CacheInv
  <2>1. cache = [b \in Blocks |-> Unset] /\ host = "prepare" /\ next = 0
    BY DEF Init
  <2>2. \A b \in Blocks : cache[b] = Unset
    BY <2>1
  <2> QED
    BY <1>2, <2>1, <2>2 DEF CacheInv
<1>4. FetchInv
  BY <1>2 DEF Init, FetchInv
<1>5. ImageInv
  <2>1. File(PayloadOff, PayloadOff) = <<>>
    BY FileIs, EmptySeq, TransportAssumption
  <2> QED
    BY <1>2, <2>1, TransportAssumption DEF Init, ImageInv
<1>6. CostInv
  BY <1>1, PredictedIs DEF Init, CostInv
<1> QED
  BY <1>1, <1>3, <1>4, <1>5, <1>6 DEF TransferInv

LEMMA PrepareStep == TransferInv /\ Prepare => TransferInv'
<1> SUFFICES ASSUME TransferInv, Prepare PROVE TransferInv'
  OBVIOUS
<1>1. /\ UNCHANGED <<served, desc, fetch, image, sent>> /\ UNCHANGED served
      /\ host = "prepare" /\ host' = host
      /\ next < BlockCount /\ next' = next + 1
      /\ cache' = [cache EXCEPT ![next] = CachedDeflateBlock(next)]
  BY DEF Prepare, node
<1>2. /\ Served /\ BlockCount \in Nat /\ Blocks = 0..(BlockCount - 1)
      /\ next \in Blocks /\ next + 1 \in 0..BlockCount
  BY <1>1, BlockBounds DEF TransferInv, Served, CacheInv, Blocks
<1>3. CachedDeflateBlock(next) = Worthwhile(next)
  BY <1>2, CachedIs DEF TransferInv
<1>4. cache' = [b \in Blocks |-> IF b = next THEN Worthwhile(b) ELSE cache[b]]
  BY <1>1, <1>2, <1>3 DEF TransferInv, CacheInv
<1>5. \A b \in Blocks : /\ cache'[b] = Unset \/ cache'[b] = Worthwhile(b)
                        /\ b < next + 1 => cache'[b] = Worthwhile(b)
  BY <1>2, <1>4 DEF TransferInv, CacheInv
<1>6. cache' = [b \in Blocks |-> cache'[b]]
  BY <1>4
<1>7. CacheInv'
  BY <1>1, <1>2, <1>5, <1>6, ServedKept DEF CacheInv
<1> QED
  BY <1>1, <1>7, NodeKept, ServedKept DEF TransferInv

LEMMA HostStep == TransferInv /\ (OpenLink \/ Restart) => TransferInv'
<1> SUFFICES ASSUME TransferInv, OpenLink \/ Restart PROVE TransferInv'
  OBVIOUS
<1>1. UNCHANGED <<served, desc, fetch, image, sent>> /\ UNCHANGED served
  BY DEF OpenLink, Restart, node
<1>2. CASE OpenLink
  <2>1. host' = "serve" /\ next = BlockCount /\ UNCHANGED <<next, cache>>
    BY <1>2 DEF OpenLink, Prepared
  <2>2. CacheInv
    BY DEF TransferInv
  <2>3. CacheInv'
    BY <1>1, <2>1, <2>2, ServedKept DEF CacheInv
  <2> QED
    BY <1>1, <2>3, NodeKept, ServedKept DEF TransferInv
<1>3. CASE Restart
  <2>1. host' = "prepare" /\ next' = 0 /\ cache' = [b \in Blocks |-> Unset]
    BY <1>3 DEF Restart
  <2>2. cache' = [b \in Blocks |-> cache'[b]] /\ \A b \in Blocks : cache'[b] = Unset
    BY <2>1
  <2>3. 0 \in 0..BlockCount /\ \A b \in Blocks : ~(b < 0)
    BY BlockBounds DEF TransferInv, Served
  <2>4. CacheInv'
    BY <1>1, <2>1, <2>2, <2>3, ServedKept DEF CacheInv
  <2> QED
    BY <1>1, <2>4, NodeKept, ServedKept DEF TransferInv
<1> QED
  BY <1>2, <1>3

\* The node asks, and starts on the stream or on the raw block.
LEMMA AskStep == TransferInv /\ AskLength => TransferInv' /\ UNCHANGED cache
<1> SUFFICES ASSUME TransferInv, AskLength PROVE TransferInv' /\ UNCHANGED cache
  OBVIOUS
<1>1. /\ UNCHANGED <<size, coding, host, next, desc, block, got, image, sent>> /\ UNCHANGED served
      /\ host = "serve" /\ desc = Description /\ block < BlockCount
      /\ mode = "ask" /\ Lookup(block, 0, 0)
  BY DEF AskLength, Fetching, served, TransferInv, ImageInv, Description
<1>2. /\ Served /\ CacheInv /\ FetchInv /\ ImageInv /\ CostInv
      /\ BlockCount \in Nat /\ block \in Blocks /\ got = <<>>
  BY <1>1, BlockBounds DEF TransferInv, Served, FetchInv, Blocks
<1>3. cache' = cache
  BY <1>1, <1>2, LookupKeeps
<1>4. CacheInv' /\ Served'
  BY <1>1, <1>2, <1>3, CacheKept, ServedKept
<1>5. \/ /\ mode' = "raw" /\ total' = Len(RawBlock(block)) /\ Worthwhile(block) = Raw
      \/ /\ mode' = "deflate" /\ total' = Len(Worthwhile(block)) /\ Worthwhile(block) # Raw
  <2>1. CASE Worthwhile(block) = Raw
    <3>1. DeflateBlock(block, 0, 0) = Raw
      BY <1>2, <2>1, RefusedIs
    <3>2. mode' = "raw" /\ total' = RawLen
      BY <3>1 DEF AskLength
    <3> QED
      BY <1>1, <1>2, <2>1, <3>2, RawLenIs
  <2>2. CASE Worthwhile(block) # Raw
    <3>1. 0 \in Nat /\ 0 \in 0..ReadMax /\ 0 + 0 <= Len(Worthwhile(block))
      BY <1>2, <2>2, WorthwhileIs, TransportAssumption DEF Served
    <3>2. DeflateBlock(block, 0, 0) # Raw /\ DeflateBlock(block, 0, 0).total = Len(Worthwhile(block))
      BY <1>2, <2>2, <3>1, SliceIs
    <3>3. mode' = "deflate" /\ total' = DeflateBlock(block, 0, 0).total
      BY <3>2 DEF AskLength
    <3> QED
      BY <2>2, <3>2, <3>3
  <2> QED
    BY <2>1, <2>2
<1>6. /\ got' = <<>> /\ Len(<<>>) = 0 /\ Len(RawBlock(block)) \in Nat
      /\ Worthwhile(block) # Raw => Len(Worthwhile(block)) \in Nat
      /\ \A s : SubSeq(s, 1, 0) = <<>>
  <2>1. \A s : SubSeq(s, 1, 0) = <<>>
    BY SubSeqEmpty
  <2>2. RawBlock(block) \in Seq(Nat)
    BY <1>2, RawBlockIs DEF Served
  <2> QED
    BY <1>1, <1>2, <2>1, <2>2, WorthwhileIs, EmptySeq DEF Served
<1>7. FetchInv'
  <2>1. mode' = "raw" => Partial(RawBlock(block))'
    BY <1>1, <1>5, <1>6, ServedKept DEF Partial
  <2>2. mode' = "deflate" => Worthwhile(block)' # Raw /\ Partial(Worthwhile(block))'
    BY <1>1, <1>5, <1>6, ServedKept DEF Partial
  <2> QED
    BY <1>1, <1>2, <1>5, <2>1, <2>2, ServedKept DEF FetchInv
<1>8. ImageInv'
  BY <1>1, <1>2, ServedKept DEF ImageInv
<1>9. CostInv'
  <2>1. (\A b \in Blocks : DeflateRaw(b) # Fail) /\ mode' = "raw" => ~Shrinks(block)
    BY <1>2, <1>5, SelectionIs
  <2> QED
    BY <1>1, <1>2, <2>1, ServedKept DEF CostInv
<1> QED
  BY <1>3, <1>4, <1>7, <1>8, <1>9 DEF TransferInv

LEMMA SliceStep ==
    ASSUME TransferInv, NEW n \in 1..ReadMax, FetchSlice(n)
    PROVE  TransferInv' /\ UNCHANGED cache
<1> DEFINE s == Worthwhile(block)
<1>1. /\ UNCHANGED <<size, coding, host, next, desc, block, image, sent>> /\ UNCHANGED served
      /\ host = "serve" /\ mode = "deflate" /\ n <= total - Len(got) /\ Lookup(block, Len(got), n)
  BY DEF FetchSlice, Fetching, served
<1>2. /\ Served /\ CacheInv /\ FetchInv /\ ImageInv /\ CostInv
      /\ block \in Blocks /\ s # Raw /\ Partial(s)
  BY <1>1 DEF TransferInv, FetchInv
<1>3. cache' = cache
  BY <1>1, <1>2, LookupKeeps
<1>4. CacheInv' /\ Served'
  BY <1>1, <1>2, <1>3, CacheKept, ServedKept
<1>5. /\ s \in Seq(StreamByte) /\ Len(s) \in Nat /\ Len(got) \in 0..Len(s)
      /\ n \in 0..(Len(s) - Len(got)) /\ n \in 0..ReadMax /\ n # 0 /\ Len(got) + n <= Len(s)
  <2>1. s \in Seq(StreamByte) /\ Len(s) \in Nat
    BY <1>2, WorthwhileIs DEF Served
  <2>2. total = Len(s) /\ Len(got) \in 0..Len(s)
    BY <1>2 DEF Partial
  <2> HIDE DEF s
  <2> QED
    BY <1>1, <2>1, <2>2, TransportAssumption
<1>6. /\ DeflateBlock(block, Len(got), n) # Raw
      /\ DeflateBlock(block, Len(got), n).bytes = SubSeq(s, Len(got) + 1, Len(got) + n)
  BY <1>2, <1>5, SliceIs
<1>7. UNCHANGED <<mode, total>> /\ got' = got \o SubSeq(s, Len(got) + 1, Len(got) + n)
  BY <1>6 DEF FetchSlice
<1>8. got' = SubSeq(s, 1, Len(got) + n) /\ Len(got') = Len(got) + n
  <2> HIDE DEF s
  <2>1. got = SubSeq(s, 1, Len(got))
    BY <1>2 DEF Partial
  <2>2. /\ SubSeq(s, 1, Len(got)) \o SubSeq(s, Len(got) + 1, Len(got) + n) = SubSeq(s, 1, Len(got) + n)
        /\ Len(SubSeq(s, 1, Len(got) + n)) = Len(got) + n
    BY <1>5, SliceJoins
  <2> QED
    BY <1>7, <2>1, <2>2
<1>9. Partial(Worthwhile(block))'
  <2>1. Worthwhile(block)' = s
    BY <1>1, ServedKept
  <2>2. total' = Len(s) /\ Len(got') \in 0..Len(s) /\ got' = SubSeq(s, 1, Len(got'))
    BY <1>2, <1>5, <1>7, <1>8 DEF Partial
  <2> QED
    BY <2>1, <2>2 DEF Partial
<1>10. FetchInv'
  BY <1>1, <1>2, <1>7, <1>9, ServedKept DEF FetchInv
<1>11. ImageInv' /\ CostInv'
  BY <1>1, <1>2, <1>7, ServedKept DEF ImageInv, CostInv
<1> QED
  BY <1>3, <1>4, <1>10, <1>11 DEF TransferInv

LEMMA RawStep ==
    ASSUME TransferInv, NEW n \in 1..Packet, FetchRaw(n)
    PROVE  TransferInv' /\ UNCHANGED cache
<1> DEFINE s == RawBlock(block)
           k == Len(got)
<1>1. /\ UNCHANGED <<size, coding, host, next, cache, desc, block, mode, total, image, sent>>
      /\ UNCHANGED served
      /\ mode = "raw" /\ n <= total - k /\ desc = Description
      /\ LET r == Read(PayloadOff + block * BlockSize + k, n) IN r # Raw /\ got' = got \o r
  <2>1. /\ UNCHANGED <<size, coding, host, next, cache, desc, block, mode, total, image, sent>>
        /\ UNCHANGED served /\ mode = "raw" /\ n <= total - k /\ desc # Unset
        /\ LET r == Read(desc.payload_off + block * desc.block_size + k, n)
           IN  r # Raw /\ got' = got \o r
    BY DEF FetchRaw, Fetching, served
  <2>2. desc = Description
    BY <2>1 DEF TransferInv, ImageInv
  <2>3. desc.payload_off = PayloadOff /\ desc.block_size = BlockSize
    BY <2>2 DEF Description
  <2> QED
    BY <2>1, <2>2, <2>3
<1>2. /\ Served /\ CacheInv /\ FetchInv /\ ImageInv /\ CostInv
      /\ block \in Blocks /\ Partial(s)
  BY <1>1 DEF TransferInv, FetchInv
<1>3. CacheInv' /\ Served'
  BY <1>1, <1>2, CacheKept, ServedKept
<1>4. /\ s \in Seq(Nat) /\ Len(s) \in Nat /\ k \in 0..Len(s) /\ k \in Nat /\ n \in Nat
      /\ n \in 0..(Len(s) - k) /\ k + n <= Len(s) /\ total = Len(s)
  <2>1. s \in Seq(Nat) /\ Len(s) \in Nat
    BY <1>2, RawBlockIs DEF Served
  <2>2. total = Len(s) /\ k \in 0..Len(s)
    BY <1>2 DEF Partial
  <2> HIDE DEF s, k
  <2> QED
    BY <1>1, <2>1, <2>2, TransportAssumption
<1>5. got' = got \o SubSeq(s, k + 1, k + n)
  <2> DEFINE i == PayloadOff + Begins(block)
             j == PayloadOff + Begins(block + 1)
  <2>1. /\ i \in Nat /\ j \in Nat /\ i <= j /\ Begins(block) = block * BlockSize
        /\ s = File(i, j) /\ Len(s) = j - i
    <3>1. /\ Begins(block) \in Nat /\ Begins(block + 1) \in Nat /\ Begins(block) < Begins(block + 1)
          /\ Begins(block) = block * BlockSize
      BY <1>2, BlockBounds DEF Served
    <3>2. s = File(i, j) /\ Len(s) = Begins(block + 1) - Begins(block)
      BY <1>2, RawBlockIs DEF Served
    <3> HIDE DEF s
    <3> QED
      BY <3>1, <3>2, TransportAssumption
  <2>2. got' = got \o File(i + k, i + k + n)
    BY <1>1, <2>1 DEF Read
  <2> HIDE DEF i, j, s, k
  <2>3. File(i + k, i + k + n) = SubSeq(s, k + 1, k + n)
    <3>1. k \in Nat /\ n \in Nat /\ i \in Nat /\ j \in Nat /\ i <= j /\ k + n <= j - i
      BY <1>4, <2>1
    <3>2. File(i + k, i + k + n) = SubSeq(File(i, j), k + 1, k + n)
      BY <3>1, FilePart, SMTT(30)
    <3> QED
      BY <2>1, <3>2
  <2> QED
    BY <2>2, <2>3
<1>6. got' = SubSeq(s, 1, k + n) /\ Len(got') = k + n
  <2> HIDE DEF s
  <2>1. got = SubSeq(s, 1, k)
    BY <1>2 DEF Partial
  <2> HIDE DEF k
  <2>2. SubSeq(s, 1, k) \o SubSeq(s, k + 1, k + n) = SubSeq(s, 1, k + n) /\ Len(SubSeq(s, 1, k + n)) = k + n
    BY <1>4, SliceJoins
  <2> QED
    BY <1>5, <2>1, <2>2
<1>7. Partial(RawBlock(block))'
  <2>1. RawBlock(block)' = s
    BY <1>1, ServedKept
  <2>2. total' = Len(s) /\ Len(got') \in 0..Len(s) /\ got' = SubSeq(s, 1, Len(got'))
    BY <1>1, <1>4, <1>6, SMTT(30)
  <2> QED
    BY <2>1, <2>2 DEF Partial
<1>8. FetchInv'
  BY <1>1, <1>2, <1>7, ServedKept DEF FetchInv
<1>9. ImageInv' /\ CostInv'
  BY <1>1, <1>2, ServedKept DEF ImageInv, CostInv
<1> QED
  BY <1>1, <1>3, <1>8, <1>9 DEF TransferInv

\* A block is complete: what came is the block, or its stream, and the payload
\* grows by exactly this block.
LEMMA EndStep == TransferInv /\ EndBlock => TransferInv' /\ UNCHANGED cache
<1> SUFFICES ASSUME TransferInv, EndBlock PROVE TransferInv' /\ UNCHANGED cache
  OBVIOUS
<1>1. /\ UNCHANGED <<size, coding, host, next, cache, desc>> /\ UNCHANGED served
      /\ mode # "ask" /\ Len(got) = total
      /\ image' = image \o (IF mode = "raw" THEN got ELSE CHOOSE i \in Inflate(got) : TRUE)
      /\ sent' = [bytes |-> sent.bytes + total,
                  deflated |-> sent.deflated + (IF mode = "deflate" THEN 1 ELSE 0),
                  packets |-> sent.packets + CeilDiv(total, Packet)]
      /\ block' = block + 1 /\ mode' = "ask" /\ got' = <<>>
  BY DEF EndBlock, served
<1>2. /\ Served /\ CacheInv /\ FetchInv /\ ImageInv /\ CostInv /\ block \in Blocks
  BY <1>1 DEF TransferInv, FetchInv
<1>3. CacheInv' /\ Served'
  BY <1>1, <1>2, CacheKept, ServedKept
<1>4. \/ mode = "raw" /\ got = RawBlock(block) /\ total = Len(RawBlock(block))
      \/ /\ mode = "deflate" /\ Worthwhile(block) # Raw
         /\ got = Worthwhile(block) /\ total = Len(Worthwhile(block))
  <2>1. CASE mode = "raw"
    <3>1. RawBlock(block) \in Seq(Nat) /\ Partial(RawBlock(block))
      BY <1>2, <2>1, RawBlockIs DEF Served, FetchInv
    <3>2. got = RawBlock(block) /\ total = Len(RawBlock(block))
      BY <1>1, <3>1, SubSeqFull DEF Partial
    <3> QED
      BY <2>1, <3>2
  <2>2. CASE mode = "deflate"
    <3>1. Worthwhile(block) # Raw /\ Partial(Worthwhile(block))
      BY <1>2, <2>2 DEF FetchInv
    <3>2. Worthwhile(block) \in Seq(StreamByte)
      BY <1>2, <3>1, WorthwhileIs DEF Served
    <3>3. got = Worthwhile(block) /\ total = Len(Worthwhile(block))
      BY <1>1, <3>1, <3>2, SubSeqFull DEF Partial
    <3> QED
      BY <2>2, <3>1, <3>3
  <2> QED
    BY <1>1, <1>2, <2>1, <2>2 DEF FetchInv
<1>5. image' = image \o RawBlock(block)
  <2>1. CASE mode = "raw" /\ got = RawBlock(block)
    BY <1>1, <2>1
  <2>2. CASE mode = "deflate" /\ Worthwhile(block) # Raw /\ got = Worthwhile(block)
    <3>1. (CHOOSE i \in Inflate(got) : TRUE) = RawBlock(block)
      BY <1>2, <2>2, InflateIs DEF Served
    <3> QED
      BY <1>1, <2>2, <3>1
  <2> QED
    BY <1>4, <2>1, <2>2
<1>6. image' = File(PayloadOff, PayloadOff + Begins(block + 1))
  <2>1. /\ Begins(block) \in Nat /\ Begins(block + 1) \in Nat /\ Begins(block) < Begins(block + 1)
    BY <1>2, BlockBounds DEF Served
  <2> DEFINE i == PayloadOff
             j == PayloadOff + Begins(block)
             k == PayloadOff + Begins(block + 1)
  <2>2. i \in Nat /\ j \in Nat /\ k \in Nat /\ i <= j /\ j <= k
    BY <2>1, TransportAssumption
  <2>3. image' = File(i, j) \o File(j, k)
    BY <1>2, <1>5, RawBlockIs DEF Served, ImageInv
  <2> HIDE DEF i, j, k
  <2>4. image' = File(i, k)
    BY <2>2, <2>3, FileJoins
  <2> QED
    BY <2>4 DEF i, k
<1>7. ImageInv'
  <2>1. Begins(block)' = Begins(block + 1)
    BY <1>1, ServedKept
  <2> QED
    BY <1>1, <1>2, <1>6, <2>1, ServedKept DEF ImageInv
<1>8. FetchInv'
  <2>1. block + 1 \in 0..BlockCount
    BY <1>2, BlockBounds DEF Served
  <2> QED
    BY <1>1, <2>1, ServedKept DEF FetchInv
<1>9. CostInv'
  <2>1. ASSUME \A b \in Blocks : DeflateRaw(b) # Fail PROVE sent' = Predicted(block + 1)
    <3>1. /\ sent = Predicted(block) /\ DeflateRaw(block) # Fail
          /\ mode = "raw" => ~Shrinks(block)
      BY <1>2, <2>1 DEF CostInv
    <3>2. total = SelectedLen(block) /\ (mode = "deflate" <=> Shrinks(block))
      BY <1>2, <1>4, <3>1, SelectionIs
    <3> QED
      BY <1>1, <1>2, <3>1, <3>2, PredictedIs
  <2>2. Predicted(block)' = Predicted(block + 1)
    BY <1>1, ServedKept
  <2> QED
    BY <1>1, <2>1, <2>2, ServedKept DEF CostInv
<1> QED
  BY <1>1, <1>3, <1>7, <1>8, <1>9 DEF TransferInv

LEMMA OtherStep ==
    ASSUME TransferInv,
           \/ Describe \/ Idle \/ UNCHANGED vars
           \/ \E b \in 0..BlockCount, off \in 0..1, n \in 0..1 : Stray(b, off, n)
    PROVE  TransferInv' /\ UNCHANGED cache
<1>1. CASE Describe
  <2>1. /\ UNCHANGED <<size, coding, host, next, cache, block, mode, total, got, image, sent>>
        /\ UNCHANGED served /\ desc' = Description
    BY <1>1 DEF Describe, served, fetch, Description
  <2>2. CacheInv' /\ Served'
    BY <2>1, CacheKept, ServedKept DEF TransferInv
  <2>3. FetchInv'
    BY <2>1, ServedKept DEF TransferInv, FetchInv, Partial
  <2>4. ImageInv' /\ CostInv'
    BY <2>1, ServedKept DEF TransferInv, ImageInv, CostInv
  <2> QED
    BY <2>1, <2>2, <2>3, <2>4 DEF TransferInv
<1>2. ASSUME UNCHANGED <<served, host, next, cache, desc, fetch, image, sent>>
      PROVE  TransferInv' /\ UNCHANGED cache
  <2>1. CacheInv' /\ Served'
    BY <1>2, CacheKept, ServedKept DEF TransferInv
  <2> QED
    BY <1>2, <2>1, NodeKept DEF TransferInv
<1>3. CASE Idle \/ UNCHANGED vars
  BY <1>2, <1>3 DEF Idle, vars, node
<1>4. CASE \E b \in 0..BlockCount, off \in 0..1, n \in 0..1 : Stray(b, off, n)
  <2>1. PICK b \in 0..BlockCount, off \in 0..1, n \in 0..1 : Stray(b, off, n)
    BY <1>4
  <2>2. host = "serve" /\ Lookup(b, off, n) /\ UNCHANGED <<served, host, next, desc, fetch, image, sent>>
    BY <2>1 DEF Stray, Fetching, node
  <2>3. cache' = cache
    BY <2>2, LookupKeeps DEF TransferInv
  <2> QED
    BY <1>2, <2>2, <2>3
<1> QED
  BY <1>1, <1>3, <1>4

----------------------------------------------------------------------------
(* The theorems.                                                           *)

LEMMA TransferStep ==
    ASSUME TransferInv, [Next]_vars
    PROVE  TransferInv' /\ (host = "serve" /\ host' = "serve" => UNCHANGED cache)
<1>1. CASE Prepare
  BY <1>1, PrepareStep DEF Prepare
<1>2. CASE OpenLink \/ Restart
  <2>1. host # "serve" \/ host' # "serve"
    BY <1>2 DEF OpenLink, Restart
  <2> QED
    BY <1>2, <2>1, HostStep
<1>3. CASE AskLength \/ EndBlock
  BY <1>3, AskStep, EndStep
<1>4. CASE \E n \in 1..ReadMax : FetchSlice(n)
  BY <1>4, SliceStep
<1>5. CASE \E n \in 1..Packet : FetchRaw(n)
  BY <1>5, RawStep
<1>6. CASE \/ Describe \/ Idle \/ UNCHANGED vars
           \/ \E b \in 0..BlockCount, off \in 0..1, n \in 0..1 : Stray(b, off, n)
  BY <1>6, OtherStep
<1> QED
  BY <1>1, <1>2, <1>3, <1>4, <1>5, <1>6 DEF Next

\* The cache of prepare_deflate_cache, what the node has of a block and the
\* cost so far stay what the encoders and deflate_transport_size determine.
THEOREM TransferInvariant == Spec => []TransferInv
<1>1. TransferInv /\ [Next]_vars => TransferInv'
  BY TransferStep
<1> QED
  BY <1>1, TransferStart, PTL DEF Spec

LEMMA InvIsExact == TransferInv => BlocksExact
<1> SUFFICES ASSUME TransferInv PROVE BlocksExact
  OBVIOUS
<1>1. /\ Served /\ FetchInv /\ ImageInv
      /\ block \in 0..BlockCount /\ BlockCount \in Nat /\ Begins(BlockCount) = size
  BY BlockBounds DEF TransferInv, Served, FetchInv
<1>2. Begins(block) \in Nat
  <2>1. CASE block = BlockCount
    BY <1>1, <2>1, BlockBounds DEF Served
  <2>2. CASE block \in Blocks
    BY <1>1, <2>2, BlockBounds DEF Served
  <2> QED
    BY <1>1, <2>1, <2>2 DEF Blocks
<1>3. Len(image) = Begins(block) /\ image = File(PayloadOff, PayloadOff + Len(image))
  <2>1. /\ PayloadOff \in Nat /\ PayloadOff + Begins(block) \in Nat
        /\ PayloadOff <= PayloadOff + Begins(block)
        /\ (PayloadOff + Begins(block)) - PayloadOff = Begins(block)
    BY <1>2, TransportAssumption
  <2>2. image = File(PayloadOff, PayloadOff + Begins(block))
    BY <1>1 DEF ImageInv
  <2>3. Len(image) = Begins(block)
    BY <2>1, <2>2, FileIs
  <2> QED
    BY <2>2, <2>3
<1>4. mode = "raw" => got = SubSeq(RawBlock(block), 1, Len(got))
  BY <1>1 DEF FetchInv, Partial
<1>5. ASSUME mode = "deflate"
      PROVE  \E e \in DOMAIN coding[block] :
                 coding[block][e] = total /\ got = SubSeq(Stream(block, e), 1, Len(got))
  <2>1. block \in Blocks /\ Worthwhile(block) # Raw /\ Partial(Worthwhile(block))
    BY <1>1, <1>5 DEF FetchInv
  <2>2. PICK e \in DOMAIN coding[block] : coding[block][e] # Fail /\ Worthwhile(block) = Stream(block, e)
    BY <1>1, <2>1, WorthwhileIs DEF Served
  <2>3. Len(Stream(block, e)) = coding[block][e]
    BY <1>1, <2>1, <2>2, StreamIs DEF Served
  <2> QED
    BY <2>1, <2>2, <2>3 DEF Partial
<1>6. Complete => Len(image) = size
  BY <1>1, <1>3 DEF Complete, ImageInv, Description
<1> QED
  BY <1>3, <1>4, <1>5, <1>6 DEF BlocksExact

\* Whatever the encoders make of the blocks, whatever slices the node asks
\* SeederCore::deflate_block for, and however often the seeder is restarted,
\* the pieces of a block belong together and the blocks are the payload.
THEOREM TransferExact == Spec => []BlocksExact
BY TransferInvariant, InvIsExact, PTL

\* prepare_deflate_cache leaves nothing for a request to compress: once the
\* link is open, every answer comes from the cache.
THEOREM TransferFromCache == Spec => ServedFromCache
<1>1. TransferInv /\ [Next]_vars => [host = "serve" /\ host' = "serve" => UNCHANGED cache]_vars
  BY TransferStep
<1> QED
  BY <1>1, TransferInvariant, PTL DEF Spec, ServedFromCache

\* deflate_transport_size measures what the live seeder selects: bytes, blocks
\* sent compressed and packets of a finished transfer are the predicted ones.
THEOREM TransferCostsAsPredicted == Spec => []CostAsPredicted
<1>1. TransferInv => CostAsPredicted
  <2> SUFFICES ASSUME TransferInv, Complete, DeflateTransportSize # Fail
               PROVE  sent = DeflateTransportSize
    BY DEF CostAsPredicted
  <2>1. \A b \in Blocks : DeflateRaw(b) # Fail
    BY DEF DeflateTransportSize
  <2>2. block = BlockCount
    BY DEF Complete, TransferInv, ImageInv, Description
  <2>3. sent = Predicted(BlockCount)
    BY <2>1, <2>2 DEF TransferInv, CostInv
  <2> QED
    BY <2>1, <2>3 DEF DeflateTransportSize
<1> QED
  BY <1>1, TransferInvariant, PTL

=============================================================================
