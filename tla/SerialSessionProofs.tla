------------------------ MODULE SerialSessionProofs ------------------------
(***************************************************************************)
(* Proofs about the serial side: first about the pump (StreamPump), for    *)
(* every set of bytes and opcodes, every request format and every length   *)
(* of line, request and session; then about the session around it: its     *)
(* types, the console it leaves behind, and that the text command is never *)
(* repeated inside or after a request, whatever the device sends and the   *)
(* Ctrl-C handler does.                                                    *)
(***************************************************************************)
EXTENDS SerialSession, SequenceTheorems, WellFoundedInduction, TLAPS

\* What raw is made of
Symbol == Byte \cup {Gap}

----------------------------------------------------------------------------
(* Induction, with the claim as a set.                                     *)

\* A set of naturals that holds 0 and with every number its successor is Nat.
LEMMA SetInduction ==
    ASSUME NEW P, 0 \in P, \A n \in Nat : n \in P => n + 1 \in P
    PROVE  Nat \subseteq P
<1> DEFINE Less == OpToRel(<, Nat)
           Rest == Nat \ P
<1>1. IsWellFoundedOn(Less, Nat)
  BY NatLessThanWellFounded
<1>2. \A i, j \in Nat : <<i, j>> \in Less <=> i < j
  BY DEF OpToRel
<1> HIDE DEF Less
<1> SUFFICES ASSUME Rest # {} PROVE FALSE
  OBVIOUS
<1>3. PICK i \in Rest : \A j \in Rest : ~(<<j, i>> \in Less)
  BY <1>1, WFMin, Rest \subseteq Nat
<1>4. i \in Nat \ {0} /\ i - 1 \in Nat /\ i - 1 < i
  OBVIOUS
<1>5. i - 1 \notin Rest
  BY <1>2, <1>3, <1>4
<1>6. i - 1 \in P /\ (i - 1) + 1 = i
  BY <1>4, <1>5
<1> QED
  BY <1>4, <1>6

Increasing(next, L) == \A i \in 1..L : next[i] \in (i + 1)..(L + 1)

ReadingBody(T, L, piece, next) ==
    [i \in 1..(L + 1) |-> IF i = L + 1 THEN <<>> ELSE piece[i] \o T[next[i]]]

Unrolls(F, L, piece, next) ==
    F[L + 1] = <<>> /\ \A i \in 1..L : F[i] = piece[i] \o F[next[i]]

\* The reference reading adds up pieces along increasing positions: such a
\* recursion has a solution.
LEMMA ReadingExists ==
    ASSUME NEW L \in Nat, NEW piece, NEW next, Increasing(next, L)
    PROVE  \E T : T = ReadingBody(T, L, piece, next)
<1> DEFINE Solves(g, k) ==
             \A i \in k..(L + 1) : g[i] = IF i = L + 1 THEN <<>> ELSE piece[i] \o g[next[i]]
           P == {n \in Nat : n <= L => \E g : Solves(g, L + 1 - n)}
<1>1. 0 \in P
  <2>1. Solves([i \in {L + 1} |-> <<>>], L + 1)
    OBVIOUS
  <2>2. L + 1 - 0 = L + 1
    OBVIOUS
  <2>3. \E g : Solves(g, L + 1 - 0)
    <3> HIDE DEF Solves
    <3> QED BY <2>1, <2>2
  <2> QED
    BY <2>3
<1>2. ASSUME NEW n \in Nat, n \in P PROVE n + 1 \in P
  <2> SUFFICES ASSUME n + 1 <= L PROVE \E g : Solves(g, L - n)
    BY L + 1 - (n + 1) = L - n
  <2>1. PICK g : Solves(g, L + 1 - n)
    BY <1>2
  <2> DEFINE h == [i \in (L - n)..(L + 1) |-> IF i = L - n THEN piece[i] \o g[next[i]] ELSE g[i]]
  <2>2. ASSUME NEW i \in (L - n)..(L + 1)
        PROVE  h[i] = IF i = L + 1 THEN <<>> ELSE piece[i] \o h[next[i]]
    <3>1. CASE i = L + 1
      BY <2>1, <3>1
    <3>2. CASE i # L + 1
      <4>1. i \in 1..L /\ next[i] \in (i + 1)..(L + 1)
        BY <3>2 DEF Increasing
      <4>2. h[next[i]] = g[next[i]]
        BY <4>1
      <4>3. h[i] = piece[i] \o g[next[i]]
        <5>1. CASE i = L - n
          BY <5>1
        <5>2. CASE i # L - n
          <6>1. i \in (L + 1 - n)..(L + 1)
            BY <5>2
          <6>2. g[i] = piece[i] \o g[next[i]]
            BY <2>1, <3>2, <6>1
          <6> QED
            BY <5>2, <6>2
        <5> QED
          BY <5>1, <5>2
      <4> QED
        BY <3>2, <4>2, <4>3
    <3> QED
      BY <3>1, <3>2
  <2>3. Solves(h, L - n)
    BY <2>2
  <2> QED
    BY <2>3
<1>3. L \in P
  <2> HIDE DEF P
  <2> QED BY <1>1, <1>2, SetInduction
<1>4. PICK g : Solves(g, 1)
  BY <1>3
<1> DEFINE T == [i \in 1..(L + 1) |-> g[i]]
<1>5. \A i \in 1..(L + 1) : T[i] = IF i = L + 1 THEN <<>> ELSE piece[i] \o T[next[i]]
  BY <1>4 DEF Increasing
<1>6. T = ReadingBody(T, L, piece, next)
  BY <1>5 DEF ReadingBody
<1> QED
  BY <1>6

\* It satisfies its defining equation.
LEMMA ReadingDef ==
    ASSUME NEW L \in Nat, NEW piece, NEW next, Increasing(next, L)
    PROVE  Unrolls(Reading(L, piece, next), L, piece, next)
<1> DEFINE Body(T) == ReadingBody(T, L, piece, next)
           F == CHOOSE T : T = Body(T)
<1>1. F = Body(F)
  BY ReadingExists
<1>2. Reading(L, piece, next) = F
  BY DEF Reading, ReadingBody
<1> HIDE DEF F
<1>3. ASSUME NEW i \in 1..(L + 1)
      PROVE  F[i] = IF i = L + 1 THEN <<>> ELSE piece[i] \o F[next[i]]
  <2>1. F[i] = Body(F)[i]
    BY <1>1
  <2> QED
    BY <2>1 DEF ReadingBody
<1>4. L + 1 \in 1..(L + 1) /\ \A i \in 1..L : i \in 1..(L + 1) /\ i # L + 1
  OBVIOUS
<1>5. F[L + 1] = <<>> /\ \A i \in 1..L : F[i] = piece[i] \o F[next[i]]
  BY <1>3, <1>4
<1> QED
  BY <1>2, <1>5 DEF Unrolls

LEMMA NextStartInside ==
    ASSUME NEW s \in Seq(Symbol), NEW i \in 1..Len(s)
    PROVE  NextStart(s, i) \in (i + 1)..(Len(s) + 1)
BY DEF NextStart, FrameAt

LEMMA TextFromDef ==
    ASSUME NEW s \in Seq(Symbol)
    PROVE  /\ TextFrom(s)[Len(s) + 1] = <<>>
           /\ \A i \in 1..Len(s) : TextFrom(s)[i] = TextPiece(s, i) \o TextFrom(s)[NextStart(s, i)]
<1> DEFINE L == Len(s)
           piece == [i \in 1..L |-> TextPiece(s, i)]
           next == Starts(s)
           F == Reading(L, piece, next)
<1>1. L \in Nat /\ \A i \in 1..L : next[i] = NextStart(s, i) /\ piece[i] = TextPiece(s, i)
  BY DEF Starts
<1>2. F = TextFrom(s)
  BY DEF TextFrom
<1>3. Increasing(next, L)
  BY <1>1, NextStartInside DEF Increasing
<1> HIDE DEF L, piece, next
<1>4. Unrolls(F, L, piece, next)
  BY <1>1, <1>3, ReadingDef
<1> HIDE DEF F
<1>5. F[L + 1] = <<>> /\ \A i \in 1..L : F[i] = TextPiece(s, i) \o F[NextStart(s, i)]
  BY <1>1, <1>4 DEF Unrolls
<1> QED
  BY <1>2, <1>5 DEF L

LEMMA RequestsFromDef ==
    ASSUME NEW s \in Seq(Symbol)
    PROVE  /\ RequestsFrom(s)[Len(s) + 1] = <<>>
           /\ \A i \in 1..Len(s) : RequestsFrom(s)[i] = RequestPiece(s, i) \o RequestsFrom(s)[NextStart(s, i)]
<1> DEFINE L == Len(s)
           piece == [i \in 1..L |-> RequestPiece(s, i)]
           next == Starts(s)
           F == Reading(L, piece, next)
<1>1. L \in Nat /\ \A i \in 1..L : next[i] = NextStart(s, i) /\ piece[i] = RequestPiece(s, i)
  BY DEF Starts
<1>2. F = RequestsFrom(s)
  BY DEF RequestsFrom
<1>3. Increasing(next, L)
  BY <1>1, NextStartInside DEF Increasing
<1> HIDE DEF L, piece, next
<1>4. Unrolls(F, L, piece, next)
  BY <1>1, <1>3, ReadingDef
<1> HIDE DEF F
<1>5. F[L + 1] = <<>> /\ \A i \in 1..L : F[i] = RequestPiece(s, i) \o F[NextStart(s, i)]
  BY <1>1, <1>4 DEF Unrolls
<1> QED
  BY <1>2, <1>5 DEF L

\* A reading of pieces that are sequences over X is one itself.
LEMMA ReadingType ==
    ASSUME NEW L \in Nat, NEW piece, NEW next, NEW F, NEW X,
           Increasing(next, L), Unrolls(F, L, piece, next),
           \A i \in 1..L : piece[i] \in Seq(X)
    PROVE  \A i \in 1..(L + 1) : F[i] \in Seq(X)
<1> DEFINE P == {n \in Nat : n <= L => \A i \in (L + 1 - n)..(L + 1) : F[i] \in Seq(X)}
<1>1. 0 \in P
  <2>1. F[L + 1] \in Seq(X)
    BY EmptySeq DEF Unrolls
  <2>2. \A i \in (L + 1 - 0)..(L + 1) : i = L + 1
    OBVIOUS
  <2> QED
    BY <2>1, <2>2
<1>2. ASSUME NEW n \in Nat, n \in P PROVE n + 1 \in P
  <2> SUFFICES ASSUME n + 1 <= L, NEW i \in (L - n)..(L + 1) PROVE F[i] \in Seq(X)
    BY L + 1 - (n + 1) = L - n
  <2>1. CASE i \in (L + 1 - n)..(L + 1)
    BY <1>2, <2>1
  <2>2. CASE i = L - n
    <3>1. i \in 1..L /\ next[i] \in (i + 1)..(L + 1)
      BY <2>2 DEF Increasing
    <3>2. next[i] \in (L + 1 - n)..(L + 1)
      BY <2>2, <3>1
    <3>3. F[next[i]] \in Seq(X) /\ piece[i] \in Seq(X)
      BY <1>2, <3>1, <3>2
    <3>4. F[i] = piece[i] \o F[next[i]]
      BY <3>1, Zenon DEF Unrolls
    <3> QED
      BY <3>3, <3>4, ConcatProperties
  <2> QED
    BY <2>1, <2>2
<1>3. L \in P
  <2> HIDE DEF P
  <2> QED BY <1>1, <1>2, SetInduction
<1> QED
  BY <1>3

----------------------------------------------------------------------------
(* Requests in a stream.                                                   *)

\* What a request is, as far as the handler is concerned
Request == Symbol \X Seq(Symbol)

LEMMA PieceTypes ==
    ASSUME NEW s \in Seq(Symbol), NEW i \in 1..Len(s)
    PROVE  TextPiece(s, i) \in Seq(Symbol) /\ RequestPiece(s, i) \in Seq(Request)
<1>1. TextPiece(s, i) \in Seq(Symbol)
  BY DEF TextPiece
<1>2. RequestPiece(s, i) \in Seq(Request)
  <2> DEFINE e == FrameEnd(s, i)
             r == SubSeq(s, i + 2, e - 1)
  <2>1. CASE FrameAt(s, i) /\ ValidFrame(r)
    <3>1. e \in Nat /\ e <= Len(s) + 1
      BY <2>1 DEF FrameAt
    <3> HIDE DEF e
    <3>2. \A k \in (i + 2)..(e - 1) : s[k] \in Symbol
      BY <3>1
    <3>3. r \in Seq(Symbol) /\ r # <<>>
      BY <2>1, <3>1, <3>2, SubSeqProperties DEF ValidFrame, Whole, HasHeader
    <3> HIDE DEF r
    <3>4. Len(r) \in Nat \ {0} /\ \A k \in 2..(Len(r) - 1) : r[k] \in Symbol
      BY <3>3
    <3>5. Op(r) \in Symbol
      BY <3>3, <3>4 DEF Op
    <3>6. Args(r) \in Seq(Symbol)
      BY <3>4, SubSeqProperties DEF Args
    <3>7. <<<<Op(r), Args(r)>>>> \in Seq(Request)
      BY <3>5, <3>6 DEF Request
    <3> QED
      BY <3>7, EmptySeq DEF RequestPiece, r, e
  <2>2. CASE ~(FrameAt(s, i) /\ ValidFrame(r))
    BY <2>2 DEF RequestPiece
  <2> QED
    BY <2>1, <2>2
<1> QED
  BY <1>1, <1>2

LEMMA AfterFirst ==
    ASSUME NEW gaps \in SUBSET Int, NEW end, NEW g \in gaps, \A h \in gaps : g <= h
    PROVE  After(gaps, end) = g + 1
<1>1. \A h \in gaps : (\A k \in gaps : h <= k) => h = g
  OBVIOUS
<1>2. (CHOOSE h \in gaps : \A k \in gaps : h <= k) = g
  BY <1>1
<1> QED
  BY <1>2 DEF After

\* Where a request that was read, whole or cut short, ends, and what it means,
\* whatever stands before and after it.
LEMMA FrameRead ==
    ASSUME NEW s \in Seq(Symbol), NEW i \in Nat \ {0}, NEW r \in Seq(Byte), NEW e \in Nat,
           s[i] = M, s[i + 1] = S, \A k \in 1..Len(r) : s[i + 1 + k] = r[k],
           r # <<>> => r[1] \in KnownOp,
           e <= Len(s) + 1,
           \/ Short(r) /\ s[i + 2 + Len(r)] = Gap /\ e = i + 3 + Len(r)
           \/ (Stopped(r) \/ Whole(r)) /\ e = i + 2 + Len(r)
    PROVE  /\ FrameAt(s, i) /\ FrameEnd(s, i) = e
           /\ RequestPiece(s, i) = IF ValidFrame(r) THEN <<<<Op(r), Args(r)>>>> ELSE <<>>
<1>0. /\ Len(s) \in Nat /\ Len(r) \in Nat
      /\ \A k \in 1..Len(r) : s[i + 1 + k] \in Byte /\ s[i + 1 + k] # Gap
  BY ByteAssumption, SMTT(30)
<1>1. CASE r = <<>>
  <2>1. Len(r) = 0 /\ ~HasHeader(r)
    BY <1>1 DEF HasHeader
  <2>2. s[i + 2] = Gap /\ e = i + 3
    BY <2>1 DEF Stopped, Runaway, Whole
  <2>3. FrameEnd(s, i) = e
    BY <1>0, <2>2 DEF FrameEnd
  <2>4. FrameAt(s, i)
    BY <1>0, <2>2, <2>3 DEF FrameAt
  <2> DEFINE q == SubSeq(s, i + 2, e - 1)
  <2>5. q[1] = Gap /\ Len(q) = 1
    <3>1. \A k \in (i + 2)..(e - 1) : s[k] \in Symbol
      BY <1>0, <2>2
    <3> QED
      BY <1>0, <2>2, <3>1, SubSeqProperties
  <2>6. RequestPiece(s, i) = <<>>
    <3> HIDE DEF q
    <3>1. ~(\A k \in 1..Len(q) : q[k] # Gap)
      BY <2>5
    <3> QED
      BY <2>3, <3>1 DEF RequestPiece, q
  <2> QED
    BY <2>1, <2>3, <2>4, <2>6 DEF ValidFrame, Whole
<1>2. CASE r # <<>>
  <2> DEFINE op == Op(r)
             HL == HeaderLen(op)
             h == i + 3 + HL
             hd == SubSeq(s, i + 3, h - 1)
             d == DataLen(op, hd)
  <2>1. /\ op \in KnownOp /\ op \in Byte /\ op # Gap /\ s[i + 2] = op
        /\ HL \in Nat /\ Len(r) >= 1
    BY <1>0, <1>2, ByteAssumption, FormatAssumption DEF Op
  <2>2. HasHeader(r) <=> Len(r) >= 1 + HL
    BY <1>2 DEF HasHeader
  <2>3. FrameEnd(s, i) =
          IF FirstGap(s, i + 3, h - 1) # {} THEN After(FirstGap(s, i + 3, h - 1), h)
          ELSE IF d > WriteMax THEN h
          ELSE After(FirstGap(s, h, h + d), h + d + 1)
    <3>1. i + 2 <= Len(s)
      BY <1>0, <2>1
    <3> HIDE DEF op
    <3>2. s[i + 2] # Gap /\ s[i + 2] \in KnownOp /\ s[i + 2] = op
      BY <2>1
    <3> QED
      BY <3>1, <3>2 DEF FrameEnd
  <2> HIDE DEF op, HL
  <2>4. CASE ~HasHeader(r)
    <3>1. Short(r) /\ s[i + 2 + Len(r)] = Gap /\ e = i + 3 + Len(r) /\ Len(r) < 1 + HL
      BY <2>1, <2>2, <2>4, <1>0 DEF Stopped, Runaway, Whole
    <3> DEFINE g == i + 2 + Len(r)
    <3>2. g \in FirstGap(s, i + 3, h - 1)
      BY <1>0, <2>1, <3>1 DEF FirstGap
    <3>3. \A k \in FirstGap(s, i + 3, h - 1) : g <= k
      <4> SUFFICES ASSUME NEW k \in FirstGap(s, i + 3, h - 1), k < g PROVE FALSE
        BY <1>0, <2>1 DEF FirstGap
      <4>1. k - i - 1 \in 1..Len(r) /\ i + 1 + (k - i - 1) = k /\ s[k] = Gap
        BY <1>0, <2>1 DEF FirstGap
      <4> QED
        BY <1>0, <4>1
    <3>4. FirstGap(s, i + 3, h - 1) \in SUBSET Int
      BY <2>1 DEF FirstGap
    <3>5. After(FirstGap(s, i + 3, h - 1), h) = g + 1
      BY <3>2, <3>3, <3>4, AfterFirst
    <3>6. FrameEnd(s, i) = e
      BY <1>0, <2>3, <3>1, <3>2, <3>5
    <3>7. FrameAt(s, i)
      BY <1>0, <3>1, <3>6 DEF FrameAt
    <3>8. RequestPiece(s, i) = <<>>
      <4> DEFINE q == SubSeq(s, i + 2, e - 1)
      <4>1. \A k \in (i + 2)..(e - 1) : s[k] \in Symbol
        BY <1>0, <3>1
      <4>2. Len(q) = Len(r) + 1 /\ q[Len(r) + 1] = Gap
        BY <1>0, <3>1, <4>1, SubSeqProperties
      <4> HIDE DEF q
      <4>3. ~(\A k \in 1..Len(q) : q[k] # Gap)
        BY <1>0, <4>2
      <4> QED
        BY <3>6, <4>3 DEF RequestPiece, q
    <3> QED
      BY <2>4, <3>6, <3>7, <3>8 DEF ValidFrame, Whole
  <2>5. CASE HasHeader(r)
    <3>1. FirstGap(s, i + 3, h - 1) = {}
      <4> SUFFICES ASSUME NEW k \in (i + 3)..(h - 1), s[k] = Gap PROVE FALSE
        BY DEF FirstGap
      <4>1. k - i - 1 \in 1..Len(r) /\ i + 1 + (k - i - 1) = k
        BY <1>0, <2>1, <2>2, <2>5
      <4> QED
        BY <1>0, <4>1
    <3>9. /\ Header(r) \in Seq(Byte) /\ Len(Header(r)) = HL
          /\ \A k \in 1..HL : Header(r)[k] = r[1 + k]
      <4>1. \A k \in 2..(1 + HL) : r[k] \in Byte
        BY <1>0, <2>1, <2>2, <2>5
      <4>2. /\ SubSeq(r, 2, 1 + HL) \in Seq(Byte)
            /\ Len(SubSeq(r, 2, 1 + HL)) = IF 2 <= 1 + HL THEN (1 + HL) - 2 + 1 ELSE 0
            /\ \A k \in 1..((1 + HL) - 2 + 1) : SubSeq(r, 2, 1 + HL)[k] = r[2 + k - 1]
        BY <2>1, <4>1, SubSeqProperties
      <4> QED
        BY <2>1, <4>2, SMTT(30) DEF Header, HL, op
    <3>2. hd = Header(r)
      <4>1. \A k \in (i + 3)..(h - 1) : s[k] \in Byte
        <5> SUFFICES ASSUME NEW k \in (i + 3)..(h - 1) PROVE s[k] \in Byte
          OBVIOUS
        <5>1. k - i - 1 \in 1..Len(r) /\ i + 1 + (k - i - 1) = k
          BY <1>0, <2>1, <2>2, <2>5
        <5> QED
          BY <1>0, <5>1
      <4>2. /\ hd \in Seq(Byte) /\ Len(hd) = HL
            /\ \A k \in 1..HL : hd[k] = s[i + 2 + k]
        <5> DEFINE m == i + 3
                   n == h - 1
        <5>1. m \in Int /\ n \in Int /\ n - m + 1 = HL /\ m + HL = n + 1
          BY <2>1
        <5>2. \A k \in m..n : s[k] \in Byte
          BY <4>1
        <5> HIDE DEF m, n
        <5>3. /\ SubSeq(s, m, n) \in Seq(Byte) /\ Len(SubSeq(s, m, n)) = IF m <= n THEN n - m + 1 ELSE 0
              /\ \A k \in 1..(n - m + 1) : SubSeq(s, m, n)[k] = s[m + k - 1]
          BY <5>1, <5>2, SubSeqProperties
        <5>4. hd = SubSeq(s, m, n)
          BY DEF m, n
        <5>5. \A k \in 1..HL : m + k - 1 = i + 2 + k
          BY DEF m
        <5> HIDE DEF hd
        <5>6. hd \in Seq(Byte) /\ Len(hd) = IF m <= n THEN HL ELSE 0
          BY <5>1, <5>3, <5>4
        <5>7. Len(hd) = HL
          BY <2>1, <5>1, <5>6
        <5>8. ASSUME NEW k \in 1..HL PROVE hd[k] = s[i + 2 + k]
          <6>1. SubSeq(s, m, n)[k] = s[m + k - 1]
            BY <5>1, <5>3
          <6> QED
            BY <5>4, <5>5, <6>1
        <5> QED
          BY <5>6, <5>7, <5>8
      <4>4. \A k \in 1..HL : hd[k] = Header(r)[k]
        <5> SUFFICES ASSUME NEW k \in 1..HL PROVE hd[k] = Header(r)[k]
          OBVIOUS
        <5>1. 1 + k \in 1..Len(r) /\ i + 1 + (1 + k) = i + 2 + k
          BY <1>0, <2>1, <2>2, <2>5
        <5>2. s[i + 1 + (1 + k)] = r[1 + k]
          BY <5>1
        <5> QED
          BY <3>9, <4>2, <5>1, <5>2
      <4> HIDE DEF hd
      <4> QED
        BY <3>9, <4>2, <4>4, SeqEqual
    <3>3. d \in Nat
      <4>1. Header(r) \in [1..HL -> Byte]
        BY <3>9, LenProperties
      <4> QED
        BY <2>1, <3>2, <4>1, FormatAssumption DEF HL
    <3>4. (Runaway(r) <=> d > WriteMax) /\ FrameLen(r) = 2 + HL + d
      BY <2>5, <3>2 DEF Runaway, FrameLen, HL, op
    <3> HIDE DEF hd, d
    <3>5. \A k \in (i + 2)..(i + 1 + Len(r)) : s[k] # Gap
      <4> SUFFICES ASSUME NEW k \in (i + 2)..(i + 1 + Len(r)) PROVE s[k] # Gap
        OBVIOUS
      <4>1. k - i - 1 \in 1..Len(r) /\ i + 1 + (k - i - 1) = k
        BY <1>0
      <4> QED
        BY <1>0, <4>1
    <3>6. CASE Runaway(r)
      <4>1. Stopped(r) /\ ~Whole(r) /\ Len(r) = 1 + HL /\ e = i + 2 + Len(r)
        BY <2>5, <3>6 DEF Short, Whole, Stopped, HL, op
      <4>2. FrameEnd(s, i) = e
        BY <1>0, <2>1, <2>3, <3>1, <3>4, <3>6, <4>1
      <4>3. FrameAt(s, i)
        BY <1>0, <4>1, <4>2 DEF FrameAt
      <4>4. SubSeq(s, i + 2, e - 1) = r
        BY <4>1
      <4> QED
        BY <4>1, <4>2, <4>3, <4>4 DEF RequestPiece, ValidFrame
    <3>7. CASE Whole(r)
      <4>1. Len(r) = 2 + HL + d /\ e = i + 2 + Len(r) /\ ~(d > WriteMax)
        BY <1>0, <3>4, <3>3, <2>1, <3>7 DEF Short, Whole, Stopped
      <4>2. FirstGap(s, h, h + d) = {}
        BY <2>1, <3>3, <3>5, <4>1 DEF FirstGap
      <4>3. FrameEnd(s, i) = e
        BY <1>0, <2>1, <2>3, <3>1, <3>3, <4>1, <4>2 DEF After
      <4>4. FrameAt(s, i)
        BY <1>0, <4>1, <4>3 DEF FrameAt
      <4>5. SubSeq(s, i + 2, e - 1) = r
        BY <4>1
      <4>6. \A k \in 1..Len(r) : r[k] # Gap
        BY <1>0
      <4> QED
        BY <4>3, <4>4, <4>5, <4>6 DEF RequestPiece
    <3>8. CASE ~Runaway(r) /\ ~Whole(r)
      <4>1. Short(r) /\ s[i + 2 + Len(r)] = Gap /\ e = i + 3 + Len(r) /\ Len(r) < 2 + HL + d
        BY <2>5, <3>4, <3>8 DEF Short, Stopped
      <4> DEFINE g == i + 2 + Len(r)
      <4>2. g \in FirstGap(s, h, h + d)
        BY <1>0, <2>1, <2>2, <2>5, <3>3, <4>1 DEF FirstGap
      <4>3. \A k \in FirstGap(s, h, h + d) : g <= k
        BY <1>0, <2>1, <3>3, <3>5 DEF FirstGap
      <4>4. FirstGap(s, h, h + d) \in SUBSET Int
        BY <2>1, <3>3 DEF FirstGap
      <4>5. After(FirstGap(s, h, h + d), h + d + 1) = g + 1
        BY <4>2, <4>3, <4>4, AfterFirst
      <4>6. FrameEnd(s, i) = e
        BY <1>0, <2>1, <2>3, <3>1, <3>3, <3>4, <3>8, <4>1, <4>2, <4>5
      <4>7. FrameAt(s, i)
        BY <1>0, <4>1, <4>6 DEF FrameAt
      <4>8. RequestPiece(s, i) = <<>>
        <5> DEFINE q == SubSeq(s, i + 2, e - 1)
        <5>1. \A k \in (i + 2)..(e - 1) : s[k] \in Symbol
          BY <1>0, <4>1
        <5>2. Len(q) = Len(r) + 1 /\ q[Len(r) + 1] = Gap
          BY <1>0, <4>1, <5>1, SubSeqProperties
        <5> HIDE DEF q
        <5>3. ~(\A k \in 1..Len(q) : q[k] # Gap)
          BY <1>0, <5>2
        <5> QED
          BY <4>6, <5>3 DEF RequestPiece, q
      <4> QED
        BY <3>8, <4>6, <4>7, <4>8 DEF ValidFrame
    <3> QED
      BY <3>6, <3>7, <3>8
  <2> QED
    BY <2>4, <2>5
<1> QED
  BY <1>1, <1>2

\* Position i of s is text, whatever is read later: no magic starts there, or
\* an opcode that no request has follows it.
PlainAt(s, i) ==
    /\ i \in 1..Len(s)
    /\ \/ s[i] # M
       \/ i + 1 <= Len(s) /\ s[i + 1] # S
       \/ i + 2 <= Len(s) /\ s[i + 2] \notin KnownOp \cup {Gap}

LEMMA PlainForGood ==
    ASSUME NEW s \in Seq(Symbol), NEW u \in Seq(Symbol), NEW i, PlainAt(s, i)
    PROVE  PlainAt(s \o u, i) /\ (s \o u)[i] = s[i]
<1>1. /\ Len(s) \in Nat /\ Len(u) \in Nat /\ Len(s \o u) = Len(s) + Len(u)
      /\ \A k \in 1..Len(s) : (s \o u)[k] = s[k]
  BY ConcatProperties
<1> QED
  BY <1>1 DEF PlainAt

LEMMA PlainIsText ==
    ASSUME NEW s \in Seq(Symbol), NEW i, PlainAt(s, i)
    PROVE  /\ FrameEnd(s, i) = i
           /\ TextPiece(s, i) = <<s[i]>> /\ RequestPiece(s, i) = <<>> /\ NextStart(s, i) = i + 1
<1>1. i \in 1..Len(s) /\ Len(s) \in Nat
  BY DEF PlainAt
<1>2. FrameEnd(s, i) = i
  BY <1>1 DEF FrameEnd, PlainAt
<1>3. ~FrameAt(s, i)
  BY <1>1, <1>2 DEF FrameAt
<1> QED
  BY <1>2, <1>3 DEF TextPiece, RequestPiece, NextStart

----------------------------------------------------------------------------
(* How far a stream has been read.                                         *)

LEMMA TextFromType ==
    ASSUME NEW s \in Seq(Symbol), NEW i \in 1..(Len(s) + 1)
    PROVE  TextFrom(s)[i] \in Seq(Symbol)
<1> DEFINE L == Len(s)
           piece == [j \in 1..L |-> TextPiece(s, j)]
           next == Starts(s)
           F == Reading(L, piece, next)
<1>1. /\ L \in Nat
      /\ \A j \in 1..L : next[j] = NextStart(s, j) /\ piece[j] \in Seq(Symbol)
  BY PieceTypes DEF Starts
<1>2. F = TextFrom(s)
  BY DEF TextFrom
<1>3. Increasing(next, L)
  BY <1>1, NextStartInside DEF Increasing
<1> HIDE DEF L, piece, next
<1>4. Unrolls(F, L, piece, next)
  BY <1>1, <1>3, ReadingDef
<1>5. \A j \in 1..(L + 1) : F[j] \in Seq(Symbol)
  BY <1>1, <1>3, <1>4, ReadingType
<1> QED
  BY <1>2, <1>5 DEF L

LEMMA RequestsFromType ==
    ASSUME NEW s \in Seq(Symbol), NEW i \in 1..(Len(s) + 1)
    PROVE  RequestsFrom(s)[i] \in Seq(Request)
<1> DEFINE L == Len(s)
           piece == [j \in 1..L |-> RequestPiece(s, j)]
           next == Starts(s)
           F == Reading(L, piece, next)
<1>1. /\ L \in Nat
      /\ \A j \in 1..L : next[j] = NextStart(s, j) /\ piece[j] \in Seq(Request)
  BY PieceTypes DEF Starts
<1>2. F = RequestsFrom(s)
  BY DEF RequestsFrom
<1>3. Increasing(next, L)
  BY <1>1, NextStartInside DEF Increasing
<1> HIDE DEF L, piece, next
<1>4. Unrolls(F, L, piece, next)
  BY <1>1, <1>3, ReadingDef
<1>5. \A j \in 1..(L + 1) : F[j] \in Seq(Request)
  BY <1>1, <1>3, <1>4, ReadingType
<1> QED
  BY <1>2, <1>5 DEF L

LEMMA Regrouped ==
    \A a, b, c \in Seq(Symbol) : (a \o b) \o c = a \o (b \o c)
<1> SUFFICES ASSUME NEW a \in Seq(Symbol), NEW b \in Seq(Symbol), NEW c \in Seq(Symbol)
             PROVE  (a \o b) \o c = a \o (b \o c)
  BY Zenon
<1> QED
  BY ConcatAssociative

LEMMA RegroupedRequests ==
    \A a, b, c \in Seq(Request) : (a \o b) \o c = a \o (b \o c)
<1> SUFFICES ASSUME NEW a \in Seq(Request), NEW b \in Seq(Request), NEW c \in Seq(Request)
             PROVE  (a \o b) \o c = a \o (b \o c)
  BY Zenon
<1> QED
  BY ConcatAssociative

\* The first c positions of s read as text t and requests q, whatever is read
\* after s: the reading continues at c + 1.
Settled(s, c, t, q) ==
    /\ c \in 0..Len(s) /\ t \in Seq(Symbol) /\ q \in Seq(Request)
    /\ \A u \in Seq(Symbol) :
         /\ TextFrom(s \o u)[1] = t \o TextFrom(s \o u)[c + 1]
         /\ RequestsFrom(s \o u)[1] = q \o RequestsFrom(s \o u)[c + 1]

LEMMA SettledStart == Settled(<<>>, 0, <<>>, <<>>)
<1>1. ASSUME NEW u \in Seq(Symbol)
      PROVE  /\ TextFrom(u)[1] = <<>> \o TextFrom(u)[1]
             /\ RequestsFrom(u)[1] = <<>> \o RequestsFrom(u)[1]
  <2>1. TextFrom(u)[1] \in Seq(Symbol) /\ RequestsFrom(u)[1] \in Seq(Request)
    BY TextFromType, RequestsFromType
  <2> QED
    BY <2>1, ConcatEmptySeq
<1>2. \A u \in Seq(Symbol) : <<>> \o u = u
  BY ConcatEmptySeq
<1> QED
  BY <1>1, <1>2, EmptySeq DEF Settled

LEMMA SettledMore ==
    ASSUME NEW s \in Seq(Symbol), NEW v \in Seq(Symbol), NEW c, NEW t, NEW q,
           Settled(s, c, t, q)
    PROVE  Settled(s \o v, c, t, q)
<1>1. s \o v \in Seq(Symbol) /\ c \in 0..Len(s \o v)
  BY ConcatProperties DEF Settled
<1>2. ASSUME NEW u \in Seq(Symbol)
      PROVE  /\ TextFrom((s \o v) \o u)[1] = t \o TextFrom((s \o v) \o u)[c + 1]
             /\ RequestsFrom((s \o v) \o u)[1] = q \o RequestsFrom((s \o v) \o u)[c + 1]
  <2>1. v \o u \in Seq(Symbol) /\ (s \o v) \o u = s \o (v \o u)
    BY ConcatProperties, Regrouped
  <2> QED
    BY <2>1 DEF Settled
<1> QED
  BY <1>1, <1>2 DEF Settled

\* At position i one reads x and y, whatever is read after s, and then goes on
\* after e.
ReadsAt(s, i, e, x, y) ==
    \A u \in Seq(Symbol) : /\ NextStart(s \o u, i) = e + 1
                           /\ TextPiece(s \o u, i) = x
                           /\ RequestPiece(s \o u, i) = y

\* One more position, or one more request, is read.
LEMMA SettledNext ==
    ASSUME NEW s \in Seq(Symbol), NEW c, NEW t, NEW q, Settled(s, c, t, q),
           NEW e \in (c + 1)..Len(s), NEW x \in Seq(Symbol), NEW y \in Seq(Request),
           ReadsAt(s, c + 1, e, x, y)
    PROVE  Settled(s, e, t \o x, q \o y)
<1>3. t \in Seq(Symbol)
  BY DEF Settled
<1>4. q \in Seq(Request)
  BY DEF Settled
<1>0. /\ c \in 0..Len(s) /\ c + 1 \in 1..Len(s) /\ t \in Seq(Symbol) /\ q \in Seq(Request)
      /\ Len(s) \in Nat /\ e \in 0..Len(s)
  BY DEF Settled
<1>1. ASSUME NEW u \in Seq(Symbol)
      PROVE  /\ TextFrom(s \o u)[1] = (t \o x) \o TextFrom(s \o u)[e + 1]
             /\ RequestsFrom(s \o u)[1] = (q \o y) \o RequestsFrom(s \o u)[e + 1]
  <2> DEFINE w == s \o u
             TF == TextFrom(w)
             RF == RequestsFrom(w)
  <2>1. w \in Seq(Symbol) /\ Len(w) \in Nat /\ Len(w) >= Len(s)
    BY ConcatProperties
  <2>2. NextStart(w, c + 1) = e + 1 /\ TextPiece(w, c + 1) = x /\ RequestPiece(w, c + 1) = y
    BY DEF ReadsAt
  <2>3. TF[1] = t \o TF[c + 1] /\ RF[1] = q \o RF[c + 1]
    BY DEF Settled
  <2> HIDE DEF w
  <2>4. c + 1 \in 1..Len(w) /\ e + 1 \in 1..(Len(w) + 1)
    BY <1>0, <2>1
  <2>5. TF[c + 1] = x \o TF[e + 1] /\ RF[c + 1] = y \o RF[e + 1]
    <3>1. /\ TF[c + 1] = TextPiece(w, c + 1) \o TF[NextStart(w, c + 1)]
          /\ RF[c + 1] = RequestPiece(w, c + 1) \o RF[NextStart(w, c + 1)]
      BY <2>1, <2>4, TextFromDef, RequestsFromDef
    <3> QED
      BY <2>2, <3>1
  <2>6. TF[e + 1] \in Seq(Symbol) /\ RF[e + 1] \in Seq(Request)
    BY <2>1, <2>4, TextFromType, RequestsFromType
  <2> HIDE DEF TF, RF
  <2>7. ASSUME NEW z \in Seq(Symbol) PROVE (t \o x) \o z = t \o (x \o z)
    BY <1>3, Regrouped, Zenon
  <2>8. ASSUME NEW z \in Seq(Request) PROVE (q \o y) \o z = q \o (y \o z)
    BY <1>4, RegroupedRequests, Zenon
  <2>9. TF[1] = (t \o x) \o TF[e + 1] /\ RF[1] = (q \o y) \o RF[e + 1]
    BY <2>3, <2>5, <2>6, <2>7, <2>8
  <2> QED
    BY <2>9 DEF TF, RF, w
<1>2. t \o x \in Seq(Symbol) /\ q \o y \in Seq(Request)
  BY <1>0, ConcatProperties
<1> QED
  BY <1>0, <1>1, <1>2 DEF Settled

LEMMA SettledText ==
    ASSUME NEW s \in Seq(Symbol), NEW c, NEW t, NEW q,
           Settled(s, c, t, q), PlainAt(s, c + 1)
    PROVE  Settled(s, c + 1, Append(t, s[c + 1]), q)
<1>1. /\ c \in Nat /\ t \in Seq(Symbol) /\ q \in Seq(Request)
      /\ c + 1 \in 1..Len(s) /\ Len(s) \in Nat /\ s[c + 1] \in Symbol
  BY DEF Settled, PlainAt
<1> DEFINE x == <<s[c + 1]>>
           y == <<>>
<1>2. ASSUME NEW u \in Seq(Symbol)
      PROVE  /\ NextStart(s \o u, c + 1) = (c + 1) + 1
             /\ TextPiece(s \o u, c + 1) = x
             /\ RequestPiece(s \o u, c + 1) = y
  <2>1. s \o u \in Seq(Symbol) /\ PlainAt(s \o u, c + 1) /\ (s \o u)[c + 1] = s[c + 1]
    BY PlainForGood, ConcatProperties
  <2> QED
    BY <2>1, PlainIsText
<1>3. x \in Seq(Symbol) /\ y \in Seq(Request) /\ c + 1 \in (c + 1)..Len(s)
  BY <1>1, EmptySeq
<1>4. t \o x = Append(t, s[c + 1]) /\ q \o y = q
  BY <1>1, ConcatEmptySeq
<1> HIDE DEF x, y
<1>5. Settled(s, c + 1, t \o x, q \o y)
  BY <1>2, <1>3, SettledNext DEF ReadsAt
<1> QED
  BY <1>4, <1>5

\* What was read to the end is the whole reading.
LEMMA SettledWhole ==
    ASSUME NEW s \in Seq(Symbol), NEW c, NEW t, NEW q, Settled(s, c, t, q)
    PROVE  /\ c = Len(s) => TextOf(s) = t /\ RequestsOf(s) = q
           /\ c + 1 = Len(s) => /\ TextOf(s) = t \o <<s[Len(s)]>>
                                /\ RequestsOf(s) = q
<1>1. s \o <<>> = s /\ <<>> \in Seq(Symbol)
  BY ConcatEmptySeq, EmptySeq
<1>2. /\ TextOf(s) = t \o TextFrom(s)[c + 1] /\ RequestsOf(s) = q \o RequestsFrom(s)[c + 1]
      /\ c \in 0..Len(s) /\ Len(s) \in Nat /\ t \in Seq(Symbol) /\ q \in Seq(Request)
  <2>1. /\ TextFrom(s \o <<>>)[1] = t \o TextFrom(s \o <<>>)[c + 1]
        /\ RequestsFrom(s \o <<>>)[1] = q \o RequestsFrom(s \o <<>>)[c + 1]
    BY <1>1, Zenon DEF Settled
  <2>2. c \in 0..Len(s) /\ Len(s) \in Nat /\ t \in Seq(Symbol) /\ q \in Seq(Request)
    BY DEF Settled
  <2> QED
    BY <1>1, <2>1, <2>2 DEF TextOf, RequestsOf
<1>3. TextFrom(s)[Len(s) + 1] = <<>> /\ RequestsFrom(s)[Len(s) + 1] = <<>>
  BY TextFromDef, RequestsFromDef
<1>4. CASE c = Len(s)
  BY <1>2, <1>3, <1>4, ConcatEmptySeq
<1>5. CASE c + 1 = Len(s)
  <2>1. FrameEnd(s, c + 1) = c + 1
    BY <1>2, <1>5 DEF FrameEnd
  <2>2. ~FrameAt(s, c + 1)
    BY <1>2, <1>5, <2>1 DEF FrameAt
  <2>3. TextPiece(s, c + 1) = <<s[c + 1]>> /\ RequestPiece(s, c + 1) = <<>> /\ NextStart(s, c + 1) = Len(s) + 1
    BY <1>2, <1>5, <2>2 DEF TextPiece, RequestPiece, NextStart
  <2>4. c + 1 \in 1..Len(s)
    BY <1>2, <1>5
  <2>5. /\ TextFrom(s)[c + 1] = TextPiece(s, c + 1) \o TextFrom(s)[NextStart(s, c + 1)]
        /\ RequestsFrom(s)[c + 1] = RequestPiece(s, c + 1) \o RequestsFrom(s)[NextStart(s, c + 1)]
    BY <2>4, TextFromDef, RequestsFromDef
  <2>6. <<s[c + 1]>> \in Seq(Symbol)
    BY <2>4
  <2>7. TextFrom(s)[c + 1] = <<s[c + 1]>> /\ RequestsFrom(s)[c + 1] = <<>>
    <3>1. <<s[c + 1]>> \o <<>> = <<s[c + 1]>> /\ <<>> \o <<>> = <<>>
      BY <2>6, EmptySeq, ConcatEmptySeq
    <3> QED
      BY <1>3, <2>3, <2>5, <3>1
  <2> QED
    BY <1>2, <1>5, <2>7, ConcatEmptySeq
<1> QED
  BY <1>2, <1>4, <1>5

\* A run of text is read byte by byte.
LEMMA SettledTexts ==
    ASSUME NEW s \in Seq(Symbol), NEW c, NEW t, NEW q, NEW w \in Seq(Symbol),
           Settled(s, c, t, q),
           \A i \in 1..Len(w) : PlainAt(s, c + i) /\ s[c + i] = w[i]
    PROVE  Settled(s, c + Len(w), t \o w, q)
<1> DEFINE P == {n \in Nat : n <= Len(w) => Settled(s, c + n, t \o SubSeq(w, 1, n), q)}
<1>0. c \in Nat /\ Len(w) \in Nat
  BY DEF Settled
<1>1. t \in Seq(Symbol)
  BY DEF Settled
<1>2. 0 \in P
  <2>1. SubSeq(w, 1, 0) = <<>>
    BY SubSeqEmpty
  <2>2. t \o <<>> = t /\ c + 0 = c
    BY <1>0, <1>1, ConcatEmptySeq
  <2> QED
    BY <2>1, <2>2
<1>3. ASSUME NEW n \in Nat, n \in P PROVE n + 1 \in P
  <2> SUFFICES ASSUME n + 1 <= Len(w)
               PROVE  Settled(s, c + (n + 1), t \o SubSeq(w, 1, n + 1), q)
    OBVIOUS
  <2> DEFINE v == SubSeq(w, 1, n)
  <2>1. Settled(s, c + n, t \o v, q)
    BY <1>0, <1>3
  <2>2. n + 1 \in 1..Len(w) /\ 1 \in 1..Len(w) /\ (n + 1) - 1 = n /\ n + 1 \in 1..Len(w)
    BY <1>0
  <2>3. SubSeq(w, 1, n + 1) = v \o <<w[n + 1]>>
    <3>1. SubSeq(w, 1, n + 1) = SubSeq(w, 1, (n + 1) - 1) \o <<w[n + 1]>>
      BY <2>2, SubSeqRecursiveSecond
    <3> QED
      BY <2>2, <3>1
  <2>4. v \in Seq(Symbol) /\ w[n + 1] \in Symbol /\ <<w[n + 1]>> \in Seq(Symbol)
    BY <1>0, <2>2, SubSeqProperties
  <2> HIDE DEF v
  <2>5. t \o v \in Seq(Symbol)
    BY <1>1, <2>4, ConcatProperties
  <2>6. PlainAt(s, (c + n) + 1) /\ s[(c + n) + 1] = w[n + 1]
    <3>1. PlainAt(s, c + (n + 1)) /\ s[c + (n + 1)] = w[n + 1]
      BY <2>2
    <3>2. c + (n + 1) = (c + n) + 1
      BY <1>0
    <3> QED
      BY <3>1, <3>2
  <2>7. Settled(s, (c + n) + 1, Append(t \o v, s[(c + n) + 1]), q)
    BY <2>1, <2>6, SettledText
  <2>8. Append(t \o v, w[n + 1]) = (t \o v) \o <<w[n + 1]>>
    BY <2>4, <2>5, AppendIsConcat
  <2>9. (t \o v) \o <<w[n + 1]>> = t \o (v \o <<w[n + 1]>>)
    <3> DEFINE x == <<w[n + 1]>>
    <3>1. v \in Seq(Symbol)
      BY <2>4
    <3>2. x \in Seq(Symbol)
      BY <2>4
    <3> HIDE DEF x
    <3>3. (t \o v) \o x = t \o (v \o x)
      BY <1>1, <3>1, <3>2, Regrouped, Zenon
    <3> QED
      BY <3>3 DEF x
  <2>10. (c + n) + 1 = c + (n + 1)
    BY <1>0
  <2> QED
    BY <2>3, <2>6, <2>7, <2>8, <2>9, <2>10
<1>4. Len(w) \in P
  <2> HIDE DEF P
  <2>1. Nat \subseteq P
    BY <1>2, <1>3, SetInduction
  <2> QED
    BY <1>0, <2>1
<1>5. SubSeq(w, 1, Len(w)) = w
  BY SubSeqFull
<1>6. Len(w) <= Len(w)
  BY <1>0
<1> QED
  BY <1>4, <1>5, <1>6

----------------------------------------------------------------------------
(* Lines.                                                                  *)

EndsWith(s, l) == \E p \in Seq(Symbol) : s = p \o l

Fits(l) == l \in Seq(Byte) /\ Len(l) <= LineMax

\* A byte that is pushed extends the line or starts a new one.
LEMMA PushLine ==
    ASSUME NEW z \in Seq(Symbol), NEW l, Fits(l), EndsWith(z, l), NEW b \in Byte
    PROVE  Fits(PushText(l, b).line) /\ EndsWith(z \o <<b>>, PushText(l, b).line)
<1>1. LineMax \in Nat /\ l \in Seq(Byte) /\ l \in Seq(Symbol) /\ <<b>> \in Seq(Symbol)
  BY LimitAssumption, SeqMonotonic DEF Fits, Symbol
<1>2. CASE b # NL /\ Len(l) + 1 <= LineMax
  <2>1. PushText(l, b).line = Append(l, b) /\ Append(l, b) = l \o <<b>>
    BY <1>1, <1>2 DEF PushText
  <2>2. Fits(Append(l, b))
    BY <1>1, <1>2 DEF Fits
  <2>3. PICK p \in Seq(Symbol) : z = p \o l
    BY DEF EndsWith
  <2>4. (p \o l) \o <<b>> = p \o (l \o <<b>>)
    BY <1>1, Regrouped, Zenon
  <2> QED
    BY <2>1, <2>2, <2>3, <2>4 DEF EndsWith
<1>3. CASE ~(b # NL /\ Len(l) + 1 <= LineMax)
  <2>1. PushText(l, b).line = <<>>
    BY <1>3 DEF PushText
  <2>2. Fits(<<>>)
    BY <1>1, EmptySeq DEF Fits
  <2>3. z \o <<b>> \in Seq(Symbol) /\ (z \o <<b>>) \o <<>> = z \o <<b>>
    BY <1>1, ConcatProperties, ConcatEmptySeq
  <2> QED
    BY <2>1, <2>2, <2>3 DEF EndsWith
<1> QED
  BY <1>2, <1>3

\* A byte outside any magic becomes text, or waits as an M.
LEMMA Accepted ==
    ASSUME NEW z \in Seq(Symbol), NEW l, Fits(l), EndsWith(z, l), NEW b \in Byte,
           NEW t \in Seq(Symbol), AcceptUnframed(b, l, t)
    PROVE  /\ Fits(line') /\ deferred' = None /\ pending_m' = (b = M)
           /\ event'.kind \in {"Activity", "DeviceLine"}
           /\ b = M => text' = t /\ EndsWith(z, line')
           /\ b # M => text' = t \o <<b>> /\ EndsWith(z \o <<b>>, line')
<1>1. b \in Symbol
  BY DEF Symbol
<1>2. event'.kind \in {"Activity", "DeviceLine"}
  BY DEF AcceptUnframed, Event, DeviceLine
<1>3. CASE b = M
  BY <1>2, <1>3 DEF AcceptUnframed
<1>4. CASE b # M
  <2>1. line' = PushText(l, b).line /\ text' = Append(t, b)
    BY <1>4 DEF AcceptUnframed
  <2>2. Append(t, b) = t \o <<b>>
    BY <1>1
  <2> QED
    BY <1>2, <1>4, <2>1, <2>2, PushLine DEF AcceptUnframed
<1> QED
  BY <1>3, <1>4

----------------------------------------------------------------------------
(* The steps of the pump.                                                  *)

\* What was read as text and requests, and what is held back.
Behind(z) ==
    /\ z \in Seq(Symbol) /\ raw = z \o Held
    /\ EndsWith(z, line) /\ Settled(raw, Len(z), text, handled)

\* The inductive invariant: all of the stream but the bytes held back is
\* settled, and the unfinished line is its end.
PumpInv ==
    /\ PumpTypeOK
    /\ raw \in Seq(Symbol)
    /\ \E z \in Seq(Symbol) : Behind(z)

\* A step makes the bytes w that follow z text, and holds back the rest.
Pushes(z, w) ==
    /\ w \in Seq(Byte) /\ raw' = (z \o w) \o Held'
    /\ text' = text \o w
    /\ EndsWith(z \o w, line')
    /\ \A i \in 1..Len(w) : PlainAt(raw', Len(z) + i)

\* The places of the elements of a concatenation.
LEMMA Places ==
    \A z, v \in Seq(Symbol) :
        /\ z \o v \in Seq(Symbol) /\ Len(z) \in Nat /\ Len(v) \in Nat
        /\ Len(z \o v) = Len(z) + Len(v)
        /\ \A i \in 1..Len(z) : (z \o v)[i] = z[i]
        /\ \A i \in 1..Len(v) : (z \o v)[Len(z) + i] = v[i]
<1> SUFFICES ASSUME NEW z \in Seq(Symbol), NEW v \in Seq(Symbol)
             PROVE  /\ z \o v \in Seq(Symbol) /\ Len(z) \in Nat /\ Len(v) \in Nat
                    /\ Len(z \o v) = Len(z) + Len(v)
                    /\ \A i \in 1..Len(z) : (z \o v)[i] = z[i]
                    /\ \A i \in 1..Len(v) : (z \o v)[Len(z) + i] = v[i]
  BY Zenon
<1>1. /\ z \o v \in Seq(Symbol) /\ Len(z) \in Nat /\ Len(v) \in Nat
      /\ Len(z \o v) = Len(z) + Len(v)
      /\ \A i \in 1 .. Len(z) + Len(v) : (z \o v)[i] = IF i <= Len(z) THEN z[i] ELSE v[i - Len(z)]
  BY ConcatProperties
<1>2. ASSUME NEW i \in 1..Len(v) PROVE (z \o v)[Len(z) + i] = v[i]
  <2>1. Len(z) + i \in 1 .. Len(z) + Len(v) /\ ~(Len(z) + i <= Len(z)) /\ (Len(z) + i) - Len(z) = i
    BY <1>1
  <2> QED
    BY <1>1, <2>1
<1>3. ASSUME NEW i \in 1..Len(z) PROVE (z \o v)[i] = z[i]
  BY <1>1
<1> QED
  BY <1>1, <1>2, <1>3

\* Concatenation, element by element.

LEMMA Joined ==
    ASSUME NEW SS, NEW A \in Seq(SS), NEW B \in Seq(SS), NEW Z \in Seq(SS),
           Len(Z) = Len(A) + Len(B),
           \A i \in 1..Len(A) : Z[i] = A[i],
           \A i \in 1..Len(B) : Z[Len(A) + i] = B[i]
    PROVE  A \o B = Z
<1>1. Len(A) \in Nat /\ Len(B) \in Nat
  OBVIOUS
<1>2. A \o B \in Seq(SS) /\ Len(A \o B) = Len(A) + Len(B) 
  OBVIOUS
<1>3. ASSUME NEW i \in 1..Len(A \o B) PROVE (A \o B)[i] = Z[i]
  <2>1. CASE i <= Len(A)
    BY <1>1, <1>2, <2>1
  <2>2. CASE i > Len(A) 
    <3>1. i - Len(A) \in 1..Len(B)
      BY <1>1, <1>2, <2>2
    <3>2. i = Len(A) + (i - Len(A))
      BY <1>1, <1>2, <2>2
    <3>3. Z[Len(A) + (i - Len(A))] = B[i - Len(A)]
      BY <3>1
    <3>4. (A \o B)[i] = B[i - Len(A)]
      BY <1>1, <1>2, <2>2
    <3> QED
      BY <3>2, <3>3, <3>4
  <2> QED
    BY <1>1, <1>2, <2>1, <2>2
<1> QED
  BY <1>2, <1>3, SeqEqual

LEMMA JoinedOneOne ==
    ASSUME NEW SS, NEW a \in SS, NEW b \in SS
    PROVE  <<a>> \o <<b>> = <<a,b>>
<1> DEFINE A == <<a>> B == <<b>> Z == <<a, b>>
<1>0. A \in Seq(SS)
  OBVIOUS
<1>9. B \in Seq(SS)
  OBVIOUS
<1>8. Z \in Seq(SS)
  OBVIOUS
<1>1. Len(Z) = Len(A) + Len(B)
  OBVIOUS
<1>2. Len(A) = 1 /\ Len(B) = 1
  OBVIOUS
<1>3. \A i \in 1..1 : Z[i] = A[i]
  OBVIOUS
<1>4. \A i \in 1..1 : Z[1 + i] = B[i]
  OBVIOUS
<1> HIDE DEF A, B, Z
<1>5. \A i \in 1..Len(A) : Z[i] = A[i]
  BY <1>2, <1>3
<1>7. \A i \in 1..Len(B) : Z[Len(A) + i] = B[i]
  BY <1>2, <1>4
<1>6. A \o B = Z
  BY <1>0, <1>9, <1>8, <1>1, <1>5, <1>7, Joined
<1> QED
  BY <1>6, Zenon DEF Z, A, B

LEMMA JoinedOneTwo ==
    ASSUME NEW SS, NEW a \in SS, NEW b \in SS, NEW c \in SS
    PROVE  <<a>> \o <<b, c>> = <<a,b, c>>
<1> DEFINE A == <<a>> B == <<b, c>> Z == <<a, b, c>>
<1>0. A \in Seq(SS)
  OBVIOUS
<1>9. B \in Seq(SS)
  OBVIOUS
<1>8. Z \in Seq(SS)
  OBVIOUS
<1>1. Len(Z) = Len(A) + Len(B)
  OBVIOUS
<1>2. Len(A) = 1 /\ Len(B) = 2
  OBVIOUS
<1>3. \A i \in 1..1 : Z[i] = A[i]
  OBVIOUS
<1>4. \A i \in 1..2 : Z[1 + i] = B[i]
  <2>1. Z[2] = B[1] /\ Z[3] = B[2]
    OBVIOUS
  <2>2. \A i \in 1..2 : i = 1 \/ i = 2
    OBVIOUS
  <2>3. 1 + 1 = 2 /\ 1 + 2 = 3
    OBVIOUS
  <2> QED
    BY <2>1, <2>2, <2>3
<1> HIDE DEF A, B, Z
<1>5. \A i \in 1..Len(A) : Z[i] = A[i]
  BY <1>2, <1>3
<1>7. \A i \in 1..Len(B) : Z[Len(A) + i] = B[i]
  BY <1>2, <1>4
<1>6. A \o B = Z
  BY <1>0, <1>9, <1>8, <1>1, <1>5, <1>7, Joined
<1> QED
  BY <1>6, Zenon DEF Z, A, B

LEMMA JoinedTwoOne ==
    ASSUME NEW SS, NEW a \in SS, NEW b \in SS, NEW c \in SS
    PROVE  <<a, b>> \o <<c>> = <<a,b, c>>
<1> DEFINE A == <<a, b>> B == <<c>> Z == <<a, b, c>>
<1>0. A \in Seq(SS)
  OBVIOUS
<1>9. B \in Seq(SS)
  OBVIOUS
<1>8. Z \in Seq(SS)
  OBVIOUS
<1>1. Len(Z) = Len(A) + Len(B)
  OBVIOUS
<1>2. Len(A) = 2 /\ Len(B) = 1
  OBVIOUS
<1>3. \A i \in 1..2 : Z[i] = A[i]
  OBVIOUS
<1>4. \A i \in 1..1 : Z[2 + i] = B[i]
  OBVIOUS
<1> HIDE DEF A, B, Z
<1>5. \A i \in 1..Len(A) : Z[i] = A[i]
  BY <1>2, <1>3
<1>7. \A i \in 1..Len(B) : Z[Len(A) + i] = B[i]
  BY <1>2, <1>4
<1>6. A \o B = Z
  BY <1>0, <1>9, <1>8, <1>1, <1>5, <1>7, Joined
<1> QED
  BY <1>6, Zenon DEF Z, A, B

\* Literal sequences put together in two ways.
LEMMA Regroup ==
    ASSUME NEW z \in Seq(Symbol), NEW a \in Symbol, NEW b \in Symbol, NEW c \in Symbol
    PROVE  /\ Append(z, a) = z \o <<a>>
           /\ (z \o <<a>>) \o <<b>> = z \o <<a, b>>
           /\ (z \o <<a>>) \o <<b, c>> = z \o <<a, b, c>>
           /\ (z \o <<a, b>>) \o <<c>> = z \o <<a, b, c>>
<1> DEFINE A == <<a>> B == <<b>> C == <<c>> AB == <<a, b>> BC == <<b, c>> ABC == <<a, b, c>>
<1>1. A \in Seq(Symbol) /\ B \in Seq(Symbol) /\ C \in Seq(Symbol)
  OBVIOUS
<1>8. AB \in Seq(Symbol)
  OBVIOUS
<1>9. BC \in Seq(Symbol)
  OBVIOUS
<1>2. A \o B = AB /\ A \o BC = ABC /\ AB \o C = ABC
  BY JoinedOneOne, JoinedOneTwo, JoinedTwoOne
<1>3. Append(z, a) = z \o A
  BY AppendIsConcat
<1> HIDE DEF A, B, C, AB, BC, ABC
<1>4. (z \o A) \o B = z \o (A \o B)
  BY <1>1, Regrouped, Zenon
<1>5. (z \o A) \o BC = z \o (A \o BC)
  BY <1>1, <1>9, Regrouped, Zenon
<1>6. (z \o AB) \o C = z \o (AB \o C)
  BY <1>1, <1>8, Regrouped, Zenon
<1>7. (z \o A) \o B = z \o AB /\ (z \o A) \o BC = z \o ABC /\ (z \o AB) \o C = z \o ABC
  BY <1>2, <1>4, <1>5, <1>6
<1> QED
  BY <1>3, <1>7 DEF A, B, C, AB, BC, ABC

\* What a step that pushes text does, z being what was not held back before.
TextStep(z) ==
    /\ \E w \in Seq(Byte) : Pushes(z, w)
    /\ \E u \in Seq(Symbol) : raw' = raw \o u
    /\ PumpTypeOK' /\ handled' = handled

LEMMA ByteIsSymbol == \A b \in Byte : b \in Symbol /\ b # Gap /\ b # None
BY ByteAssumption DEF Symbol

\* The bytes held back: an M that may start a magic, or the deferred byte.
LEMMA HeldForms ==
    /\ pending_m = TRUE /\ deferred = None => Held = <<M>>
    /\ pending_m = FALSE /\ deferred = None => Held = <<>>
    /\ pending_m = FALSE /\ deferred # None /\ deferred \in Byte => Held = <<deferred>>
    /\ pending_m' = TRUE /\ deferred' = None => Held' = <<M>>
    /\ pending_m' = FALSE /\ deferred' = None => Held' = <<>>
    /\ pending_m' = FALSE /\ deferred' # None /\ deferred' \in Byte => Held' = <<deferred'>>
<1>1. M \in Byte
  BY ByteAssumption
<1>2. ASSUME NEW v \in Seq(Byte) PROVE v \o <<>> = v /\ <<>> \o v = v
  BY ConcatEmptySeq
<1>3. <<>> \in Seq(Byte) /\ <<M>> \in Seq(Byte) /\ \A b \in Byte : <<b>> \in Seq(Byte)
  BY <1>1, EmptySeq
<1>4. /\ <<>> \o <<>> = <<>> /\ <<M>> \o <<>> = <<M>>
      /\ \A b \in Byte : <<>> \o <<b>> = <<b>>
  BY <1>2, <1>3, Zenon
<1> QED
  BY <1>4, Zenon DEF Held

LEMMA TextSteps ==
    ASSUME PumpTypeOK, raw \in Seq(Symbol), NEW z, Behind(z), PumpText
    PROVE  TextStep(z)
<1>1. PICK b \in Byte : NextByte(b) /\ AcceptUnframed(b, line, text)
  BY DEF PumpText
<1>2. ~pending_m /\ z \in Seq(Symbol) /\ EndsWith(z, line) /\ Fits(line) /\ text \in Seq(Symbol)
  BY DEF PumpText, Behind, PumpTypeOK, Fits, Settled
<1>3. b \in Symbol
  BY ByteIsSymbol
<1>4. <<b>> \in Seq(Symbol)
  BY <1>3
<1>5. raw' = z \o <<b>> /\ \E u \in Seq(Symbol) : raw' = raw \o u
  <2>1. CASE deferred # None
    <3>1. raw' = raw /\ Held = <<b>>
      BY <1>1, <1>2, <2>1 DEF NextByte, Held
    <3>2. raw' = z \o <<b>> /\ raw' = raw \o <<>>
      BY <3>1, ConcatEmptySeq DEF Behind
    <3> QED
      BY <3>2, EmptySeq
  <2>2. CASE deferred = None
    <3>1. raw' = Append(raw, b) /\ Held = <<>>
      BY <1>1, <1>2, <2>2 DEF NextByte, Held
    <3>2. raw' = raw \o <<b>>
      BY <1>3, <3>1, AppendIsConcat
    <3>3. raw = z
      BY <1>2, <3>1, ConcatEmptySeq DEF Behind
    <3> QED
      BY <1>4, <3>2, <3>3
  <2> QED
    BY <2>1, <2>2
<1>6. /\ Fits(line') /\ deferred' = None /\ pending_m' = (b = M)
      /\ b = M => text' = text /\ EndsWith(z, line')
      /\ b # M => text' = text \o <<b>> /\ EndsWith(z \o <<b>>, line')
  BY <1>1, <1>2, Accepted
<1>7. PumpTypeOK'
  BY <1>6 DEF PumpTypeOK, Fits
<1>8. handled' = handled
  BY DEF PumpText
<1>9. \E w \in Seq(Byte) : Pushes(z, w)
  <2>1. CASE b = M
    <3>1. Held' = <<b>>
      BY <1>6, <2>1, HeldForms
    <3>2. z \o <<>> = z /\ text \o <<>> = text
      BY <1>2, ConcatEmptySeq
    <3>3. Len(<<>>) = 0 /\ <<>> \in Seq(Byte) /\ 1..0 = {}
      BY EmptySeq
    <3>4. Pushes(z, <<>>)
      BY <1>5, <1>6, <2>1, <3>1, <3>2, <3>3 DEF Pushes
    <3> QED
      BY <3>3, <3>4
  <2>2. CASE b # M
    <3>1. Held' = <<>>
      BY <1>6, <2>2, HeldForms
    <3>2. z \o <<b>> \in Seq(Symbol) /\ (z \o <<b>>) \o <<>> = z \o <<b>>
      BY <1>2, <1>4, ConcatProperties, ConcatEmptySeq
    <3>3. <<b>> \in Seq(Byte) /\ Len(<<b>>) = 1
      OBVIOUS
    <3>4. PlainAt(z \o <<b>>, Len(z) + 1)
      <4>1. Len(z \o <<b>>) = Len(z) + 1 /\ (z \o <<b>>)[Len(z) + 1] = b /\ Len(z) \in Nat
        BY <1>2, <1>4
      <4> QED
        BY <2>2, <4>1 DEF PlainAt
    <3>5. \A i \in 1..1 : Len(z) + i = Len(z) + 1
      OBVIOUS
    <3>6. Pushes(z, <<b>>)
      BY <1>5, <1>6, <2>2, <3>1, <3>2, <3>3, <3>4, <3>5 DEF Pushes
    <3> QED
      BY <3>3, <3>6
  <2> QED
    BY <2>1, <2>2
<1> QED
  BY <1>5, <1>7, <1>8, <1>9 DEF TextStep

\* The three bytes after z, where they are text.
LEMMA Tail3 ==
    ASSUME NEW z \in Seq(Symbol), NEW a \in Symbol, NEW b \in Symbol, NEW c \in Symbol
    PROVE  /\ z \o <<a, b>> \in Seq(Symbol) /\ z \o <<a, b, c>> \in Seq(Symbol)
           /\ a # M \/ b # S => PlainAt(z \o <<a, b>>, Len(z) + 1)
           /\ b # M => PlainAt(z \o <<a, b>>, Len(z) + 2)
           /\ a # M \/ b # S \/ c \notin KnownOp \cup {Gap} => PlainAt(z \o <<a, b, c>>, Len(z) + 1)
           /\ b # M \/ c # S => PlainAt(z \o <<a, b, c>>, Len(z) + 2)
           /\ c # M => PlainAt(z \o <<a, b, c>>, Len(z) + 3)
<1> DEFINE AB == <<a, b>> ABC == <<a, b, c>>
<1>1. AB \in Seq(Symbol)
  OBVIOUS
<1>2. ABC \in Seq(Symbol)
  OBVIOUS
<1>3. Len(AB) = 2 /\ AB[1] = a /\ AB[2] = b
  OBVIOUS
<1>4. Len(ABC) = 3 /\ ABC[1] = a /\ ABC[2] = b /\ ABC[3] = c
  OBVIOUS
<1> HIDE DEF AB, ABC
<1>5. /\ z \o AB \in Seq(Symbol) /\ Len(z) \in Nat /\ Len(z \o AB) = Len(z) + 2
      /\ (z \o AB)[Len(z) + 1] = a /\ (z \o AB)[Len(z) + 2] = b
  <2>1. /\ z \o AB \in Seq(Symbol) /\ Len(z) \in Nat /\ Len(z \o AB) = Len(z) + Len(AB)
        /\ \A i \in 1..Len(AB) : (z \o AB)[Len(z) + i] = AB[i]
    BY <1>1, Places
  <2>2. 1 \in 1..Len(AB) /\ 2 \in 1..Len(AB)
    BY <1>3
  <2> QED
    BY <2>1, <2>2, <1>3
<1>6. /\ z \o ABC \in Seq(Symbol) /\ Len(z \o ABC) = Len(z) + 3
      /\ (z \o ABC)[Len(z) + 1] = a /\ (z \o ABC)[Len(z) + 2] = b /\ (z \o ABC)[Len(z) + 3] = c
  <2>1. /\ z \o ABC \in Seq(Symbol) /\ Len(z) \in Nat /\ Len(z \o ABC) = Len(z) + Len(ABC)
        /\ \A i \in 1..Len(ABC) : (z \o ABC)[Len(z) + i] = ABC[i]
    BY <1>2, Places
  <2>2. 1 \in 1..Len(ABC) /\ 2 \in 1..Len(ABC) /\ 3 \in 1..Len(ABC)
    BY <1>4
  <2> QED
    BY <2>1, <2>2, <1>4
<1> DEFINE n == Len(z)
<1>7. /\ (n + 1) + 1 = n + 2 /\ (n + 1) + 2 = n + 3 /\ (n + 2) + 1 = n + 3
      /\ n + 1 \in 1..(n + 2) /\ n + 2 \in 1..(n + 2)
      /\ n + 1 \in 1..(n + 3) /\ n + 2 \in 1..(n + 3) /\ n + 3 \in 1..(n + 3)
      /\ n + 2 <= n + 2 /\ n + 2 <= n + 3 /\ n + 3 <= n + 3
  BY <1>5
<1> HIDE DEF n
<1>8. /\ a # M \/ b # S => PlainAt(z \o AB, n + 1)
      /\ b # M => PlainAt(z \o AB, n + 2)
  BY <1>5, <1>7 DEF PlainAt, n
<1>9. /\ a # M \/ b # S \/ c \notin KnownOp \cup {Gap} => PlainAt(z \o ABC, n + 1)
      /\ b # M \/ c # S => PlainAt(z \o ABC, n + 2)
      /\ c # M => PlainAt(z \o ABC, n + 3)
  BY <1>6, <1>7 DEF PlainAt, n
<1> QED
  BY <1>5, <1>6, <1>8, <1>9 DEF n, AB, ABC

LEMMA Upto ==
    /\ \A i \in 1..1 : i = 1
    /\ \A i \in 1..2 : i = 1 \/ i = 2
    /\ \A i \in 1..3 : i = 1 \/ i = 2 \/ i = 3
OBVIOUS

\* How many bytes become text when a magic turns out to be none.
LEMMA Pushed ==
    ASSUME NEW z \in Seq(Symbol), NEW w, w \in Seq(Byte), Len(w) \in 1..3,
           raw' = (z \o w) \o Held', text' = text \o w, EndsWith(z \o w, line'),
           PlainAt(raw', Len(z) + 1),
           Len(w) >= 2 => PlainAt(raw', Len(z) + 2),
           Len(w) = 3 => PlainAt(raw', Len(z) + 3)
    PROVE  \E v \in Seq(Byte) : Pushes(z, v)
<1>1. ASSUME NEW i \in 1..Len(w) PROVE PlainAt(raw', Len(z) + i)
  <2>1. i = 1 \/ (i = 2 /\ Len(w) >= 2) \/ (i = 3 /\ Len(w) = 3)
    OBVIOUS
  <2> QED
    BY <2>1
<1> QED
  BY <1>1 DEF Pushes

LEMMA BrokenMagicSteps ==
    ASSUME PumpTypeOK, raw \in Seq(Symbol), NEW z, Behind(z), PumpBrokenMagic
    PROVE  TextStep(z)
<1> DEFINE m == PushText(line, M)
           Flushes(b) == /\ pending_m' = FALSE /\ deferred' = b
                         /\ line' = m.line /\ text' = Append(text, M)
                         /\ event' = DeviceLine(m.out)
<1>1. PICK b \in Byte \ {S} :
        /\ NextByte(b)
        /\ IF m.out # <<>> THEN Flushes(b) ELSE AcceptUnframed(b, m.line, Append(text, M))
  BY DEF PumpBrokenMagic
<1>2. /\ pending_m = TRUE /\ deferred = None /\ z \in Seq(Symbol) /\ text \in Seq(Symbol)
      /\ EndsWith(z, line) /\ Fits(line)
  BY DEF PumpBrokenMagic, Behind, PumpTypeOK, Fits, Settled
<1>3. M \in Byte /\ b \in Byte /\ M \in Symbol /\ b \in Symbol /\ b # None /\ b # S
  BY ByteAssumption, ByteIsSymbol
<1>4. Fits(m.line) /\ EndsWith(z \o <<M>>, m.line)
  BY <1>2, <1>3, PushLine
<1>5. raw = z \o <<M>>
  BY <1>2, HeldForms DEF Behind
<1>6. raw' = raw \o <<b>> /\ <<b>> \in Seq(Symbol) /\ <<M>> \in Seq(Symbol)
  <2>1. raw' = Append(raw, b)
    BY <1>1, <1>2 DEF NextByte
  <2> QED
    BY <1>3, <2>1, Regroup
<1>7. /\ Append(text, M) = text \o <<M>>
      /\ (text \o <<M>>) \o <<b>> = text \o <<M, b>>
      /\ (z \o <<M>>) \o <<b>> = z \o <<M, b>>
  BY <1>2, <1>3, Regroup
<1>8. /\ z \o <<M, b>> \in Seq(Symbol)
      /\ PlainAt(z \o <<M, b>>, Len(z) + 1)
      /\ b # M => PlainAt(z \o <<M, b>>, Len(z) + 2)
  BY <1>2, <1>3, Tail3
<1>9. raw' = (z \o <<M>>) \o <<b>> /\ raw' = z \o <<M, b>> /\ z \o <<M>> \in Seq(Symbol)
      /\ text \o <<M>> \in Seq(Symbol)
  BY <1>2, <1>5, <1>6, <1>7, Places
<1>10. <<M>> \in Seq(Byte) /\ Len(<<M>>) = 1
  BY <1>3
<1>11. <<M, b>> \in Seq(Byte) /\ Len(<<M, b>>) = 2
  BY <1>3
<1> DEFINE W == <<M>> WB == <<M, b>>
<1> HIDE DEF m
<1>12. PumpTypeOK' /\ \E w \in Seq(Byte) : Pushes(z, w)
  <2>1. CASE m.out # <<>>
    <3>1. Flushes(b)
      BY <1>1, <2>1
    <3>2. Held' = <<b>>
      BY <1>3, <3>1, HeldForms
    <3>3. PumpTypeOK'
      BY <1>3, <1>4, <3>1 DEF PumpTypeOK, Fits
    <3>4. /\ raw' = (z \o W) \o Held' /\ text' = text \o W /\ EndsWith(z \o W, line')
          /\ PlainAt(raw', Len(z) + 1)
      BY <1>4, <1>7, <1>8, <1>9, <3>1, <3>2, Zenon
    <3>5. W \in Seq(Byte) /\ Len(W) \in 1..3 /\ ~(Len(W) >= 2) /\ Len(W) # 3
      BY <1>10
    <3> HIDE DEF W
    <3> QED
      BY <1>2, <3>3, <3>4, <3>5, Pushed
  <2>2. CASE m.out = <<>>
    <3>1. AcceptUnframed(b, m.line, text \o <<M>>)
      BY <1>1, <1>7, <2>2
    <3> DEFINE z1 == z \o <<M>>
               t1 == text \o <<M>>
    <3>2. z1 \in Seq(Symbol) /\ t1 \in Seq(Symbol) /\ EndsWith(z1, m.line) /\ AcceptUnframed(b, m.line, t1)
      BY <1>4, <1>9, <3>1
    <3> HIDE DEF z1, t1
    <3>3. /\ Fits(line') /\ deferred' = None /\ pending_m' = (b = M)
          /\ b = M => text' = t1 /\ EndsWith(z1, line')
          /\ b # M => text' = t1 \o <<b>> /\ EndsWith(z1 \o <<b>>, line')
      BY <1>3, <1>4, <3>2, Accepted
    <3>4. PumpTypeOK'
      BY <3>3 DEF PumpTypeOK, Fits
    <3>5. CASE b = M
      <4>1. Held' = <<b>>
        BY <3>3, <3>5, HeldForms
      <4>2. /\ raw' = (z \o W) \o Held' /\ text' = text \o W /\ EndsWith(z \o W, line')
            /\ PlainAt(raw', Len(z) + 1)
        BY <1>8, <1>9, <3>3, <3>5, <4>1, Zenon DEF z1, t1
      <4>3. W \in Seq(Byte) /\ Len(W) \in 1..3 /\ ~(Len(W) >= 2) /\ Len(W) # 3
        BY <1>10
      <4> HIDE DEF W
      <4> QED
        BY <1>2, <3>4, <4>2, <4>3, Pushed
    <3>6. CASE b # M
      <4>1. Held' = <<>>
        BY <3>3, <3>6, HeldForms
      <4>2. (z \o WB) \o <<>> = z \o WB
        BY <1>8, ConcatEmptySeq
      <4>3. /\ raw' = (z \o WB) \o Held' /\ text' = text \o WB /\ EndsWith(z \o WB, line')
            /\ PlainAt(raw', Len(z) + 1) /\ PlainAt(raw', Len(z) + 2)
        BY <1>7, <1>8, <1>9, <3>3, <3>6, <4>1, <4>2, Zenon DEF z1, t1
      <4>4. WB \in Seq(Byte) /\ Len(WB) \in 1..3 /\ Len(WB) # 3
        BY <1>11
      <4> HIDE DEF WB
      <4> QED
        BY <1>2, <3>4, <4>3, <4>4, Pushed
    <3> QED
      BY <3>5, <3>6
  <2> QED
    BY <2>1, <2>2
<1>13. handled' = handled
  BY DEF PumpBrokenMagic
<1> QED
  BY <1>6, <1>12, <1>13 DEF TextStep

LEMMA UnknownOpSteps ==
    ASSUME PumpTypeOK, raw \in Seq(Symbol), NEW z, Behind(z), PumpUnknownOp
    PROVE  TextStep(z)
<1> DEFINE ms == PushMagic(line)
           t == text \o <<M, S>>
           Flushes(b) == /\ pending_m' = FALSE /\ deferred' = b
                         /\ line' = ms.line /\ text' = t
                         /\ event' = DeviceLine(ms.out)
<1>1. PICK b \in Byte \ KnownOp :
        /\ raw' = raw \o <<S, b>>
        /\ IF ms.out # <<>> THEN Flushes(b) ELSE AcceptUnframed(b, ms.line, t)
  BY DEF PumpUnknownOp
<1>2. /\ pending_m = TRUE /\ deferred = None /\ z \in Seq(Symbol) /\ text \in Seq(Symbol)
      /\ EndsWith(z, line) /\ Fits(line)
  BY DEF PumpUnknownOp, Behind, PumpTypeOK, Fits, Settled
<1>3. /\ M \in Byte /\ S \in Byte /\ b \in Byte /\ M \in Symbol /\ S \in Symbol /\ b \in Symbol
      /\ b # None /\ M # S /\ b \notin KnownOp \cup {Gap}
  BY ByteAssumption, ByteIsSymbol
<1>4. Fits(ms.line) /\ EndsWith(z \o <<M, S>>, ms.line)
  <2> DEFINE l1 == PushText(line, M).line
             z1 == z \o <<M>>
  <2>1. Fits(l1) /\ EndsWith(z1, l1)
    BY <1>2, <1>3, PushLine
  <2>2. <<M>> \in Seq(Symbol)
    BY <1>3
  <2>3. z1 \in Seq(Symbol)
    BY <1>2, <2>2, Places
  <2>4. ms.line = PushText(l1, S).line
    BY DEF PushMagic
  <2> HIDE DEF l1, z1
  <2>5. Fits(PushText(l1, S).line) /\ EndsWith(z1 \o <<S>>, PushText(l1, S).line)
    BY <1>3, <2>1, <2>3, PushLine
  <2>6. (z \o <<M>>) \o <<S>> = z \o <<M, S>>
    BY <1>2, <1>3, Regroup
  <2> HIDE DEF ms
  <2> QED
    BY <2>4, <2>5, <2>6 DEF z1
<1>5. raw = z \o <<M>>
  BY <1>2, HeldForms DEF Behind
<1>6. <<S, b>> \in Seq(Symbol)
  BY <1>3
<1>7. /\ (z \o <<M>>) \o <<S, b>> = z \o <<M, S, b>>
      /\ (z \o <<M, S>>) \o <<b>> = z \o <<M, S, b>>
      /\ t \o <<b>> = text \o <<M, S, b>>
  <2>1. ASSUME NEW y \in Seq(Symbol)
        PROVE  /\ (y \o <<M>>) \o <<S, b>> = y \o <<M, S, b>>
               /\ (y \o <<M, S>>) \o <<b>> = y \o <<M, S, b>>
    <3>1. M \in Symbol
      BY <1>3
    <3>2. S \in Symbol
      BY <1>3
    <3>3. b \in Symbol
      BY <1>3
    <3> QED
      BY <3>1, <3>2, <3>3, Regroup, ZenonT(60)
  <2> QED
    BY <1>2, <2>1, Zenon
<1>8. /\ z \o <<M, S>> \in Seq(Symbol) /\ z \o <<M, S, b>> \in Seq(Symbol)
      /\ text \o <<M, S>> \in Seq(Symbol)
      /\ PlainAt(z \o <<M, S, b>>, Len(z) + 1)
      /\ PlainAt(z \o <<M, S, b>>, Len(z) + 2)
      /\ b # M => PlainAt(z \o <<M, S, b>>, Len(z) + 3)
  BY <1>2, <1>3, Tail3
<1>9. raw' = z \o <<M, S, b>> /\ raw' = (z \o <<M, S>>) \o <<b>>
  BY <1>1, <1>5, <1>7
<1>10. <<M, S>> \in Seq(Byte) /\ Len(<<M, S>>) = 2
  BY <1>3
<1>11. <<M, S, b>> \in Seq(Byte) /\ Len(<<M, S, b>>) = 3
  BY <1>3
<1> DEFINE W == <<M, S>> WB == <<M, S, b>>
<1> HIDE DEF ms
<1>12. PumpTypeOK' /\ \E w \in Seq(Byte) : Pushes(z, w)
  <2>1. CASE ms.out # <<>>
    <3>1. Flushes(b)
      BY <1>1, <2>1
    <3>2. Held' = <<b>>
      BY <1>3, <3>1, HeldForms
    <3>3. PumpTypeOK'
      BY <1>3, <1>4, <3>1 DEF PumpTypeOK, Fits
    <3>4. /\ raw' = (z \o W) \o Held' /\ text' = text \o W /\ EndsWith(z \o W, line')
          /\ PlainAt(raw', Len(z) + 1) /\ PlainAt(raw', Len(z) + 2)
      BY <1>4, <1>8, <1>9, <3>1, <3>2, Zenon
    <3>5. W \in Seq(Byte) /\ Len(W) \in 1..3 /\ Len(W) # 3
      BY <1>10
    <3> HIDE DEF W
    <3> QED
      BY <1>2, <3>3, <3>4, <3>5, Pushed
  <2>2. CASE ms.out = <<>>
    <3>1. AcceptUnframed(b, ms.line, t)
      BY <1>1, <2>2
    <3> DEFINE z1 == z \o <<M, S>>
    <3>2. z1 \in Seq(Symbol) /\ t \in Seq(Symbol) /\ EndsWith(z1, ms.line)
      BY <1>4, <1>8
    <3> HIDE DEF z1, t
    <3>3. /\ Fits(line') /\ deferred' = None /\ pending_m' = (b = M)
          /\ b = M => text' = t /\ EndsWith(z1, line')
          /\ b # M => text' = t \o <<b>> /\ EndsWith(z1 \o <<b>>, line')
      BY <1>3, <1>4, <3>1, <3>2, Accepted
    <3>4. PumpTypeOK'
      BY <3>3 DEF PumpTypeOK, Fits
    <3>5. CASE b = M
      <4>1. Held' = <<b>>
        BY <3>3, <3>5, HeldForms
      <4>2. /\ raw' = (z \o W) \o Held' /\ text' = text \o W /\ EndsWith(z \o W, line')
            /\ PlainAt(raw', Len(z) + 1) /\ PlainAt(raw', Len(z) + 2)
        BY <1>8, <1>9, <3>3, <3>5, <4>1, Zenon DEF z1, t
      <4>3. W \in Seq(Byte) /\ Len(W) \in 1..3 /\ Len(W) # 3
        BY <1>10
      <4> HIDE DEF W
      <4> QED
        BY <1>2, <3>4, <4>2, <4>3, Pushed
    <3>6. CASE b # M
      <4>1. Held' = <<>>
        BY <3>3, <3>6, HeldForms
      <4>2. (z \o WB) \o <<>> = z \o WB
        BY <1>8, ConcatEmptySeq
      <4>3. /\ raw' = (z \o WB) \o Held' /\ text' = text \o WB /\ EndsWith(z \o WB, line')
            /\ PlainAt(raw', Len(z) + 1) /\ PlainAt(raw', Len(z) + 2) /\ PlainAt(raw', Len(z) + 3)
        BY <1>7, <1>8, <1>9, <3>3, <3>6, <4>1, <4>2, Zenon DEF z1, t
      <4>4. WB \in Seq(Byte) /\ Len(WB) \in 1..3
        BY <1>11
      <4> HIDE DEF WB
      <4> QED
        BY <1>2, <3>4, <4>3, <4>4, Pushed
    <3> QED
      BY <3>5, <3>6
  <2> QED
    BY <2>1, <2>2
<1>13. handled' = handled
  BY DEF PumpUnknownOp
<1> QED
  BY <1>1, <1>6, <1>12, <1>13 DEF TextStep

\* Text that is pushed is text of the whole stream.
LEMMA TextStepBehind ==
    ASSUME raw \in Seq(Symbol), NEW z, Behind(z), TextStep(z)
    PROVE  \E w \in Seq(Symbol) :
             /\ raw' \in Seq(Symbol) /\ z \o w \in Seq(Symbol) /\ Len(z \o w) = Len(z) + Len(w)
             /\ Behind(z \o w)' /\ \A i \in 1..Len(w) : PlainAt(raw', Len(z) + i)
<1>1. PICK w \in Seq(Byte) : Pushes(z, w)
  BY DEF TextStep
<1>2. PICK u \in Seq(Symbol) : raw' = raw \o u
  BY DEF TextStep
<1>3. z \in Seq(Symbol) /\ w \in Seq(Symbol) /\ raw' = (z \o w) \o Held' /\ text' = text \o w /\ Len(w) \in Nat
  BY <1>1, SeqMonotonic DEF Pushes, Behind, Symbol
<1>4. Held' \in Seq(Symbol)
  <2>1. PumpTypeOK'
    BY DEF TextStep
  <2>2. ASSUME NEW b \in Byte PROVE <<b>> \in Seq(Symbol)
    <3>1. b \in Symbol
      BY ByteIsSymbol
    <3> QED
      BY <3>1
  <2>3. M \in Byte
    BY ByteAssumption
  <2>4. pending_m' \in BOOLEAN /\ (pending_m' => deferred' = None) /\ (deferred' # None => deferred' \in Byte)
    BY <2>1 DEF PumpTypeOK
  <2> QED
    BY <2>2, <2>3, <2>4, EmptySeq, HeldForms
<1>5. z \o w \in Seq(Symbol) /\ raw' \in Seq(Symbol) /\ Len(z \o w) = Len(z) + Len(w) /\ Len(z) \in Nat
  <2>1. z \o w \in Seq(Symbol) /\ Len(z \o w) = Len(z) + Len(w) /\ Len(z) \in Nat
    BY <1>3, Places
  <2> QED
    BY <1>3, <1>4, <2>1, Places
<1>6. Settled(raw', Len(z), text, handled)
  BY <1>2, SettledMore DEF Behind
<1>7. \A i \in 1..Len(w) : PlainAt(raw', Len(z) + i) /\ raw'[Len(z) + i] = w[i]
  <2> SUFFICES ASSUME NEW i \in 1..Len(w)
               PROVE  PlainAt(raw', Len(z) + i) /\ raw'[Len(z) + i] = w[i]
    OBVIOUS
  <2>1. Len(z) + i \in 1..Len(z \o w)
    BY <1>3, <1>5
  <2>2. raw'[Len(z) + i] = (z \o w)[Len(z) + i]
    BY <1>3, <1>4, <1>5, <2>1, Places
  <2>3. (z \o w)[Len(z) + i] = w[i]
    BY <1>3, Places
  <2> QED
    BY <1>1, <2>2, <2>3 DEF Pushes
<1>8. Settled(raw', Len(z) + Len(w), text \o w, handled)
  BY <1>3, <1>5, <1>6, <1>7, SettledTexts
<1>9. EndsWith(z \o w, line') /\ PumpTypeOK' /\ handled' = handled
  BY <1>1 DEF Pushes, TextStep
<1>10. Behind(z \o w)'
  BY <1>3, <1>5, <1>8, <1>9 DEF Behind, EndsWith
<1> QED
  BY <1>3, <1>5, <1>7, <1>10

LEMMA TextStepInv ==
    ASSUME raw \in Seq(Symbol), NEW z, Behind(z), TextStep(z)
    PROVE  PumpInv'
BY TextStepBehind DEF PumpInv, TextStep

LEMMA FrameSteps ==
    ASSUME PumpTypeOK, raw \in Seq(Symbol), NEW z, Behind(z), PumpFrame
    PROVE  PumpInv'
<1>1. PICK r \in FrameBytes :
        /\ Short(r) \/ Stopped(r) \/ Whole(r)
        /\ raw' = raw \o <<S>> \o r \o (IF Short(r) THEN <<Gap>> ELSE <<>>)
        /\ handled' = IF ValidFrame(r) THEN Append(handled, <<Op(r), Args(r)>>) ELSE handled
  BY DEF PumpFrame
<1>2. /\ pending_m = TRUE /\ deferred = None /\ z \in Seq(Symbol) /\ text \in Seq(Symbol)
      /\ Settled(raw, Len(z), text, handled)
      /\ pending_m' = FALSE /\ deferred' = None /\ line' = <<>> /\ text' = text
  BY DEF PumpFrame, Behind, PumpTypeOK, Settled
<1>3. M \in Byte /\ S \in Byte /\ M \in Symbol /\ S \in Symbol /\ Gap \in Symbol
  BY ByteAssumption, ByteIsSymbol DEF Symbol
<1>4. r \in Seq(Byte) /\ r \in Seq(Symbol) /\ (r # <<>> => r[1] \in KnownOp)
  <2>1. r \in Seq(Byte) /\ (r # <<>> => r[1] \in KnownOp)
    <3>1. PICK n \in 0..(MaxBytes - Len(raw) - 1) : r \in [1..n -> Byte] /\ (n > 0 => r[1] \in KnownOp)
      BY DEF FrameBytes
    <3>2. n \in Nat
      OBVIOUS
    <3>3. r \in Seq(Byte) /\ Len(r) = n
      BY <3>1, <3>2
    <3> QED
      BY <3>1, <3>2, <3>3, EmptySeq
  <2> QED
    BY <2>1, SeqMonotonic DEF Symbol
<1>5. raw = z \o <<M>>
  BY <1>2, HeldForms DEF Behind
<1> DEFINE rest == IF Short(r) THEN <<Gap>> ELSE <<>>
           v == <<S>> \o (r \o rest)
           i == Len(z) + 1
           e == IF Short(r) THEN i + 3 + Len(r) ELSE i + 2 + Len(r)
<1>6. rest \in Seq(Symbol) /\ Len(rest) = (IF Short(r) THEN 1 ELSE 0) /\ (Short(r) => rest[1] = Gap)
  BY <1>3, EmptySeq
<1>7. <<S>> \in Seq(Symbol) /\ <<M>> \in Seq(Symbol) /\ Len(<<S>>) = 1 /\ Len(<<M>>) = 1
      /\ <<S>>[1] = S /\ <<M>>[1] = M
  BY <1>3
<1>8. raw' = raw \o v /\ v \in Seq(Symbol) /\ raw' \in Seq(Symbol)
  <2> HIDE DEF rest
  <2>1. raw \o <<S>> \in Seq(Symbol) /\ r \o rest \in Seq(Symbol) /\ v \in Seq(Symbol)
    BY <1>4, <1>6, <1>7, Places
  <2>2. ((raw \o <<S>>) \o r) \o rest = (raw \o <<S>>) \o (r \o rest)
    BY <1>4, <1>6, <2>1, Regrouped, ZenonT(60)
  <2>3. (raw \o <<S>>) \o (r \o rest) = raw \o v
    BY <1>7, <2>1, Regrouped, Zenon
  <2>4. raw' = ((raw \o <<S>>) \o r) \o rest
    BY <1>1 DEF rest
  <2> QED
    BY <2>1, <2>2, <2>3, <2>4, Places
<1>9. /\ Len(z) \in Nat /\ Len(r) \in Nat /\ Len(raw) = i
      /\ Len(v) = 1 + (Len(r) + Len(rest)) /\ Len(raw') = i + Len(v)
      /\ raw[i] = M /\ v[1] = S
      /\ \A k \in 1..Len(r) : v[1 + k] = r[k]
      /\ Short(r) => v[2 + Len(r)] = Gap
  <2> HIDE DEF rest
  <2> DEFINE x == r \o rest
  <2>1. /\ x \in Seq(Symbol) /\ Len(r) \in Nat /\ Len(x) = Len(r) + Len(rest) /\ Len(x) \in Nat
        /\ \A k \in 1..Len(r) : x[k] = r[k]
        /\ \A k \in 1..Len(rest) : x[Len(r) + k] = rest[k]
    BY <1>4, <1>6, Places
  <2>2. 1 \in 1..Len(<<M>>) /\ 1 \in 1..Len(<<S>>)
    BY <1>7
  <2>3. Len(z) \in Nat /\ Len(raw) = Len(z) + Len(<<M>>) /\ raw[Len(z) + 1] = <<M>>[1]
    BY <1>2, <1>5, <1>7, <2>2, Places
  <2> HIDE DEF x
  <2> DEFINE y == <<S>>
  <2>7. y \in Seq(Symbol) /\ Len(y) = 1 /\ y[1] = S /\ 1 \in 1..Len(y)
    BY <1>7
  <2> HIDE DEF y
  <2>4. /\ Len(y \o x) = 1 + Len(x) /\ (y \o x)[1] = S
        /\ \A k \in 1..Len(x) : (y \o x)[1 + k] = x[k]
    <3>1. /\ Len(y \o x) = Len(y) + Len(x) /\ (\A k \in 1..Len(y) : (y \o x)[k] = y[k])
          /\ \A k \in 1..Len(x) : (y \o x)[Len(y) + k] = x[k]
      BY <2>1, <2>7, Places
    <3> QED
      BY <2>7, <3>1
  <2>5. v = y \o x
    BY DEF x, y
  <2>6. Len(raw') = Len(raw) + Len(v) /\ Len(v) \in Nat
    BY <1>8, Places
  <2> HIDE DEF v
  <2>8. ASSUME NEW k \in 1..Len(r) PROVE v[1 + k] = r[k]
    BY <1>6, <2>1, <2>4, <2>5, SMTT(30)
  <2>9. ASSUME Short(r) PROVE v[2 + Len(r)] = Gap
    <3>1. Len(r) + 1 \in 1..Len(x) /\ 1 \in 1..Len(rest) /\ 1 + (Len(r) + 1) = 2 + Len(r)
      BY <1>6, <2>1, <2>9
    <3>2. v[1 + (Len(r) + 1)] = x[Len(r) + 1]
      BY <2>4, <2>5, <3>1
    <3> QED
      BY <1>6, <2>1, <2>9, <3>1, <3>2
  <2> QED
    BY <1>7, <2>1, <2>3, <2>4, <2>5, <2>6, <2>8, <2>9
<1>10. Settled(raw', Len(z), text, handled)
  BY <1>2, <1>8, SettledMore
<1> DEFINE q == IF ValidFrame(r) THEN <<<<Op(r), Args(r)>>>> ELSE <<>>
<1>11. ASSUME NEW u \in Seq(Symbol)
       PROVE  /\ NextStart(raw' \o u, i) = e
              /\ TextPiece(raw' \o u, i) = <<>>
              /\ RequestPiece(raw' \o u, i) = q
  <2> DEFINE s == raw' \o u
  <2>1. s \in Seq(Symbol) /\ Len(s) >= Len(raw') /\ \A k \in 1..Len(raw') : s[k] = raw'[k]
    BY <1>8, Places
  <2>2. /\ \A k \in 1..Len(raw) : raw'[k] = raw[k]
        /\ \A k \in 1..Len(v) : raw'[Len(raw) + k] = v[k]
    BY <1>8, Places
  <2> HIDE DEF s, v, rest, i
  <2>3. /\ i \in Nat \ {0} /\ Len(raw) = i /\ Len(v) = 1 + (Len(r) + Len(rest)) /\ Len(raw') = i + Len(v)
        /\ Len(r) \in Nat /\ Len(rest) \in {0, 1} /\ Len(s) \in Nat
    BY <1>6, <1>9, <2>1 DEF i
  <2>4. s[i] = M
    BY <1>9, <2>1, <2>2, <2>3
  <2>5. \A k \in 1..Len(v) : s[i + k] = v[k]
    <3> SUFFICES ASSUME NEW k \in 1..Len(v) PROVE s[i + k] = v[k]
      OBVIOUS
    <3>1. i + k \in 1..Len(raw')
      BY <2>3
    <3> QED
      BY <2>1, <2>2, <2>3, <3>1
  <2>6. s[i + 1] = S
    BY <1>9, <2>3, <2>5
  <2>7. \A k \in 1..Len(r) : s[i + 1 + k] = r[k]
    <3> SUFFICES ASSUME NEW k \in 1..Len(r) PROVE s[i + 1 + k] = r[k]
      OBVIOUS
    <3>1. 1 + k \in 1..Len(v) /\ i + (1 + k) = i + 1 + k
      BY <2>3
    <3>2. s[i + (1 + k)] = v[1 + k]
      BY <2>5, <3>1
    <3> QED
      BY <1>9, <3>1, <3>2
  <2>8. Short(r) => s[i + 2 + Len(r)] = Gap
    <3> SUFFICES ASSUME Short(r) PROVE s[i + 2 + Len(r)] = Gap
      OBVIOUS
    <3>1. 2 + Len(r) \in 1..Len(v) /\ i + (2 + Len(r)) = i + 2 + Len(r)
      BY <1>6, <2>3
    <3>2. s[i + (2 + Len(r))] = v[2 + Len(r)]
      BY <2>5, <3>1
    <3> QED
      BY <1>9, <3>1, <3>2
  <2>9. e \in Nat /\ e <= Len(s) + 1
    BY <1>6, <2>1, <2>3
  <2>10. \/ Short(r) /\ s[i + 2 + Len(r)] = Gap /\ e = i + 3 + Len(r)
         \/ (Stopped(r) \/ Whole(r)) /\ e = i + 2 + Len(r)
    BY <1>1, <2>8
  <2> HIDE DEF e
  <2>11. FrameAt(s, i) /\ FrameEnd(s, i) = e /\ RequestPiece(s, i) = q
    <3>1. s \in Seq(Symbol) /\ i \in Nat \ {0} /\ r \in Seq(Byte) /\ e \in Nat
      BY <1>4, <2>1, <2>3, <2>9
    <3>2. (r # <<>> => r[1] \in KnownOp) /\ e <= Len(s) + 1
      BY <1>4, <2>9
    <3> QED
      BY <2>4, <2>6, <2>7, <2>10, <3>1, <3>2, FrameRead, Zenon
  <2> QED
    BY <2>11 DEF NextStart, TextPiece, s
<1>12. e = Len(raw') + 1
  <2> HIDE DEF rest, v, i
  <2>1. i \in Nat
    BY <1>9 DEF i
  <2> QED
    BY <1>6, <1>9, <2>1
<1>13. /\ ReadsAt(raw', Len(z) + 1, Len(raw'), <<>>, q)
       /\ Len(raw') \in (Len(z) + 1)..Len(raw') /\ <<>> \in Seq(Symbol)
  <2>1. Len(raw') \in (Len(z) + 1)..Len(raw')
    <3> HIDE DEF v, rest
    <3>1. Len(rest) \in {0, 1}
      BY <1>6
    <3>2. Len(raw') = (Len(z) + 1) + (1 + (Len(r) + Len(rest)))
      BY <1>9
    <3>3. Len(z) \in Nat /\ Len(r) \in Nat
      BY <1>9
    <3> QED
      BY <3>1, <3>2, <3>3
  <2> HIDE DEF v, rest, e, q
  <2>2. ReadsAt(raw', Len(z) + 1, Len(raw'), <<>>, q)
    BY <1>11, <1>12, Zenon DEF ReadsAt
  <2> QED
    BY <2>1, <2>2, EmptySeq
<1>14. handled \in Seq(Request) /\ q \in Seq(Request) /\ handled \o q = handled'
  <2>1. handled \in Seq(Request)
    BY <1>2 DEF Settled
  <2>2. CASE ValidFrame(r)
    <3> DEFINE p == <<Op(r), Args(r)>>
    <3>1. Len(r) \in Nat /\ Len(r) >= 1
      BY <1>4, <2>2 DEF ValidFrame, Whole, HasHeader
    <3>2. Op(r) \in Symbol
      BY <1>4, <3>1 DEF Op
    <3>3. \A k \in 2..(Len(r) - 1) : r[k] \in Symbol
      BY <1>4, <3>1
    <3>4. Args(r) \in Seq(Symbol)
      BY <3>1, <3>3, SubSeqProperties DEF Args
    <3>5. p \in Request
      BY <3>2, <3>4 DEF Request
    <3>6. q = <<p>> /\ handled' = Append(handled, p)
      BY <1>1, <2>2
    <3> HIDE DEF p, q
    <3>7. <<p>> \in Seq(Request) /\ Append(handled, p) = handled \o <<p>>
      BY <2>1, <3>5, AppendIsConcat
    <3> QED
      BY <2>1, <3>6, <3>7
  <2>3. CASE ~ValidFrame(r)
    <3>1. q = <<>> /\ handled' = handled
      BY <1>1, <2>3
    <3> HIDE DEF q
    <3> QED
      BY <2>1, <3>1, EmptySeq, ConcatEmptySeq
  <2> QED
    BY <2>2, <2>3
<1>15. text \o <<>> = text'
  BY <1>2, ConcatEmptySeq
<1>16. Settled(raw', Len(raw'), text', handled')
  <2> HIDE DEF v, rest, i, e, q
  <2>1. Settled(raw', Len(raw'), text \o <<>>, handled \o q)
    BY <1>8, <1>10, <1>13, <1>14, SettledNext
  <2> QED
    BY <1>14, <1>15, <2>1
<1>17. Held' = <<>> /\ raw' \o <<>> = raw'
  BY <1>2, <1>8, HeldForms, ConcatEmptySeq
<1>18. PumpTypeOK'
  <2>1. <<>> \in Seq(Byte) /\ Len(<<>>) = 0 /\ 0 <= LineMax
    BY EmptySeq, LimitAssumption
  <2> QED
    BY <1>2, <2>1 DEF PumpTypeOK
<1>19. ASSUME NEW x, x = raw' PROVE x \in Seq(Symbol) /\ Behind(x)'
  <2>1. EndsWith(raw', <<>>)
    BY <1>8, <1>17 DEF EndsWith
  <2>2. EndsWith(x, line') /\ raw' = x \o Held' /\ Settled(raw', Len(x), text', handled')
    BY <1>2, <1>16, <1>17, <1>19, <2>1
  <2> QED
    BY <1>8, <1>19, <2>2 DEF Behind, EndsWith, Settled
<1>20. \E x : x = raw'
  OBVIOUS
<1> QED
  BY <1>8, <1>18, <1>19, <1>20 DEF PumpInv

----------------------------------------------------------------------------
(* The specification.                                                      *)

LEMMA PumpStart == PumpInit => PumpInv
<1> SUFFICES ASSUME PumpInit PROVE PumpInv
  OBVIOUS
<1>1. PumpTypeOK
  <2>1. <<>> \in Seq(Byte) /\ Len(<<>>) = 0 /\ 0 <= LineMax
    BY EmptySeq, LimitAssumption
  <2> QED
    BY <2>1 DEF PumpInit, PumpTypeOK
<1>2. Held = <<>>
  BY HeldForms DEF PumpInit
<1>3. <<>> \in Seq(Symbol) /\ <<>> \o <<>> = <<>> /\ Len(<<>>) = 0
  BY EmptySeq, ConcatEmptySeq
<1>4. Settled(raw, 0, text, handled) /\ raw = <<>> /\ line = <<>>
  BY SettledStart DEF PumpInit
<1>5. Behind(<<>>)
  BY <1>2, <1>3, <1>4 DEF Behind, EndsWith
<1> QED
  BY <1>1, <1>3, <1>4, <1>5 DEF PumpInv

LEMMA PumpStep == PumpInv /\ [PumpNext]_pumpVars => PumpInv'
<1> SUFFICES ASSUME PumpInv, [PumpNext]_pumpVars PROVE PumpInv'
  OBVIOUS
<1>1. PumpTypeOK /\ raw \in Seq(Symbol)
  BY DEF PumpInv
<1>2. PICK z \in Seq(Symbol) : Behind(z)
  BY DEF PumpInv
<1>3. CASE UNCHANGED <<pending_m, deferred, line, raw, text, handled>>
  BY <1>3 DEF PumpInv, PumpTypeOK, Behind, Held
<1>4. CASE PumpIdle("Timeout") \/ PumpIdle("Closed")
  BY <1>3, <1>4 DEF PumpIdle
<1>5. CASE PumpText
  BY <1>1, <1>2, <1>5, TextSteps, TextStepInv
<1>6. CASE PumpBrokenMagic
  BY <1>1, <1>2, <1>6, BrokenMagicSteps, TextStepInv
<1>7. CASE PumpUnknownOp
  BY <1>1, <1>2, <1>7, UnknownOpSteps, TextStepInv
<1>8. CASE PumpFrame
  BY <1>1, <1>2, <1>8, FrameSteps
<1>9. CASE UNCHANGED pumpVars
  BY <1>3, <1>9 DEF pumpVars
<1> QED
  BY <1>4, <1>5, <1>6, <1>7, <1>8, <1>9 DEF PumpNext, Pump

\* StreamState's held-back bytes (pending_m, deferred) are all that is not yet
\* settled as text or request, at every call of pump.
THEOREM PumpInvariant == PumpSpec => []PumpInv
<1>1. PumpInit => PumpInv
  BY PumpStart
<1>2. PumpInv /\ [PumpNext]_pumpVars => PumpInv'
  BY PumpStep
<1> QED
  BY <1>1, <1>2, PTL DEF PumpSpec

\* The inductive invariant says what the properties do.
LEMMA PumpInvImplies ==
    PumpInv => /\ PumpTypeOK /\ TextConserved /\ RequestsHandledOnce /\ LineContiguous
<1> SUFFICES ASSUME PumpInv
             PROVE  PumpTypeOK /\ TextConserved /\ RequestsHandledOnce /\ LineContiguous
  OBVIOUS
<1>1. PumpTypeOK /\ raw \in Seq(Symbol)
  BY DEF PumpInv
<1>2. PICK z \in Seq(Symbol) : Behind(z)
  BY DEF PumpInv
<1>3. /\ raw = z \o Held /\ Settled(raw, Len(z), text, handled) /\ text \in Seq(Symbol)
      /\ EndsWith(z, line) /\ line \in Seq(Symbol)
  BY <1>1, <1>2, SeqMonotonic DEF Behind, Settled, PumpTypeOK, Symbol
<1>4. \/ Held = <<>>
      \/ \E b \in Byte : Held = <<b>>
  BY <1>1, ByteAssumption, HeldForms DEF PumpTypeOK
<1>5. Held \in Seq(Symbol)
  <2>1. ASSUME NEW b \in Byte PROVE <<b>> \in Seq(Symbol)
    <3>1. b \in Symbol
      BY ByteIsSymbol
    <3> QED
      BY <3>1
  <2> QED
    BY <1>4, <2>1, EmptySeq
<1>6. TextConserved /\ RequestsHandledOnce
  <2>1. CASE Held = <<>>
    <3>1. raw = z /\ text \o Held = text
      BY <1>3, <2>1, ConcatEmptySeq
    <3> QED
      BY <1>1, <1>3, <3>1, SettledWhole DEF TextConserved, RequestsHandledOnce
  <2>2. CASE \E b \in Byte : Held = <<b>>
    <3>1. PICK b \in Byte : Held = <<b>>
      BY <2>2
    <3> DEFINE B == <<b>>
    <3>2. Len(B) = 1 /\ B[1] = b
      OBVIOUS
    <3>3. B \in Seq(Symbol)
      BY <1>5, <3>1
    <3> HIDE DEF B
    <3>4. raw = z \o B
      BY <1>3, <3>1 DEF B
    <3>5. Len(raw) = Len(z) + 1 /\ raw[Len(raw)] = b
      <4>1. /\ Len(z \o B) = Len(z) + Len(B)
            /\ \A i \in 1..Len(B) : (z \o B)[Len(z) + i] = B[i]
        BY <3>3, Places
      <4>2. 1 \in 1..Len(B)
        BY <3>2
      <4> QED
        BY <3>2, <3>4, <4>1, <4>2
    <3>6. TextOf(raw) = text \o <<raw[Len(raw)]>> /\ RequestsOf(raw) = handled
      BY <1>1, <1>3, <3>5, SettledWhole
    <3>7. TextOf(raw) = text \o Held
      BY <3>1, <3>5, <3>6, Zenon
    <3> QED
      BY <3>6, <3>7 DEF TextConserved, RequestsHandledOnce
  <2> QED
    BY <1>4, <2>1, <2>2
<1>7. LineContiguous
  <2> DEFINE l == line \o Held
  <2>1. PICK p \in Seq(Symbol) : z = p \o line
    BY <1>3 DEF EndsWith
  <2>2. raw = p \o l /\ l \in Seq(Symbol)
    <3>1. (p \o line) \o Held = p \o (line \o Held)
      BY <1>3, <1>5, Regrouped, Zenon
    <3> QED
      BY <1>3, <1>5, <2>1, <3>1, Places
  <2> HIDE DEF l
  <2>3. /\ Len(p) \in Nat /\ Len(l) \in Nat /\ Len(raw) = Len(p) + Len(l)
        /\ \A i \in 1..Len(l) : raw[Len(p) + i] = l[i]
    BY <2>2, Places
  <2>4. SubSeq(raw, Len(p) + 1, Len(raw)) = l
    <3> DEFINE m == Len(p) + 1
               n == Len(raw)
               y == SubSeq(raw, m, n)
    <3>1. m \in Int /\ n \in Int /\ (\A i \in m..n : raw[i] \in Symbol)
      BY <1>1, <2>3
    <3>2. n - m + 1 = Len(l)
      BY <2>3
    <3> HIDE DEF m, n
    <3>3. /\ y \in Seq(Symbol) /\ Len(y) = IF m <= n THEN n - m + 1 ELSE 0
          /\ \A i \in 1..(n - m + 1) : y[i] = raw[m + i - 1]
      BY <3>1, SubSeqProperties
    <3> HIDE DEF y
    <3>4. Len(y) = Len(l)
      BY <2>3, <3>1, <3>2, <3>3
    <3>5. ASSUME NEW i \in 1..Len(l) PROVE y[i] = l[i]
      <4>1. y[i] = raw[m + i - 1]
        BY <3>2, <3>3
      <4>2. m + i - 1 = Len(p) + i
        BY <2>3 DEF m
      <4> QED
        BY <2>3, <4>1, <4>2
    <3>6. y = l
      BY <2>2, <3>3, <3>4, <3>5, SeqEqual
    <3> QED
      BY <3>6 DEF y, m, n
  <2>5. Len(raw) - Len(l) + 1 = Len(p) + 1 /\ Len(l) <= Len(raw)
    BY <2>3
  <2> QED
    BY <2>4, <2>5 DEF LineContiguous, l
<1> QED
  BY <1>1, <1>6, <1>7

\* A line never outgrows its buffer, and a byte is never deferred while an M
\* is pending, whatever the device sends (push_text and the two carry-over
\* fields of StreamState).
THEOREM PumpTypeCorrect == PumpSpec => []PumpTypeOK
BY PumpInvariant, PumpInvImplies, PTL

\* The bytes pumped as text are the stream without its requests, for every
\* request format, line limit and stream: nothing is lost, repeated or leaked
\* around a split magic (pending_m, deferred and accept_unframed).
THEOREM PumpConservesText == PumpSpec => []TextConserved
BY PumpInvariant, PumpInvImplies, PTL

\* The requests pump hands to SeederCore::handle are the valid ones of the
\* stream, each once and in order (read_request).
THEOREM PumpHandlesOnce == PumpSpec => []RequestsHandledOnce
BY PumpInvariant, PumpInvImplies, PTL

\* The unfinished line is always the end of what was read: a request clears it
\* (line.clear() in pump), so text never crosses one.
THEOREM PumpLineContiguous == PumpSpec => []LineContiguous
BY PumpInvariant, PumpInvImplies, PTL

----------------------------------------------------------------------------
(* What every pump does, in any state.                                     *)

LEMMA LineFits ==
    ASSUME NEW l, Fits(l), NEW b \in Byte
    PROVE  Fits(PushText(l, b).line)
<1>1. l \in Seq(Symbol) /\ <<>> \in Seq(Symbol)
  BY SeqMonotonic, EmptySeq DEF Fits, Symbol
<1>2. l = <<>> \o l
  BY <1>1, ConcatEmptySeq
<1>3. EndsWith(l, l)
  BY <1>1, <1>2 DEF EndsWith
<1> QED
  BY <1>1, <1>3, PushLine

LEMMA AcceptedTypes ==
    ASSUME NEW b \in Byte, NEW l, Fits(l), NEW t, AcceptUnframed(b, l, t)
    PROVE  PumpTypeOK'
<1>1. Fits(line') /\ deferred' = None /\ pending_m' \in BOOLEAN
  BY LineFits DEF AcceptUnframed
<1> QED
  BY <1>1 DEF PumpTypeOK, Fits

LEMMA PumpTypes == PumpTypeOK /\ Pump => PumpTypeOK'
<1> SUFFICES ASSUME PumpTypeOK, Pump PROVE PumpTypeOK'
  OBVIOUS
<1>1. Fits(line) /\ M \in Byte /\ S \in Byte
  BY ByteAssumption DEF PumpTypeOK, Fits
<1>2. Fits(PushText(line, M).line) /\ Fits(PushMagic(line).line)
  <2>1. Fits(PushText(line, M).line)
    BY <1>1, LineFits
  <2>2. PushMagic(line).line = PushText(PushText(line, M).line, S).line
    BY DEF PushMagic
  <2> QED
    BY <1>1, <2>1, <2>2, LineFits
<1>3. CASE PumpIdle("Timeout") \/ PumpIdle("Closed")
  BY <1>3 DEF PumpIdle, PumpTypeOK
<1>4. CASE PumpText
  BY <1>1, <1>4, AcceptedTypes DEF PumpText
<1>5. CASE PumpBrokenMagic
  <2> DEFINE m == PushText(line, M)
  <2>1. PICK b \in Byte :
          IF m.out # <<>>
            THEN pending_m' = FALSE /\ deferred' = b /\ line' = m.line
            ELSE AcceptUnframed(b, m.line, Append(text, M))
    BY <1>5 DEF PumpBrokenMagic
  <2> HIDE DEF m
  <2>2. CASE m.out # <<>>
    BY <1>2, <2>1, <2>2 DEF PumpTypeOK, Fits, m
  <2>3. CASE m.out = <<>>
    BY <1>2, <2>1, <2>3, AcceptedTypes DEF m
  <2> QED
    BY <2>2, <2>3
<1>6. CASE PumpUnknownOp
  <2> DEFINE m == PushMagic(line)
  <2>1. PICK b \in Byte :
          IF m.out # <<>>
            THEN pending_m' = FALSE /\ deferred' = b /\ line' = m.line
            ELSE AcceptUnframed(b, m.line, text \o <<M, S>>)
    BY <1>6 DEF PumpUnknownOp
  <2> HIDE DEF m
  <2>2. CASE m.out # <<>>
    BY <1>2, <2>1, <2>2 DEF PumpTypeOK, Fits, m
  <2>3. CASE m.out = <<>>
    BY <1>2, <2>1, <2>3, AcceptedTypes DEF m
  <2> QED
    BY <2>2, <2>3
<1>7. CASE PumpFrame
  <2>1. pending_m' = FALSE /\ deferred' = None /\ line' = <<>>
    BY <1>7 DEF PumpFrame
  <2>2. <<>> \in Seq(Byte) /\ Len(<<>>) = 0 /\ 0 <= LineMax
    BY EmptySeq, LimitAssumption
  <2> QED
    BY <2>1, <2>2 DEF PumpTypeOK
<1> QED
  BY <1>3, <1>4, <1>5, <1>6, <1>7 DEF Pump

LEMMA FrameBytesAre == \A r \in FrameBytes : r \in Seq(Symbol)
<1> SUFFICES ASSUME NEW r \in FrameBytes PROVE r \in Seq(Symbol)
  OBVIOUS
<1>1. PICK n \in 0..(MaxBytes - Len(raw) - 1) : r \in [1..n -> Byte]
  BY DEF FrameBytes
<1>2. n \in Nat
  OBVIOUS
<1>3. r \in Seq(Byte)
  BY <1>1, <1>2
<1> QED
  BY <1>3, SeqMonotonic DEF Symbol

\* What was read stays.
LEMMA PumpReads ==
    ASSUME raw \in Seq(Symbol), Pump
    PROVE  \E u \in Seq(Symbol) : raw' = raw \o u
<1>1. \A b \in Byte : <<b>> \in Seq(Symbol) /\ Append(raw, b) = raw \o <<b>>
  <2> SUFFICES ASSUME NEW b \in Byte PROVE <<b>> \in Seq(Symbol) /\ Append(raw, b) = raw \o <<b>>
    OBVIOUS
  <2>1. b \in Symbol
    BY ByteIsSymbol
  <2> QED
    BY <2>1, AppendIsConcat
<1>2. raw = raw \o <<>> /\ <<>> \in Seq(Symbol)
  BY ConcatEmptySeq, EmptySeq
<1>3. CASE raw' = raw
  BY <1>2, <1>3
<1>4. ASSUME NEW b \in Byte, NextByte(b) PROVE \E u \in Seq(Symbol) : raw' = raw \o u
  BY <1>1, <1>3, <1>4 DEF NextByte
<1>5. CASE PumpIdle("Timeout") \/ PumpIdle("Closed")
  BY <1>3, <1>5 DEF PumpIdle
<1>6. CASE PumpText
  BY <1>4, <1>6 DEF PumpText
<1>7. CASE PumpBrokenMagic
  BY <1>4, <1>7 DEF PumpBrokenMagic
<1>8. CASE PumpUnknownOp
  <2>1. PICK op \in Byte : raw' = raw \o <<S, op>>
    BY <1>8 DEF PumpUnknownOp
  <2>2. S \in Symbol /\ op \in Symbol
    BY ByteAssumption, ByteIsSymbol
  <2>3. <<S, op>> \in Seq(Symbol)
    BY <2>2
  <2> QED
    BY <2>1, <2>3
<1>9. CASE PumpFrame
  <2>1. PICK r \in FrameBytes :
          raw' = raw \o <<S>> \o r \o (IF Short(r) THEN <<Gap>> ELSE <<>>)
    BY <1>9 DEF PumpFrame
  <2> DEFINE rest == IF Short(r) THEN <<Gap>> ELSE <<>>
             y == <<S>>
  <2>2. rest \in Seq(Symbol)
    <3>1. Gap \in Symbol
      BY DEF Symbol
    <3>2. <<Gap>> \in Seq(Symbol)
      BY <3>1
    <3> QED
      BY <3>2, EmptySeq
  <2>3. y \in Seq(Symbol)
    BY <1>1, ByteAssumption
  <2>4. raw' = ((raw \o y) \o r) \o rest
    BY <2>1
  <2> HIDE DEF y, rest
  <2>5. r \in Seq(Symbol)
    BY FrameBytesAre
  <2>6. raw \o y \in Seq(Symbol) /\ r \o rest \in Seq(Symbol)
    BY <2>2, <2>3, <2>5, Places
  <2>7. y \o (r \o rest) \in Seq(Symbol)
    BY <2>3, <2>6, Places
  <2>8. ((raw \o y) \o r) \o rest = (raw \o y) \o (r \o rest)
    BY <2>2, <2>5, <2>6, Regrouped, ZenonT(60)
  <2>9. (raw \o y) \o (r \o rest) = raw \o (y \o (r \o rest))
    BY <2>3, <2>6, Regrouped, Zenon
  <2> QED
    BY <2>4, <2>7, <2>8, <2>9
<1> QED
  BY <1>5, <1>6, <1>7, <1>8, <1>9 DEF Pump

----------------------------------------------------------------------------
(* The invariant.                                                          *)

\* Everything before the bytes held back is text, for good.
AllText(z) == Behind(z) /\ \A i \in 1..Len(z) : PlainAt(raw, i)

\* Where a command was sent, short of a byte that was held back then.
TextUpto(on) == on.at - (IF on.spill THEN 1 ELSE 0)

\* The inductive invariant: as long as no request was seen, all that was read
\* is text, and so is what was read before each command.
SessionInv ==
    /\ TypeOK
    /\ raw \in Seq(Symbol)
    /\ phase = "settle" => attempts = 0
    /\ phase \in {"settle", "attach"} /\ ~protocol_seen => \E z \in Seq(Symbol) : AllText(z)
    /\ \A on \in onAt : TextUpto(on) \in Int /\ \A i \in 1..TextUpto(on) : PlainAt(raw, i)
    /\ ConsoleReleased

LEMMA SessionStart == Init => SessionInv
<1> SUFFICES ASSUME Init PROVE SessionInv
  OBVIOUS
<1>1. PumpTypeOK /\ raw = <<>> /\ raw \in Seq(Symbol)
  BY PumpStart, EmptySeq DEF Init, PumpInv, PumpInit
<1>2. TypeOK
  <2>1. 0 \in 0..Timeout /\ 0 \in 0..(Timeout + RetryAfter) /\ 0 \in 0..MaxAttempts /\ 0 \in 0..1
    BY PolicyAssumption
  <2> QED
    BY <1>1, <2>1 DEF Init, TypeOK, Phases
<1>3. PICK z \in Seq(Symbol) : Behind(z)
  BY PumpStart DEF Init, PumpInv
<1>4. Len(z) = 0
  <2>1. z = <<>>
    BY <1>1, <1>3, HeldForms, ConcatEmptySeq DEF Behind, Init, PumpInit
  <2> QED
    BY <2>1, EmptySeq
<1>5. AllText(z)
  BY <1>3, <1>4 DEF AllText
<1> QED
  BY <1>1, <1>2, <1>5 DEF Init, SessionInv, ConsoleReleased

\* What was text stays text, and the commands sent so far stay outside requests.
LEMMA TextStays ==
    ASSUME raw \in Seq(Symbol), NEW u \in Seq(Symbol), raw' = raw \o u
    PROVE  raw' \in Seq(Symbol) /\ \A i : PlainAt(raw, i) => PlainAt(raw', i)
BY PlainForGood, ConcatProperties

\* A pump that sees no request keeps everything text.
LEMMA TextPump ==
    ASSUME PumpTypeOK, raw \in Seq(Symbol), NEW z \in Seq(Symbol), AllText(z),
           Pump, event'.kind # "SeederFrame"
    PROVE  \E x \in Seq(Symbol) : AllText(x)'
<1>1. CASE PumpIdle("Timeout") \/ PumpIdle("Closed")
  <2>1. UNCHANGED <<pending_m, deferred, line, raw, text, handled>>
    BY <1>1 DEF PumpIdle
  <2> QED
    BY <2>1 DEF AllText, Behind, Held
<1>2. CASE PumpText \/ PumpBrokenMagic \/ PumpUnknownOp
  <2>1. Behind(z)
    BY DEF AllText
  <2>2. TextStep(z)
    BY <1>2, <2>1, TextSteps, BrokenMagicSteps, UnknownOpSteps
  <2>3. PICK w \in Seq(Symbol) :
          /\ raw' \in Seq(Symbol) /\ z \o w \in Seq(Symbol) /\ Len(z \o w) = Len(z) + Len(w)
          /\ Behind(z \o w)' /\ \A i \in 1..Len(w) : PlainAt(raw', Len(z) + i)
    BY <2>1, <2>2, TextStepBehind
  <2>4. ASSUME NEW i \in 1..Len(z \o w) PROVE PlainAt(raw', i)
    <3>1. CASE i <= Len(z)
      <4>1. PlainAt(raw, i)
        BY <3>1 DEF AllText
      <4> QED
        BY <2>2, <4>1, TextStays DEF TextStep
    <3>2. CASE ~(i <= Len(z))
      <4>1. Len(z) \in Nat /\ Len(w) \in Nat
        OBVIOUS
      <4>2. i - Len(z) \in 1..Len(w) /\ Len(z) + (i - Len(z)) = i
        BY <2>3, <3>2, <4>1
      <4> QED
        BY <2>3, <4>2
    <3> QED
      BY <3>1, <3>2
  <2>5. AllText(z \o w)'
    BY <2>3, <2>4 DEF AllText
  <2> QED
    BY <2>3, <2>5
<1>3. ~PumpFrame
  BY DEF PumpFrame, Event
<1> QED
  BY <1>1, <1>2, <1>3 DEF Pump

\* What may be sent when no magic is pending: everything read is text, but a
\* byte that is held back.
LEMMA TextUptoNow ==
    ASSUME NEW z \in Seq(Symbol), AllText(z)', PumpTypeOK', pending_m' = FALSE,
           NEW on, on.at = Len(raw'), on.spill = (deferred' # None)
    PROVE  TextUpto(on) \in Int /\ \A i \in 1..TextUpto(on) : PlainAt(raw', i)
<1>1. raw' = z \o Held' /\ Len(z) \in Nat /\ \A i \in 1..Len(z) : PlainAt(raw', i)
  BY DEF AllText, Behind
<1>2. CASE deferred' = None
  <2>1. Held' = <<>>
    BY <1>2, HeldForms
  <2>2. raw' = z
    BY <1>1, <2>1, ConcatEmptySeq
  <2> QED
    BY <1>1, <1>2, <2>2 DEF TextUpto
<1>3. CASE deferred' # None
  <2>1. deferred' \in Byte /\ Held' = <<deferred'>>
    BY <1>3, HeldForms DEF PumpTypeOK
  <2>2. deferred' \in Symbol
    BY <2>1, ByteIsSymbol
  <2> DEFINE y == <<deferred'>>
  <2>3. y \in Seq(Symbol) /\ Len(y) = 1
    BY <2>2
  <2>4. raw' = z \o y
    BY <1>1, <2>1
  <2> HIDE DEF y
  <2>5. Len(raw') = Len(z) + 1
    <3>1. Len(z \o y) = Len(z) + Len(y)
      BY <2>3, Places
    <3> QED
      BY <2>3, <2>4, <3>1
  <2>6. TextUpto(on) = Len(z)
    <3>1. on.spill
      BY <1>3
    <3>2. TextUpto(on) = on.at - 1
      BY <3>1, Zenon DEF TextUpto
    <3> QED
      BY <1>1, <2>5, <3>2
  <2> QED
    BY <1>1, <2>6
<1> QED
  BY <1>2, <1>3

----------------------------------------------------------------------------
(* The steps.                                                              *)

\* A step that leaves the stream and the commands alone keeps what is known
\* about them.
LEMMA StreamKept ==
    ASSUME SessionInv, UNCHANGED <<raw, onAt>>,
           phase' \in {"settle", "attach"} /\ ~protocol_seen' =>
               /\ phase \in {"settle", "attach"} /\ ~protocol_seen
               /\ UNCHANGED <<pending_m, deferred, line, text, handled>>
    PROVE  /\ raw' \in Seq(Symbol)
           /\ phase' \in {"settle", "attach"} /\ ~protocol_seen' => \E z \in Seq(Symbol) : AllText(z)'
           /\ \A on \in onAt' : TextUpto(on) \in Int /\ \A i \in 1..TextUpto(on) : PlainAt(raw', i)
<1>1. ASSUME phase' \in {"settle", "attach"}, ~protocol_seen'
      PROVE  \E z \in Seq(Symbol) : AllText(z)'
  <2>1. PICK z \in Seq(Symbol) : AllText(z)
    BY <1>1 DEF SessionInv
  <2>2. UNCHANGED <<pending_m, deferred, line, raw, text, handled>>
    BY <1>1
  <2> QED
    BY <2>1, <2>2 DEF AllText, Behind, Held
<1> QED
  BY <1>1 DEF SessionInv

LEMMA CtrlCStep == SessionInv /\ CtrlC => SessionInv'
<1> SUFFICES ASSUME SessionInv, CtrlC PROVE SessionInv'
  OBVIOUS
<1>1. /\ UNCHANGED <<pending_m, deferred, line, raw, text, handled, onAt, phase, protocol_seen, attempts>>
      /\ UNCHANGED <<now, retry_at, link, last, turn>> /\ stop' = TRUE
  BY DEF CtrlC, pumpVars
<1>2. TypeOK' /\ ConsoleReleased'
  BY <1>1 DEF SessionInv, TypeOK, PumpTypeOK, ConsoleReleased
<1> QED
  BY <1>1, <1>2, StreamKept DEF SessionInv

LEMMA EnableStep == SessionInv /\ Enable => SessionInv'
<1> SUFFICES ASSUME SessionInv, Enable PROVE SessionInv'
  OBVIOUS
<1>1. /\ UNCHANGED <<pending_m, deferred, line, raw, text, handled, stop, now, protocol_seen, turn>>
      /\ retry_at' = RetryAfter /\ phase = "settle" /\ attempts = 0
  BY DEF SessionInv, Enable, pumpVars
<1>2. \/ phase' = "detach" /\ UNCHANGED <<attempts, onAt, last, link>>
      \/ SendOn(0, FALSE, "attach")
  BY DEF Enable
<1>3. /\ phase' \in {"attach", "detach"} /\ link' \in {"up", "down"} /\ last' \in {"none", "on", "off"}
      /\ attempts' \in 0..1
      /\ onAt' = onAt \/ onAt' = onAt \cup {[at |-> 0, spill |-> FALSE]}
  BY <1>1, <1>2 DEF SendOn, SessionInv, TypeOK
<1>4. TypeOK' /\ ConsoleReleased'
  <2>1. PumpTypeOK'
    BY <1>1 DEF SessionInv, TypeOK, PumpTypeOK
  <2>2. retry_at' \in 0..(Timeout + RetryAfter) /\ attempts' \in 0..MaxAttempts
    BY <1>1, <1>3, PolicyAssumption
  <2> QED
    BY <1>1, <1>3, <2>1, <2>2 DEF SessionInv, TypeOK, ConsoleReleased, Phases
<1>5. phase' # "settle"
  BY <1>3
<1>6. phase' \in {"settle", "attach"} /\ ~protocol_seen' => \E z \in Seq(Symbol) : AllText(z)'
  BY <1>1 DEF SessionInv, AllText, Behind, Held
<1>7. \A on \in onAt' : TextUpto(on) \in Int /\ \A i \in 1..TextUpto(on) : PlainAt(raw', i)
  <2> SUFFICES ASSUME NEW on \in onAt'
               PROVE  TextUpto(on) \in Int /\ \A i \in 1..TextUpto(on) : PlainAt(raw', i)
    OBVIOUS
  <2>1. CASE on \in onAt
    BY <1>1, <2>1 DEF SessionInv
  <2>2. CASE on = [at |-> 0, spill |-> FALSE]
    <3>1. TextUpto(on) = 0
      BY <2>2 DEF TextUpto
    <3> QED
      BY <3>1
  <2> QED
    BY <1>3, <2>1, <2>2
<1> QED
  BY <1>1, <1>4, <1>5, <1>6, <1>7 DEF SessionInv

LEMMA PhaseStep ==
    ASSUME SessionInv, GiveUp \/ StartServing \/ Detach
    PROVE  SessionInv'
<1>1. CASE GiveUp
  <2>1. /\ UNCHANGED <<pending_m, deferred, line, raw, text, handled, onAt, protocol_seen, attempts>>
        /\ UNCHANGED <<stop, now, retry_at, link, last, turn>> /\ phase' = "detach"
    BY <1>1 DEF GiveUp, pumpVars
  <2>2. TypeOK' /\ ConsoleReleased'
    BY <2>1 DEF SessionInv, TypeOK, PumpTypeOK, ConsoleReleased, Phases
  <2> QED
    BY <2>1, <2>2, StreamKept DEF SessionInv
<1>2. CASE StartServing
  <2>1. /\ UNCHANGED <<raw, text, handled, onAt, protocol_seen, attempts>>
        /\ UNCHANGED <<stop, now, retry_at, link, last, turn>> /\ phase' = "serve"
        /\ pending_m' = FALSE /\ deferred' = None /\ line' = <<>>
    BY <1>2 DEF StartServing
  <2>2. <<>> \in Seq(Byte) /\ Len(<<>>) = 0 /\ 0 <= LineMax
    BY EmptySeq, LimitAssumption
  <2>3. TypeOK' /\ ConsoleReleased'
    BY <2>1, <2>2 DEF SessionInv, TypeOK, PumpTypeOK, ConsoleReleased, Phases
  <2> QED
    BY <2>1, <2>3, StreamKept DEF SessionInv
<1>3. CASE Detach
  <2>1. /\ UNCHANGED <<pending_m, deferred, line, raw, text, handled, onAt, protocol_seen, attempts>>
        /\ UNCHANGED <<stop, now, retry_at, turn>> /\ phase' = "exit"
        /\ (link' = link /\ last' = "off") \/ (link' = "down" /\ last' = last)
    BY <1>3 DEF Detach, pumpVars
  <2>2. TypeOK' /\ ConsoleReleased'
    BY <2>1 DEF SessionInv, TypeOK, PumpTypeOK, ConsoleReleased, Phases
  <2> QED
    BY <2>1, <2>2, StreamKept DEF SessionInv
<1> QED
  BY <1>1, <1>2, <1>3

LEMMA ServeStepInv == SessionInv /\ ServeStep => SessionInv'
<1> SUFFICES ASSUME SessionInv, ServeStep PROVE SessionInv'
  OBVIOUS
<1>1. /\ UNCHANGED <<stop, now, attempts, retry_at, protocol_seen, onAt, last>>
      /\ turn' = 1 - turn /\ phase' \in {"serve", "detach"} /\ link' \in {"up", "down"}
  BY DEF ServeStep, SessionInv, TypeOK
<1>2. Pump \/ UNCHANGED pumpVars
  BY DEF ServeStep
<1>3. PumpTypeOK'
  BY <1>2, PumpTypes DEF SessionInv, TypeOK, PumpTypeOK, pumpVars
<1>4. TypeOK' /\ ConsoleReleased'
  BY <1>1, <1>3 DEF SessionInv, TypeOK, ConsoleReleased, Phases
<1>5. raw' \in Seq(Symbol) /\ \A i : PlainAt(raw, i) => PlainAt(raw', i)
  BY <1>2, PumpReads, TextStays DEF SessionInv, pumpVars
<1> QED
  BY <1>1, <1>4, <1>5 DEF SessionInv

LEMMA AttachStepInv == SessionInv /\ AttachStep => SessionInv'
<1> SUFFICES ASSUME SessionInv, AttachStep PROVE SessionInv'
  OBVIOUS
<1>1. /\ phase = "attach" /\ Pump /\ Elapse /\ now < Timeout
      /\ protocol_seen' = (protocol_seen \/ event'.kind = "SeederFrame")
      /\ UNCHANGED <<stop, turn>>
  BY DEF AttachStep
<1> DEFINE sent == [at |-> Len(raw'), spill |-> deferred' # None]
           Quiet == UNCHANGED <<attempts, retry_at, onAt, last>>
<1>2. \/ phase' = "detach" /\ link' \in {"down", link} /\ Quiet
      \/ phase' = "attached" /\ link' = link /\ Quiet
      \/ phase' = phase /\ link' = link /\ Quiet
      \/ RetryDue /\ SendOn(Len(raw'), deferred' # None, "attach") /\ retry_at' = now' + RetryAfter
  BY DEF AttachStep
<1>3. /\ phase' \in {"attach", "attached", "detach"} /\ link' \in {"up", "down"}
      /\ last' \in {"none", "on", "off"}
      /\ \/ Quiet
         \/ /\ RetryDue /\ retry_at' = now' + RetryAfter
            /\ attempts' \in {attempts, attempts + 1} /\ onAt' \in {onAt, onAt \cup {sent}}
  BY <1>1, <1>2 DEF SendOn, SessionInv, TypeOK
<1>4. PumpTypeOK'
  BY <1>1, PumpTypes DEF SessionInv, TypeOK
<1>5. now' \in 0..Timeout
  BY <1>1, PolicyAssumption DEF Elapse, SessionInv, TypeOK
<1>6. retry_at' \in 0..(Timeout + RetryAfter) /\ attempts' \in 0..MaxAttempts
  <2>1. CASE Quiet
    BY <2>1 DEF SessionInv, TypeOK
  <2>2. CASE ~Quiet
    BY <1>3, <1>5, <2>2, PolicyAssumption DEF RetryDue, SessionInv, TypeOK
  <2> QED
    BY <2>1, <2>2
<1>7. TypeOK' /\ ConsoleReleased'
  BY <1>1, <1>3, <1>4, <1>5, <1>6 DEF SessionInv, TypeOK, ConsoleReleased, Phases
<1>8. raw' \in Seq(Symbol) /\ \A i : PlainAt(raw, i) => PlainAt(raw', i)
  BY <1>1, PumpReads, TextStays DEF SessionInv
<1>9. ASSUME ~protocol_seen' PROVE \E z \in Seq(Symbol) : AllText(z)'
  <2>1. ~protocol_seen /\ event'.kind # "SeederFrame"
    BY <1>1, <1>9
  <2>2. PICK z \in Seq(Symbol) : AllText(z)
    BY <1>1, <2>1 DEF SessionInv
  <2> QED
    BY <1>1, <2>1, <2>2, TextPump DEF SessionInv, TypeOK
<1>10. \A on \in onAt' : TextUpto(on) \in Int /\ \A i \in 1..TextUpto(on) : PlainAt(raw', i)
  <2> SUFFICES ASSUME NEW on \in onAt'
               PROVE  TextUpto(on) \in Int /\ \A i \in 1..TextUpto(on) : PlainAt(raw', i)
    OBVIOUS
  <2>1. CASE on \in onAt
    BY <1>8, <2>1 DEF SessionInv
  <2>2. CASE on \notin onAt
    <3>1. RetryDue /\ on = sent
      BY <1>3, <2>2
    <3>2. ~protocol_seen' /\ pending_m' = FALSE
      BY <1>4, <3>1 DEF RetryDue, PumpTypeOK
    <3>3. PICK z \in Seq(Symbol) : AllText(z)'
      BY <1>9, <3>2
    <3>4. on.at = Len(raw') /\ on.spill = (deferred' # None)
      BY <3>1
    <3> HIDE DEF sent
    <3> QED
      BY <1>4, <3>2, <3>3, <3>4, TextUptoNow
  <2> QED
    BY <2>1, <2>2
<1>11. phase' # "settle"
  BY <1>3
<1> QED
  BY <1>7, <1>8, <1>9, <1>10, <1>11 DEF SessionInv

LEMMA SessionStep == SessionInv /\ [Next]_vars => SessionInv'
<1> SUFFICES ASSUME SessionInv, [Next]_vars PROVE SessionInv'
  OBVIOUS
<1>1. CASE UNCHANGED vars
  <2>1. UNCHANGED <<pending_m, deferred, line, raw, text, handled, onAt, phase, protocol_seen, attempts>>
    BY <1>1 DEF vars, pumpVars, sessionVars
  <2>2. UNCHANGED <<stop, now, retry_at, link, last, turn>>
    BY <1>1 DEF vars, sessionVars
  <2>3. TypeOK' /\ ConsoleReleased'
    BY <2>1, <2>2 DEF SessionInv, TypeOK, PumpTypeOK, ConsoleReleased
  <2> QED
    BY <2>1, <2>3, StreamKept DEF SessionInv
<1> QED
  BY <1>1, CtrlCStep, EnableStep, PhaseStep, ServeStepInv, AttachStepInv DEF Next, Host, Exited

\* attach_serial_folder, serve_loop and the Ctrl-C handler keep the session's
\* invariant, for every policy and device.
THEOREM SessionInvariant == Spec => []SessionInv
<1>1. Init => SessionInv
  BY SessionStart
<1>2. SessionInv /\ [Next]_vars => SessionInv'
  BY SessionStep
<1> QED
  BY <1>1, <1>2, PTL DEF Spec

\* Attempts and clock stay within the policy (AttachPolicy), in every phase.
THEOREM SessionTypeCorrect == Spec => []TypeOK
<1>1. SessionInv => TypeOK
  BY DEF SessionInv
<1> QED
  BY <1>1, SessionInvariant, PTL

\* However a session ends, the off command was the last thing written, or the
\* link had failed (the detach on every path out of cmd_serve).
THEOREM SessionReleasesConsole == Spec => []ConsoleReleased
<1>1. SessionInv => ConsoleReleased
  BY DEF SessionInv
<1> QED
  BY <1>1, SessionInvariant, PTL

\* attach_serial_folder never repeats the text command once part of a request
\* was read, for every request format, policy and device.
THEOREM SessionRetriesOutsideFraming == Spec => []RetryOutsideFraming
<1>1. SessionInv => RetryOutsideFraming
  BY PlainIsText DEF SessionInv, RetryOutsideFraming, NoFrameUpTo, TextUpto
<1> QED
  BY <1>1, SessionInvariant, PTL

\* How many steps a stopped session takes at most.
StepsLeft ==
    IF phase = "attached" THEN 3
    ELSE IF phase \in {"settle", "attach", "serve"} THEN 2
    ELSE IF phase = "detach" THEN 1
    ELSE 0

\* Once Ctrl-C was pressed every step of the host is one towards the exit,
\* whatever the device sends and wherever the session was: the flag is looked
\* at before the link is read (serve_loop, attach_serial_folder).
THEOREM SessionStopAdvances ==
    Spec => [](StepsLeft \in 0..3) /\ [][stop => stop' /\ StepsLeft' < StepsLeft]_vars
<1>1. StepsLeft \in 0..3
  BY DEF StepsLeft
<1>2. ASSUME Next, vars' # vars, stop PROVE stop' /\ StepsLeft' < StepsLeft
  <2>1. CASE CtrlC
    BY <1>2, <2>1 DEF CtrlC
  <2>2. CASE Enable
    BY <1>2, <2>2 DEF Enable, StepsLeft
  <2>3. CASE GiveUp
    BY <1>2, <2>3 DEF GiveUp, StepsLeft
  <2>4. CASE AttachStep
    BY <1>2, <2>4 DEF AttachStep
  <2>5. CASE StartServing
    BY <1>2, <2>5 DEF StartServing, StepsLeft
  <2>6. CASE ServeStep
    BY <1>2, <2>6 DEF ServeStep, StepsLeft
  <2>7. CASE Detach
    BY <1>2, <2>7 DEF Detach, StepsLeft
  <2>8. CASE Exited
    BY <1>2, <2>8 DEF Exited
  <2> QED
    BY <1>2, <2>1, <2>2, <2>3, <2>4, <2>5, <2>6, <2>7, <2>8 DEF Next, Host
<1>3. [Next]_vars => [stop => stop' /\ StepsLeft' < StepsLeft]_vars
  BY <1>2
<1> QED
  BY <1>1, <1>3, PTL DEF Spec

=============================================================================
