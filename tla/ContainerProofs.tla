-------------------------- MODULE ContainerProofs --------------------------
(***************************************************************************)
(* Proofs about the container, for every image, block size, key and board: *)
(* what is built verifies, what is damaged does not or holds the same      *)
(* payload, and what passes verify --pub is what was signed.  Short, the   *)
(* four bytes a leaf and an inner node keep of their SHA-256, is any       *)
(* function; what rests on it telling two inputs apart assumes             *)
(* CollisionFree.                                                          *)
(***************************************************************************)
EXTENDS Container, SequenceTheorems, WellFoundedInduction, TLAPS

----------------------------------------------------------------------------
(* Induction, with the claim as a set.                                     *)

LEMMA SetInduction ==
    ASSUME NEW P, 0 \in P, \A n \in Nat : n \in P => n + 1 \in P
    PROVE  Nat \subseteq P
<1> DEFINE Less == OpToRel(<, Nat)
           Rest == Nat \ P
<1>1. IsWellFoundedOn(Less, Nat)
  BY NatLessThanWellFounded
<1>2. \A i, j \in Nat : <<i, j>> \in Less <=> i < j
  BY DEF OpToRel
<1> HIDE DEF Less
<1> SUFFICES ASSUME Rest # {} PROVE FALSE
  OBVIOUS
<1>3. PICK i \in Rest : \A j \in Rest : ~(<<j, i>> \in Less)
  BY <1>1, WFMin, Rest \subseteq Nat
<1>4. i \in Nat \ {0} /\ i - 1 \in Nat /\ i - 1 < i
  OBVIOUS
<1>5. i - 1 \notin Rest
  BY <1>2, <1>3, <1>4
<1>6. i - 1 \in P /\ (i - 1) + 1 = i
  BY <1>4, <1>5
<1> QED
  BY <1>4, <1>6

\* A set of naturals that is not empty has a least element.
LEMMA LeastExists ==
    ASSUME NEW S \in SUBSET Nat, S # {}
    PROVE  \E i \in S : \A j \in S : i <= j
<1> DEFINE Less == OpToRel(<, Nat)
<1>1. IsWellFoundedOn(Less, Nat)
  BY NatLessThanWellFounded
<1>2. \A i, j \in Nat : <<i, j>> \in Less <=> i < j
  BY DEF OpToRel
<1> HIDE DEF Less
<1>3. PICK i \in S : \A j \in S : ~(<<j, i>> \in Less)
  BY <1>1, WFMin
<1>4. ASSUME NEW j \in S PROVE i <= j
  <2>1. i \in Nat /\ j \in Nat
    OBVIOUS
  <2>2. ~(j < i)
    BY <1>2, <1>3, <2>1
  <2> QED
    BY <2>1, <2>2
<1> QED
  BY <1>4

----------------------------------------------------------------------------
(* The loops of merkle::root.                                              *)


CarryBody(g, peaks, leaf, count) ==
    [k \in 0..count |-> IF k = 0 THEN leaf ELSE Combine(peaks[k], g[k - 1])]

LEMMA CarryExists ==
    ASSUME NEW count \in Nat, NEW peaks, NEW leaf
    PROVE  \E g : g = CarryBody(g, peaks, leaf, count)
<1> DEFINE Solves(g, m) == \A k \in 0..m : g[k] = IF k = 0 THEN leaf ELSE Combine(peaks[k], g[k - 1])
           P == {m \in Nat : \E g : Solves(g, m)}
<1>1. 0 \in P
  <2>1. Solves([k \in {0} |-> leaf], 0)
    OBVIOUS
  <2>2. \E g : Solves(g, 0)
    <3> HIDE DEF Solves
    <3> QED BY <2>1
  <2> QED
    BY <2>2
<1>2. ASSUME NEW m \in Nat, m \in P PROVE m + 1 \in P
  <2>1. PICK g : Solves(g, m)
    BY <1>2
  <2> DEFINE h == [k \in 0..(m + 1) |-> IF k = m + 1 THEN Combine(peaks[m + 1], g[m]) ELSE g[k]]
  <2>2. ASSUME NEW k \in 0..(m + 1) PROVE h[k] = IF k = 0 THEN leaf ELSE Combine(peaks[k], h[k - 1])
    <3>1. CASE k = m + 1
      <4>1. k # 0 /\ k - 1 = m /\ m \in 0..(m + 1) /\ m # m + 1
        BY <3>1
      <4> QED
        BY <3>1, <4>1
    <3>2. CASE k # m + 1
      <4>1. k \in 0..m /\ (k # 0 => k - 1 \in 0..(m + 1) /\ k - 1 # m + 1)
        BY <3>2
      <4> QED
        BY <2>1, <3>2, <4>1
    <3> QED
      BY <3>1, <3>2
  <2>3. Solves(h, m + 1)
    BY <2>2
  <2>4. \E g2 : Solves(g2, m + 1)
    <3> HIDE DEF Solves
    <3> QED BY <2>3
  <2> QED
    BY <2>4
<1>3. count \in P
  <2> HIDE DEF P
  <2> QED BY <1>1, <1>2, SetInduction
<1>4. PICK g : Solves(g, count)
  BY <1>3
<1> DEFINE f == [k \in 0..count |-> g[k]]
<1>5. ASSUME NEW k \in 0..count PROVE f[k] = IF k = 0 THEN leaf ELSE Combine(peaks[k], f[k - 1])
  <2>1. k # 0 => k - 1 \in 0..count
    OBVIOUS
  <2> QED
    BY <1>4, <2>1
<1>6. f = CarryBody(f, peaks, leaf, count)
  BY <1>5 DEF CarryBody
<1> QED
  BY <1>6

LEMMA CarryIs ==
    ASSUME NEW count \in Nat, NEW peaks, NEW leaf
    PROVE  \E g : /\ Carry(peaks, leaf, count) = g[count]
                 /\ \A k \in 0..count : g[k] = IF k = 0 THEN leaf ELSE Combine(peaks[k], g[k - 1])
<1> DEFINE f == CHOOSE g : g = CarryBody(g, peaks, leaf, count)
<1>1. f = CarryBody(f, peaks, leaf, count)
  BY CarryExists
<1>2. Carry(peaks, leaf, count) = f[count]
  BY DEF Carry, CarryBody
<1> HIDE DEF f
<1>3. \A k \in 0..count : f[k] = IF k = 0 THEN leaf ELSE Combine(peaks[k], f[k - 1])
  BY <1>1 DEF CarryBody
<1> QED
  BY <1>2, <1>3


PeaksBody(g, leaves, count) ==
    [k \in 0..count |-> IF k = 0 THEN <<>> ELSE AddLeaf(g[k - 1], leaves[k])]

LEMMA PeaksExists ==
    ASSUME NEW count \in Nat, NEW leaves
    PROVE  \E g : g = PeaksBody(g, leaves, count)
<1> DEFINE Solves(g, m) == \A k \in 0..m : g[k] = IF k = 0 THEN <<>> ELSE AddLeaf(g[k - 1], leaves[k])
           P == {m \in Nat : \E g : Solves(g, m)}
<1>1. 0 \in P
  <2>1. Solves([k \in {0} |-> <<>>], 0)
    OBVIOUS
  <2>2. \E g : Solves(g, 0)
    <3> HIDE DEF Solves
    <3> QED BY <2>1
  <2> QED
    BY <2>2
<1>2. ASSUME NEW m \in Nat, m \in P PROVE m + 1 \in P
  <2>1. PICK g : Solves(g, m)
    BY <1>2
  <2> DEFINE h == [k \in 0..(m + 1) |-> IF k = m + 1 THEN AddLeaf(g[m], leaves[m + 1]) ELSE g[k]]
  <2>2. ASSUME NEW k \in 0..(m + 1) PROVE h[k] = IF k = 0 THEN <<>> ELSE AddLeaf(h[k - 1], leaves[k])
    <3>1. CASE k = m + 1
      <4>1. k # 0 /\ k - 1 = m /\ m \in 0..(m + 1) /\ m # m + 1
        BY <3>1
      <4> QED
        BY <3>1, <4>1
    <3>2. CASE k # m + 1
      <4>1. k \in 0..m /\ (k # 0 => k - 1 \in 0..(m + 1) /\ k - 1 # m + 1)
        BY <3>2
      <4> QED
        BY <2>1, <3>2, <4>1
    <3> QED
      BY <3>1, <3>2
  <2>3. Solves(h, m + 1)
    BY <2>2
  <2>4. \E g2 : Solves(g2, m + 1)
    <3> HIDE DEF Solves
    <3> QED BY <2>3
  <2> QED
    BY <2>4
<1>3. count \in P
  <2> HIDE DEF P
  <2> QED BY <1>1, <1>2, SetInduction
<1>4. PICK g : Solves(g, count)
  BY <1>3
<1> DEFINE f == [k \in 0..count |-> g[k]]
<1>5. ASSUME NEW k \in 0..count PROVE f[k] = IF k = 0 THEN <<>> ELSE AddLeaf(f[k - 1], leaves[k])
  <2>1. k # 0 => k - 1 \in 0..count
    OBVIOUS
  <2> QED
    BY <1>4, <2>1
<1>6. f = PeaksBody(f, leaves, count)
  BY <1>5 DEF PeaksBody
<1> QED
  BY <1>6

LEMMA PeaksIs ==
    ASSUME NEW count \in Nat, NEW leaves
    PROVE  \E g : /\ Peaks(leaves, count) = g[count]
                 /\ \A k \in 0..count : g[k] = IF k = 0 THEN <<>> ELSE AddLeaf(g[k - 1], leaves[k])
<1> DEFINE f == CHOOSE g : g = PeaksBody(g, leaves, count)
<1>1. f = PeaksBody(f, leaves, count)
  BY PeaksExists
<1>2. Peaks(leaves, count) = f[count]
  BY DEF Peaks, PeaksBody
<1> HIDE DEF f
<1>3. \A k \in 0..count : f[k] = IF k = 0 THEN <<>> ELSE AddLeaf(f[k - 1], leaves[k])
  BY <1>1 DEF PeaksBody
<1> QED
  BY <1>2, <1>3

Join(peak, acc) == IF peak = Zero THEN acc ELSE IF acc = Zero THEN peak ELSE Combine(peak, acc)


BagBody(g, peaks, count) ==
    [k \in 0..count |-> IF k = 0 THEN Zero ELSE Join(peaks[k], g[k - 1])]

LEMMA BagExists ==
    ASSUME NEW peaks, NEW count \in Nat, Len(peaks) = count
    PROVE  \E g : g = BagBody(g, peaks, count)
<1> DEFINE Solves(g, m) == \A k \in 0..m : g[k] = IF k = 0 THEN Zero ELSE Join(peaks[k], g[k - 1])
           P == {m \in Nat : \E g : Solves(g, m)}
<1>1. 0 \in P
  <2>1. Solves([k \in {0} |-> Zero], 0)
    OBVIOUS
  <2>2. \E g : Solves(g, 0)
    <3> HIDE DEF Solves
    <3> QED BY <2>1
  <2> QED
    BY <2>2
<1>2. ASSUME NEW m \in Nat, m \in P PROVE m + 1 \in P
  <2>1. PICK g : Solves(g, m)
    BY <1>2
  <2> DEFINE h == [k \in 0..(m + 1) |-> IF k = m + 1 THEN Join(peaks[m + 1], g[m]) ELSE g[k]]
  <2>2. ASSUME NEW k \in 0..(m + 1) PROVE h[k] = IF k = 0 THEN Zero ELSE Join(peaks[k], h[k - 1])
    <3>1. CASE k = m + 1
      <4>1. k # 0 /\ k - 1 = m /\ m \in 0..(m + 1) /\ m # m + 1
        BY <3>1
      <4> QED
        BY <3>1, <4>1
    <3>2. CASE k # m + 1
      <4>1. k \in 0..m /\ (k # 0 => k - 1 \in 0..(m + 1) /\ k - 1 # m + 1)
        BY <3>2
      <4> QED
        BY <2>1, <3>2, <4>1
    <3> QED
      BY <3>1, <3>2
  <2>3. Solves(h, m + 1)
    BY <2>2
  <2>4. \E g2 : Solves(g2, m + 1)
    <3> HIDE DEF Solves
    <3> QED BY <2>3
  <2> QED
    BY <2>4
<1>3. count \in P
  <2> HIDE DEF P
  <2> QED BY <1>1, <1>2, SetInduction
<1>4. PICK g : Solves(g, count)
  BY <1>3
<1> DEFINE f == [k \in 0..count |-> g[k]]
<1>5. ASSUME NEW k \in 0..count PROVE f[k] = IF k = 0 THEN Zero ELSE Join(peaks[k], f[k - 1])
  <2>1. k # 0 => k - 1 \in 0..count
    OBVIOUS
  <2> QED
    BY <1>4, <2>1
<1>6. f = BagBody(f, peaks, count)
  BY <1>5 DEF BagBody
<1> QED
  BY <1>6

LEMMA BagIs ==
    ASSUME NEW peaks, NEW count \in Nat, Len(peaks) = count
    PROVE  \E g : /\ Bag(peaks) = g[count]
                 /\ \A k \in 0..count : g[k] = IF k = 0 THEN Zero ELSE Join(peaks[k], g[k - 1])
<1> DEFINE f == CHOOSE g : g = BagBody(g, peaks, count)
<1>1. f = BagBody(f, peaks, count)
  BY BagExists
<1>2. Bag(peaks) = f[count]
  BY DEF Bag, Join, BagBody
<1> HIDE DEF f
<1>3. \A k \in 0..count : f[k] = IF k = 0 THEN Zero ELSE Join(peaks[k], f[k - 1])
  BY <1>1 DEF BagBody
<1> QED
  BY <1>2, <1>3

----------------------------------------------------------------------------
(* The root determines the leaves, once their number is known.             *)

\* Hashes are equal only when what they were computed from is.
LEMMA HashIs ==
    /\ \A x : Hash(x) # Zero
    /\ \A x, y : Hash(x) = Hash(y) => x = y
<1>1. ASSUME NEW x PROVE Hash(x) # Zero
  <2>1. Len(Hash(x)) = 2 /\ Len(Zero) = 1
    BY DEF Hash, Zero
  <2> QED
    BY <2>1
<1>2. ASSUME NEW x, NEW y, Hash(x) = Hash(y) PROVE x = y
  <2>1. Hash(x)[2] = x /\ Hash(y)[2] = y
    BY DEF Hash
  <2> QED
    BY <1>2, <2>1
<1> QED
  BY <1>1, <1>2

LEMMA Mh4NotZero == \A x : Mh4(x) # Zero
<1> SUFFICES ASSUME NEW x PROVE Mh4(x) # Zero
  OBVIOUS
<1>1. Len(Mh4(x)) = 2 /\ Len(Zero) = 1
  BY DEF Mh4, Zero
<1> QED
  BY <1>1

LEMMA CombineNotZero == \A a, b : Combine(a, b) # Zero
BY Mh4NotZero DEF Combine

\* No two inputs share their four bytes: what a chance change of a container
\* may count on, with one exception in 2^32, and a deliberate one may not.
CollisionFree == \A x, y : Short(x) = Short(y) => x = y

LEMMA Mh4Injective ==
    ASSUME CollisionFree, NEW x, NEW y, Mh4(x) = Mh4(y)
    PROVE  x = y
<1>1. Mh4(x)[2] = Short(x) /\ Mh4(y)[2] = Short(y)
  BY DEF Mh4
<1>2. Short(x) = Short(y)
  BY <1>1
<1> QED
  BY <1>2 DEF CollisionFree

LEMMA CombineInjective ==
    ASSUME CollisionFree
    PROVE  \A a, b, c, d : Combine(a, b) = Combine(c, d) => a = c /\ b = d
<1> SUFFICES ASSUME NEW a, NEW b, NEW c, NEW d, Combine(a, b) = Combine(c, d) PROVE a = c /\ b = d
  OBVIOUS
<1>1. <<a, b>> = <<c, d>>
  BY Mh4Injective DEF Combine
<1> QED
  BY <1>1

LEMMA FreeIs ==
    ASSUME NEW n \in Nat, NEW p, Len(p) = n
    PROVE  /\ Free(p) \in 1..(n + 1)
           /\ Free(p) <= n => p[Free(p)] = Zero
           /\ \A j \in 1..(Free(p) - 1) : p[j] # Zero
<1> DEFINE S == {k \in 1..(n + 1) : k <= n => p[k] = Zero}
<1>1. n + 1 \in S /\ S \in SUBSET Nat
  OBVIOUS
<1>2. PICK k \in S : \A j \in S : k <= j
  <2> HIDE DEF S
  <2> QED BY <1>1, LeastExists
<1>3. ASSUME NEW j \in 1..(k - 1) PROVE p[j] # Zero
  <2>1. j \in 1..(n + 1) /\ ~(k <= j)
    BY <1>2
  <2>2. j \notin S
    BY <1>2, <2>1
  <2> QED
    BY <2>1, <2>2
<1>4. k \in 1..(Len(p) + 1) /\ (k <= Len(p) => p[k] = Zero) /\ \A j \in 1..(k - 1) : p[j] # Zero
  BY <1>2, <1>3
<1>5. \E x \in 1..(Len(p) + 1) : (x <= Len(p) => p[x] = Zero) /\ \A j \in 1..(x - 1) : p[j] # Zero
  BY <1>4
<1> QED
  BY <1>5 DEF Free

\* Peaks of the same shape: they differ in what they hold, not in where.
Alike(p, q, n) ==
    /\ Len(p) = n /\ Len(q) = n
    /\ p = [k \in 1..n |-> p[k]] /\ q = [k \in 1..n |-> q[k]]
    /\ \A k \in 1..n : p[k] = Zero <=> q[k] = Zero

LEMMA FreeSame ==
    ASSUME NEW n \in Nat, NEW p, NEW q, Alike(p, q, n)
    PROVE  Free(p) = Free(q)
<1>1. Len(p) = n /\ Len(q) = n /\ \A k \in 1..n : p[k] = Zero <=> q[k] = Zero
  BY DEF Alike
<1> DEFINE a == Free(p)
           b == Free(q)
<1>2. a \in 1..(n + 1) /\ (a <= n => p[a] = Zero) /\ \A j \in 1..(a - 1) : p[j] # Zero
  BY <1>1, FreeIs
<1>3. b \in 1..(n + 1) /\ (b <= n => q[b] = Zero) /\ \A j \in 1..(b - 1) : q[j] # Zero
  BY <1>1, FreeIs
<1> HIDE DEF a, b
<1>4. ~(a < b)
  <2>1. a < b => a \in 1..n /\ a \in 1..(b - 1) /\ a <= n
    BY <1>2, <1>3
  <2> QED
    BY <1>1, <1>2, <1>3, <2>1
<1>5. ~(b < a)
  <2>1. b < a => b \in 1..n /\ b \in 1..(a - 1) /\ b <= n
    BY <1>2, <1>3
  <2> QED
    BY <1>1, <1>2, <1>3, <2>1
<1>6. a = b
  BY <1>2, <1>3, <1>4, <1>5
<1> QED
  BY <1>6 DEF a, b

LEMMA CarryNotZero ==
    ASSUME NEW m \in Nat, NEW p, NEW leaf, leaf # Zero
    PROVE  Carry(p, leaf, m) # Zero
<1>1. PICK g : /\ Carry(p, leaf, m) = g[m]
               /\ \A k \in 0..m : g[k] = IF k = 0 THEN leaf ELSE Combine(p[k], g[k - 1])
  BY CarryIs
<1>2. m \in 0..m
  OBVIOUS
<1> QED
  BY <1>1, <1>2, CombineNotZero

LEMMA CarryInjective ==
    ASSUME CollisionFree, NEW m \in Nat, NEW p, NEW q, NEW a, NEW b, Carry(p, a, m) = Carry(q, b, m)
    PROVE  a = b /\ \A k \in 1..m : p[k] = q[k]
<1>1. PICK g : /\ Carry(p, a, m) = g[m]
               /\ \A k \in 0..m : g[k] = IF k = 0 THEN a ELSE Combine(p[k], g[k - 1])
  BY CarryIs
<1>2. PICK h : /\ Carry(q, b, m) = h[m]
               /\ \A k \in 0..m : h[k] = IF k = 0 THEN b ELSE Combine(q[k], h[k - 1])
  BY CarryIs
<1> DEFINE Same(k) == g[k] = h[k] => a = b /\ \A i \in 1..k : p[i] = q[i]
           P == {k \in Nat : k <= m => Same(k)}
<1>3. 0 \in P
  BY <1>1, <1>2
<1>4. ASSUME NEW k \in Nat, k \in P PROVE k + 1 \in P
  <2> SUFFICES ASSUME k + 1 <= m, g[k + 1] = h[k + 1]
               PROVE  a = b /\ \A i \in 1..(k + 1) : p[i] = q[i]
    OBVIOUS
  <2>1. k + 1 \in 0..m /\ k + 1 # 0 /\ (k + 1) - 1 = k /\ k <= m
    OBVIOUS
  <2>2. Combine(p[k + 1], g[k]) = Combine(q[k + 1], h[k])
    BY <1>1, <1>2, <2>1
  <2>3. p[k + 1] = q[k + 1] /\ g[k] = h[k]
    BY <2>2, CombineInjective
  <2>4. a = b /\ \A i \in 1..k : p[i] = q[i]
    BY <1>4, <2>1, <2>3
  <2>5. \A i \in 1..(k + 1) : i \in 1..k \/ i = k + 1
    OBVIOUS
  <2> QED
    BY <2>3, <2>4, <2>5
<1>5. m \in P
  <2> HIDE DEF P
  <2> QED BY <1>3, <1>4, SetInduction
<1>6. m <= m
  OBVIOUS
<1> QED
  BY <1>1, <1>2, <1>5, <1>6

\* What a leaf leaves of n peaks of which the free one is known.
Added(p, leaf, n, free) ==
    [k \in 1..(IF free > n THEN free ELSE n) |->
       IF k < free THEN Zero ELSE IF k = free THEN Carry(p, leaf, free - 1) ELSE p[k]]

LEMMA AddLeafIs ==
    ASSUME NEW n \in Nat, NEW p, Len(p) = n, NEW leaf
    PROVE  AddLeaf(p, leaf) = Added(p, leaf, n, Free(p))
BY DEF AddLeaf, Added

LEMMA AddLeafAlike ==
    ASSUME CollisionFree, NEW n \in Nat, NEW p, NEW q, Alike(p, q, n), NEW a, NEW b, a # Zero, b # Zero
    PROVE  /\ \E m \in Nat : Alike(AddLeaf(p, a), AddLeaf(q, b), m)
           /\ AddLeaf(p, a) = AddLeaf(q, b) => p = q /\ a = b
<1>1. PICK free : free = Free(p)
  OBVIOUS
<1> DEFINE m == IF free > n THEN free ELSE n
           x == Added(p, a, n, free)
           y == Added(q, b, n, free)
<1>2. /\ Len(p) = n /\ Len(q) = n /\ \A k \in 1..n : p[k] = Zero <=> q[k] = Zero
      /\ p = [k \in 1..n |-> p[k]] /\ q = [k \in 1..n |-> q[k]]
  BY DEF Alike
<1>3. free = Free(q)
  BY <1>1, FreeSame
<1>4. free \in 1..(n + 1) /\ (free <= n => p[free] = Zero /\ q[free] = Zero)
  BY <1>2, <1>3, <1>1, FreeIs
<1>5. AddLeaf(p, a) = x /\ AddLeaf(q, b) = y
  BY <1>2, <1>3, <1>1, AddLeafIs
<1>6. m \in Nat
  BY <1>4
<1> HIDE DEF m
<1>7. /\ Len(x) = m /\ x = [k \in 1..m |-> x[k]]
      /\ \A k \in 1..m : x[k] = IF k < free THEN Zero
                                ELSE IF k = free THEN Carry(p, a, free - 1) ELSE p[k]
  BY <1>6 DEF Added, m
<1>8. /\ Len(y) = m /\ y = [k \in 1..m |-> y[k]]
      /\ \A k \in 1..m : y[k] = IF k < free THEN Zero
                                ELSE IF k = free THEN Carry(q, b, free - 1) ELSE q[k]
  BY <1>6 DEF Added, m
<1>9. m \in Nat /\ free \in 1..m /\ free - 1 \in Nat /\ \A k \in 1..m : k > free => k \in 1..n
  BY <1>4 DEF m
<1> HIDE DEF x, y
<1>10. Carry(p, a, free - 1) # Zero /\ Carry(q, b, free - 1) # Zero
  BY <1>9, CarryNotZero
<1>11. ASSUME NEW k \in 1..m PROVE x[k] = Zero <=> y[k] = Zero
  <2>1. CASE k < free
    BY <1>7, <1>8, <2>1
  <2>2. CASE k = free
    BY <1>7, <1>8, <1>9, <1>10, <2>2
  <2>3. CASE k > free
    <3>1. k \in 1..n /\ ~(k < free) /\ k # free
      BY <1>9, <2>3
    <3> QED
      BY <1>2, <1>7, <1>8, <3>1
  <2> QED
    BY <1>9, <2>1, <2>2, <2>3
<1>12. Alike(x, y, m)
  BY <1>7, <1>8, <1>11 DEF Alike
<1>13. ASSUME x = y PROVE p = q /\ a = b
  <2>1. Carry(p, a, free - 1) = Carry(q, b, free - 1)
    BY <1>7, <1>8, <1>9, <1>13
  <2>2. a = b /\ \A k \in 1..(free - 1) : p[k] = q[k]
    BY <1>9, <2>1, CarryInjective
  <2>3. ASSUME NEW k \in 1..n PROVE p[k] = q[k]
    <3>1. CASE k < free
      <4>1. k \in 1..(free - 1)
        BY <1>9, <3>1
      <4> QED
        BY <2>2, <4>1
    <3>2. CASE k = free
      BY <1>4, <1>9, <3>2
    <3>3. CASE k > free
      <4>1. k \in 1..m
        BY <1>9, <3>3 DEF m
      <4>2. ~(k < free) /\ k # free
        BY <1>9, <3>3
      <4> QED
        BY <1>7, <1>8, <1>13, <4>1, <4>2
    <3> QED
      BY <1>9, <3>1, <3>2, <3>3
  <2>4. [k \in 1..n |-> p[k]] = [k \in 1..n |-> q[k]]
    BY <2>3
  <2> QED
    BY <1>2, <2>2, <2>4
<1> QED
  BY <1>9, <1>12, <1>13, <1>5

LEMMA PeaksAlike ==
    ASSUME CollisionFree, NEW n \in Nat, NEW L, NEW R, \A i \in 1..n : L[i] # Zero /\ R[i] # Zero
    PROVE  /\ \E m \in Nat : Alike(Peaks(L, n), Peaks(R, n), m)
           /\ Peaks(L, n) = Peaks(R, n) => \A i \in 1..n : L[i] = R[i]
<1>1. PICK g : /\ Peaks(L, n) = g[n]
               /\ \A k \in 0..n : g[k] = IF k = 0 THEN <<>> ELSE AddLeaf(g[k - 1], L[k])
  BY PeaksIs, ZenonT(60)
<1>2. PICK h : /\ Peaks(R, n) = h[n]
               /\ \A k \in 0..n : h[k] = IF k = 0 THEN <<>> ELSE AddLeaf(h[k - 1], R[k])
  BY PeaksIs, ZenonT(60)
<1> DEFINE Same(k) == /\ \E m \in Nat : Alike(g[k], h[k], m)
                      /\ g[k] = h[k] => \A i \in 1..k : L[i] = R[i]
           P == {k \in Nat : k <= n => Same(k)}
<1>3. 0 \in P
  <2>1. g[0] = <<>> /\ h[0] = <<>>
    BY <1>1, <1>2
  <2>2. Alike(<<>>, <<>>, 0)
    BY DEF Alike
  <2>3. Same(0)
    BY <2>1, <2>2
  <2> QED
    BY <2>3
<1>4. ASSUME NEW k \in Nat, k \in P PROVE k + 1 \in P
  <2> SUFFICES ASSUME k + 1 <= n PROVE Same(k + 1)
    OBVIOUS
  <2>1. k + 1 \in 0..n /\ k + 1 # 0 /\ (k + 1) - 1 = k /\ k <= n /\ k + 1 \in 1..n
    OBVIOUS
  <2>2. g[k + 1] = AddLeaf(g[k], L[k + 1]) /\ h[k + 1] = AddLeaf(h[k], R[k + 1])
    BY <1>1, <1>2, <2>1
  <2>3. Same(k)
    BY <1>4, <2>1
  <2>4. PICK m \in Nat : Alike(g[k], h[k], m)
    BY <2>3
  <2>5. L[k + 1] # Zero /\ R[k + 1] # Zero
    BY <2>1
  <2>6. /\ \E j \in Nat : Alike(g[k + 1], h[k + 1], j)
        /\ g[k + 1] = h[k + 1] => g[k] = h[k] /\ L[k + 1] = R[k + 1]
    BY <2>2, <2>4, <2>5, AddLeafAlike
  <2>7. \A i \in 1..(k + 1) : i \in 1..k \/ i = k + 1
    OBVIOUS
  <2> QED
    BY <2>3, <2>6, <2>7
<1>5. n \in P
  <2> HIDE DEF P
  <2> QED BY <1>3, <1>4, SetInduction
<1>6. n <= n
  OBVIOUS
<1> QED
  BY <1>1, <1>2, <1>5, <1>6

LEMMA BagInjective ==
    ASSUME CollisionFree, NEW n \in Nat, NEW p, NEW q, Alike(p, q, n), Bag(p) = Bag(q)
    PROVE  p = q
<1>1. /\ Len(p) = n /\ Len(q) = n /\ \A k \in 1..n : p[k] = Zero <=> q[k] = Zero
      /\ p = [k \in 1..n |-> p[k]] /\ q = [k \in 1..n |-> q[k]]
  BY DEF Alike
<1>2. PICK g : /\ Bag(p) = g[n]
               /\ \A k \in 0..n : g[k] = IF k = 0 THEN Zero ELSE Join(p[k], g[k - 1])
  BY <1>1, BagIs
<1>3. PICK h : /\ Bag(q) = h[n]
               /\ \A k \in 0..n : h[k] = IF k = 0 THEN Zero ELSE Join(q[k], h[k - 1])
  BY <1>1, BagIs
<1> DEFINE Same(k) == /\ g[k] = Zero <=> h[k] = Zero
                      /\ g[k] = h[k] => \A i \in 1..k : p[i] = q[i]
           P == {k \in Nat : k <= n => Same(k)}
<1>4. 0 \in P
  BY <1>2, <1>3
<1>5. ASSUME NEW k \in Nat, k \in P PROVE k + 1 \in P
  <2> SUFFICES ASSUME k + 1 <= n PROVE Same(k + 1)
    OBVIOUS
  <2>1. k + 1 \in 0..n /\ k + 1 # 0 /\ (k + 1) - 1 = k /\ k <= n /\ k + 1 \in 1..n
    OBVIOUS
  <2>2. g[k + 1] = Join(p[k + 1], g[k]) /\ h[k + 1] = Join(q[k + 1], h[k])
    BY <1>2, <1>3, <2>1
  <2>3. Same(k)
    BY <1>5, <2>1
  <2>4. p[k + 1] = Zero <=> q[k + 1] = Zero
    BY <1>1, <2>1
  <2>5. g[k + 1] = Zero <=> h[k + 1] = Zero
    BY <2>2, <2>3, <2>4, CombineNotZero DEF Join
  <2>6. g[k + 1] = h[k + 1] => g[k] = h[k] /\ p[k + 1] = q[k + 1]
    BY <2>2, <2>3, <2>4, CombineNotZero, CombineInjective DEF Join
  <2>7. \A i \in 1..(k + 1) : i \in 1..k \/ i = k + 1
    OBVIOUS
  <2> QED
    BY <2>3, <2>5, <2>6, <2>7
<1>6. n \in P
  <2> HIDE DEF P
  <2> QED BY <1>4, <1>5, SetInduction
<1>7. \A k \in 1..n : p[k] = q[k]
  <2>1. n <= n
    OBVIOUS
  <2> QED
    BY <1>2, <1>3, <1>6, <2>1
<1>8. [k \in 1..n |-> p[k]] = [k \in 1..n |-> q[k]]
  BY <1>7
<1> QED
  BY <1>1, <1>8

\* merkle::root is injective on lists of leaf hashes of one length.
LEMMA RootInjective ==
    ASSUME CollisionFree, NEW n \in Nat, NEW L, NEW R, Len(L) = n, Len(R) = n,
           \A i \in 1..n : L[i] # Zero /\ R[i] # Zero, Root(L) = Root(R)
    PROVE  \A i \in 1..n : L[i] = R[i]
<1>1. PICK m \in Nat : Alike(Peaks(L, n), Peaks(R, n), m)
  BY PeaksAlike
<1>2. Bag(Peaks(L, n)) = Bag(Peaks(R, n))
  BY DEF Root
<1>3. Peaks(L, n) = Peaks(R, n)
  BY <1>1, <1>2, BagInjective
<1> QED
  BY <1>3, PeaksAlike, ZenonT(60)

LEMMA BagNotZero ==
    ASSUME NEW n \in Nat, NEW p, Len(p) = n, NEW j \in 1..n, p[j] # Zero
    PROVE  Bag(p) # Zero
<1>1. PICK g : /\ Bag(p) = g[n]
               /\ \A k \in 0..n : g[k] = IF k = 0 THEN Zero ELSE Join(p[k], g[k - 1])
  BY BagIs
<1> DEFINE P == {k \in Nat : j <= k /\ k <= n => g[k] # Zero}
<1>2. 0 \in P
  OBVIOUS
<1>3. ASSUME NEW k \in Nat, k \in P PROVE k + 1 \in P
  <2> SUFFICES ASSUME j <= k + 1, k + 1 <= n PROVE g[k + 1] # Zero
    OBVIOUS
  <2>1. k + 1 \in 0..n /\ k + 1 # 0 /\ (k + 1) - 1 = k /\ k <= n
    OBVIOUS
  <2>2. g[k + 1] = Join(p[k + 1], g[k])
    BY <1>1, <2>1
  <2>3. CASE j = k + 1
    BY <2>2, <2>3, CombineNotZero DEF Join
  <2>4. CASE j # k + 1
    <3>1. j <= k
      BY <2>4
    <3>2. g[k] # Zero
      BY <1>3, <2>1, <3>1
    <3> QED
      BY <2>2, <3>2, CombineNotZero DEF Join
  <2> QED
    BY <2>3, <2>4
<1>4. n \in P
  <2> HIDE DEF P
  <2> QED BY <1>2, <1>3, SetInduction
<1>5. j <= n /\ n <= n
  OBVIOUS
<1> QED
  BY <1>1, <1>4, <1>5

LEMMA PeaksNotZero ==
    ASSUME NEW n \in Nat, n # 0, NEW L, \A i \in 1..n : L[i] # Zero
    PROVE  Bag(Peaks(L, n)) # Zero
<1>1. PICK g : /\ Peaks(L, n) = g[n]
               /\ \A k \in 0..n : g[k] = IF k = 0 THEN <<>> ELSE AddLeaf(g[k - 1], L[k])
  BY PeaksIs
<1>2. ASSUME NEW p, Len(p) \in Nat, NEW leaf, leaf # Zero
      PROVE  /\ Len(AddLeaf(p, leaf)) \in Nat
             /\ \E k \in 1..Len(AddLeaf(p, leaf)) : AddLeaf(p, leaf)[k] # Zero
  <2> PICK free : free = Free(p)
    OBVIOUS
  <2> PICK size : size = Len(p)
    OBVIOUS
  <2>1. free \in 1..(size + 1) /\ size \in Nat
    BY <1>2, FreeIs
  <2>2. AddLeaf(p, leaf) = Added(p, leaf, size, free)
    BY <1>2, AddLeafIs
  <2> DEFINE m == IF free > size THEN free ELSE size
             x == Added(p, leaf, size, free)
  <2>3. m \in Nat /\ free \in 1..m /\ free - 1 \in Nat
    BY <2>1
  <2>4. Len(x) = m /\ x[free] = Carry(p, leaf, free - 1)
    <3> HIDE DEF m
    <3>1. x = [k \in 1..m |-> IF k < free THEN Zero
                              ELSE IF k = free THEN Carry(p, leaf, free - 1) ELSE p[k]]
      BY DEF Added, m
    <3> QED
      BY <2>3, <3>1
  <2> HIDE DEF x, m
  <2>5. Carry(p, leaf, free - 1) # Zero
    BY <1>2, <2>3, CarryNotZero
  <2> QED
    BY <2>2, <2>3, <2>4, <2>5 DEF x
<1> DEFINE P == {k \in Nat : k <= n => Len(g[k]) \in Nat}
<1>3. 0 \in P
  BY <1>1
<1>4. ASSUME NEW k \in Nat, k \in P PROVE k + 1 \in P
  <2> SUFFICES ASSUME k + 1 <= n PROVE Len(g[k + 1]) \in Nat
    OBVIOUS
  <2>1. k + 1 \in 0..n /\ k + 1 # 0 /\ (k + 1) - 1 = k /\ k <= n /\ k + 1 \in 1..n
    OBVIOUS
  <2>2. g[k + 1] = AddLeaf(g[k], L[k + 1]) /\ L[k + 1] # Zero /\ Len(g[k]) \in Nat
    BY <1>1, <1>4, <2>1
  <2> QED
    BY <1>2, <2>2
<1>5. Nat \subseteq P
  <2> HIDE DEF P
  <2> QED BY <1>3, <1>4, SetInduction
<1>6. n - 1 \in Nat /\ n - 1 <= n /\ n \in 0..n /\ n \in 1..n
  OBVIOUS
<1>7. Len(g[n - 1]) \in Nat
  BY <1>5, <1>6
<1>8. g[n] = AddLeaf(g[n - 1], L[n]) /\ L[n] # Zero
  BY <1>1, <1>6
<1>9. Len(g[n]) \in Nat /\ \E k \in 1..Len(g[n]) : g[n][k] # Zero
  BY <1>2, <1>7, <1>8
<1>10. Bag(g[n]) # Zero
  BY <1>9, BagNotZero
<1> QED
  BY <1>1, <1>10

\* The root of a list of leaf hashes is never the hash of nothing.
LEMMA RootNotZero ==
    ASSUME NEW n \in Nat, n # 0, NEW L, Len(L) = n, \A i \in 1..n : L[i] # Zero
    PROVE  Root(L) # Zero
BY PeaksNotZero DEF Root

----------------------------------------------------------------------------
(* The root is the root of the tree.                                       *)

PowerBody(g, count) == [e \in 0..count |-> IF e = 0 THEN 1 ELSE 2 * g[e - 1]]

LEMMA PowersExist ==
    ASSUME NEW count \in Nat
    PROVE  \E g : g = PowerBody(g, count)
<1> DEFINE Solves(g, m) == \A e \in 0..m : g[e] = IF e = 0 THEN 1 ELSE 2 * g[e - 1]
           P == {m \in Nat : \E g : Solves(g, m)}
<1>1. 0 \in P
  <2>1. Solves([e \in {0} |-> 1], 0)
    OBVIOUS
  <2>2. \E g : Solves(g, 0)
    <3> HIDE DEF Solves
    <3> QED BY <2>1
  <2> QED
    BY <2>2
<1>2. ASSUME NEW m \in Nat, m \in P PROVE m + 1 \in P
  <2>1. PICK g : Solves(g, m)
    BY <1>2
  <2> DEFINE h == [e \in 0..(m + 1) |-> IF e = m + 1 THEN 2 * g[m] ELSE g[e]]
  <2>2. ASSUME NEW e \in 0..(m + 1) PROVE h[e] = IF e = 0 THEN 1 ELSE 2 * h[e - 1]
    <3>1. CASE e = m + 1
      <4>1. e # 0 /\ e - 1 = m /\ m \in 0..(m + 1) /\ m # m + 1
        BY <3>1
      <4> QED
        BY <3>1, <4>1
    <3>2. CASE e # m + 1
      <4>1. e \in 0..m /\ (e # 0 => e - 1 \in 0..(m + 1) /\ e - 1 # m + 1)
        BY <3>2
      <4> QED
        BY <2>1, <3>2, <4>1
    <3> QED
      BY <3>1, <3>2
  <2>3. Solves(h, m + 1)
    BY <2>2
  <2>4. \E g2 : Solves(g2, m + 1)
    <3> HIDE DEF Solves
    <3> QED BY <2>3
  <2> QED
    BY <2>4
<1>3. count \in P
  <2> HIDE DEF P
  <2> QED BY <1>1, <1>2, SetInduction
<1>4. PICK g : Solves(g, count)
  BY <1>3
<1> DEFINE f == [e \in 0..count |-> g[e]]
<1>5. ASSUME NEW e \in 0..count PROVE f[e] = IF e = 0 THEN 1 ELSE 2 * f[e - 1]
  <2>1. e # 0 => e - 1 \in 0..count
    OBVIOUS
  <2> QED
    BY <1>4, <2>1
<1>6. f = PowerBody(f, count)
  BY <1>5 DEF PowerBody
<1> QED
  BY <1>6

\* The powers of two, as a function of the exponent.
Doubling(g, n) == g[0] = 1 /\ \A e \in 1..n : g[e] = 2 * g[e - 1]

LEMMA PowersAre ==
    ASSUME NEW n \in Nat
    PROVE  \E g : Doubling(g, n) /\ Powers(n) = {g[e] : e \in 0..n}
<1> DEFINE f == CHOOSE g : g = PowerBody(g, n)
<1>1. f = PowerBody(f, n)
  BY PowersExist
<1>2. Powers(n) = {f[e] : e \in 0..n}
  BY DEF Powers, PowerBody
<1> HIDE DEF f
<1>3. \A e \in 0..n : f[e] = IF e = 0 THEN 1 ELSE 2 * f[e - 1]
  BY <1>1 DEF PowerBody
<1>4. Doubling(f, n)
  BY <1>3 DEF Doubling
<1> QED
  BY <1>2, <1>4

LEMMA DoublingIs ==
    ASSUME NEW n \in Nat, NEW g, Doubling(g, n)
    PROVE  /\ \A e \in 0..n : g[e] \in Nat /\ e < g[e]
           /\ \A a, b \in 0..n : a < b => 2 * g[a] <= g[b]
<1> DEFINE P == {e \in Nat : e <= n => g[e] \in Nat /\ e < g[e]}
<1>1. 0 \in P
  BY DEF Doubling
<1>2. ASSUME NEW e \in Nat, e \in P PROVE e + 1 \in P
  <2> SUFFICES ASSUME e + 1 <= n PROVE g[e + 1] \in Nat /\ e + 1 < g[e + 1]
    OBVIOUS
  <2>1. e + 1 \in 1..n /\ (e + 1) - 1 = e /\ e <= n
    OBVIOUS
  <2>2. g[e + 1] = 2 * g[e]
    BY <2>1 DEF Doubling
  <2> QED
    BY <1>2, <2>1, <2>2
<1>3. Nat \subseteq P
  <2> HIDE DEF P
  <2> QED BY <1>1, <1>2, SetInduction
<1>4. \A e \in 0..n : g[e] \in Nat /\ e < g[e]
  BY <1>3
<1>5. ASSUME NEW a \in 0..n PROVE \A b \in 0..n : a < b => 2 * g[a] <= g[b]
  <2> DEFINE Q == {b \in Nat : b <= n /\ a < b => 2 * g[a] <= g[b]}
  <2>1. 0 \in Q
    OBVIOUS
  <2>2. ASSUME NEW b \in Nat, b \in Q PROVE b + 1 \in Q
    <3> SUFFICES ASSUME b + 1 <= n, a < b + 1 PROVE 2 * g[a] <= g[b + 1]
      OBVIOUS
    <3>1. b + 1 \in 1..n /\ (b + 1) - 1 = b /\ b \in 0..n
      OBVIOUS
    <3>2. g[b + 1] = 2 * g[b] /\ g[b] \in Nat /\ g[a] \in Nat
      BY <1>4, <3>1 DEF Doubling
    <3>3. CASE a = b
      BY <3>2, <3>3
    <3>4. CASE a < b
      BY <2>2, <3>1, <3>2, <3>4
    <3> QED
      BY <3>3, <3>4
  <2>3. Nat \subseteq Q
    <3> HIDE DEF Q
    <3> QED BY <2>1, <2>2, SetInduction
  <2> QED
    BY <2>3
<1> QED
  BY <1>4, <1>5

LEMMA SplitIs ==
    ASSUME NEW n \in Nat, NEW g, Doubling(g, n), Powers(n) = {g[e] : e \in 0..n},
           NEW e \in 0..n, NEW k \in Nat, g[e] < k, k <= 2 * g[e]
    PROVE  Split(k, n) = g[e]
<1>1. g[e] \in Powers(n)
  OBVIOUS
<1>2. ASSUME NEW p \in Powers(n), p < k, k <= 2 * p PROVE p = g[e]
  <2>1. PICK a \in 0..n : p = g[a]
    BY <1>2
  <2>2. g[a] \in Nat /\ g[e] \in Nat /\ (a < e => 2 * g[a] <= g[e]) /\ (e < a => 2 * g[e] <= g[a])
    BY DoublingIs
  <2>3. ~(a < e) /\ ~(e < a)
    BY <1>2, <2>1, <2>2
  <2> QED
    BY <2>1, <2>3
<1> QED
  BY <1>1, <1>2 DEF Split

LEMMA SplitExists ==
    ASSUME NEW n \in Nat, NEW g, Doubling(g, n), NEW k \in 2..n
    PROVE  \E e \in 0..n : g[e] < k /\ k <= 2 * g[e]
<1> DEFINE S == {e \in 0..n : k <= 2 * g[e]}
<1>1. g[n] \in Nat /\ n < g[n] /\ n \in 0..n
  BY DoublingIs
<1>2. n \in S
  BY <1>1
<1>3. S \in SUBSET Nat
  OBVIOUS
<1>4. PICK e \in S : \A x \in S : e <= x
  <2> HIDE DEF S
  <2> QED BY <1>2, <1>3, LeastExists
<1>5. g[e] < k
  <2>1. CASE e = 0
    BY <2>1 DEF Doubling
  <2>2. CASE e # 0
    <3>1. e - 1 \in 0..n /\ e \in 1..n /\ ~(e <= e - 1)
      BY <2>2
    <3>2. ~(k <= 2 * g[e - 1])
      BY <1>4, <3>1
    <3>3. g[e] = 2 * g[e - 1] /\ g[e - 1] \in Nat
      BY <3>1, DoublingIs DEF Doubling
    <3> QED
      BY <3>2, <3>3
  <2> QED
    BY <2>1, <2>2
<1> QED
  BY <1>4, <1>5

\* The trees over k leaves, from the smaller ones.
Level(t, leaves, n, k) ==
    [lo \in 1..(n - k + 1) |->
       IF k = 1 THEN leaves[lo]
       ELSE Combine(t[Split(k, n)][lo], t[k - Split(k, n)][lo + Split(k, n)])]

TreeBody(t, leaves, n) == [k \in 1..n |-> Level(t, leaves, n, k)]

LEMMA SplitRange ==
    ASSUME NEW n \in Nat, NEW k \in 2..n
    PROVE  Split(k, n) \in 1..(k - 1)
<1>1. PICK g : Doubling(g, n) /\ Powers(n) = {g[e] : e \in 0..n}
  BY PowersAre
<1>2. PICK e \in 0..n : g[e] < k /\ k <= 2 * g[e]
  BY <1>1, SplitExists
<1>3. Split(k, n) = g[e] /\ g[e] \in Nat /\ e < g[e]
  <2>1. k \in Nat
    OBVIOUS
  <2>2. Split(k, n) = g[e]
    BY <1>1, <1>2, <2>1, SplitIs
  <2> QED
    BY <1>1, <2>2, DoublingIs
<1> QED
  BY <1>2, <1>3

LEMMA LevelSame ==
    ASSUME NEW n \in Nat, NEW k \in 1..n, NEW leaves, NEW g, NEW h, \A j \in 1..(k - 1) : g[j] = h[j]
    PROVE  Level(g, leaves, n, k) = Level(h, leaves, n, k)
<1>1. CASE k = 1
  BY <1>1 DEF Level
<1>2. CASE k # 1
  <2> PICK s : s = Split(k, n)
    OBVIOUS
  <2>1. k \in 2..n
    BY <1>2
  <2>2. s \in 1..(k - 1) /\ k - s \in 1..(k - 1)
    BY <2>1, SplitRange
  <2>3. g[s] = h[s] /\ g[k - s] = h[k - s]
    BY <2>2
  <2> QED
    BY <1>2, <2>3 DEF Level
<1> QED
  BY <1>1, <1>2

LEMMA TreeExists ==
    ASSUME NEW n \in Nat, NEW leaves
    PROVE  \E t : t = TreeBody(t, leaves, n)
<1> DEFINE Solves(g, m) == \A k \in 1..m : g[k] = Level(g, leaves, n, k)
           P == {m \in Nat : m <= n => \E g : Solves(g, m)}
<1>1. 0 \in P
  <2>1. Solves(<<>>, 0)
    OBVIOUS
  <2>2. \E g : Solves(g, 0)
    <3> HIDE DEF Solves
    <3> QED BY <2>1
  <2> QED
    BY <2>2
<1>2. ASSUME NEW m \in Nat, m \in P PROVE m + 1 \in P
  <2> SUFFICES ASSUME m + 1 <= n PROVE \E g : Solves(g, m + 1)
    OBVIOUS
  <2>1. PICK g : Solves(g, m)
    BY <1>2
  <2> DEFINE top == Level(g, leaves, n, m + 1)
             h == [k \in 1..(m + 1) |-> IF k = m + 1 THEN top ELSE g[k]]
  <2>2. h[m + 1] = top /\ \A k \in 1..m : h[k] = g[k]
    OBVIOUS
  <2> HIDE DEF h
  <2>3. ASSUME NEW k \in 1..(m + 1) PROVE h[k] = Level(h, leaves, n, k)
    <3>1. k \in 1..n /\ \A j \in 1..(k - 1) : j \in 1..m
      OBVIOUS
    <3>2. \A j \in 1..(k - 1) : g[j] = h[j]
      BY <2>2, <3>1
    <3>3. Level(g, leaves, n, k) = Level(h, leaves, n, k)
      BY <3>1, <3>2, LevelSame
    <3>4. CASE k = m + 1
      BY <2>2, <3>3, <3>4
    <3>5. CASE k # m + 1
      <4>1. k \in 1..m
        BY <3>5
      <4> QED
        BY <2>1, <2>2, <3>3, <4>1
    <3> QED
      BY <3>4, <3>5
  <2>4. Solves(h, m + 1)
    BY <2>3
  <2> HIDE DEF Solves
  <2> QED
    BY <2>4
<1>3. n \in P
  <2> HIDE DEF P
  <2> QED BY <1>1, <1>2, SetInduction
<1>4. PICK g : Solves(g, n)
  BY <1>3
<1> DEFINE f == [k \in 1..n |-> g[k]]
<1>5. \A k \in 1..n : f[k] = g[k]
  OBVIOUS
<1> HIDE DEF f
<1>6. ASSUME NEW k \in 1..n PROVE f[k] = Level(f, leaves, n, k)
  <2>1. \A j \in 1..(k - 1) : g[j] = f[j]
    BY <1>5
  <2>2. Level(g, leaves, n, k) = Level(f, leaves, n, k)
    BY <2>1, LevelSame
  <2> QED
    BY <1>4, <1>5, <2>2
<1>7. f = [k \in 1..n |-> f[k]]
  BY DEF f
<1>8. [k \in 1..n |-> f[k]] = TreeBody(f, leaves, n)
  BY <1>6 DEF TreeBody
<1>9. f = TreeBody(f, leaves, n)
  BY <1>7, <1>8
<1> QED
  BY <1>9

\* t[k][lo] is the tree over k leaves from lo on, powers of two first.
IsTree(t, g, leaves, n) ==
    /\ Doubling(g, n)
    /\ \A lo \in 1..n : t[1][lo] = leaves[lo]
    /\ \A e \in 0..n : \A r \in 1..g[e] : \A lo \in 1..n :
         lo + (g[e] + r) <= n + 1 => t[g[e] + r][lo] = Combine(t[g[e]][lo], t[r][lo + g[e]])

LEMMA TreeIs ==
    ASSUME NEW n \in Nat, n # 0, NEW leaves
    PROVE  \E t, g : Tree(leaves, n) = t /\ IsTree(t, g, leaves, n)
<1> DEFINE t == CHOOSE f : f = TreeBody(f, leaves, n)
<1>1. t = TreeBody(t, leaves, n)
  BY TreeExists
<1>2. Tree(leaves, n) = t
  BY DEF Tree, TreeBody, Level
<1> HIDE DEF t
<1>3. \A k \in 1..n : t[k] = Level(t, leaves, n, k)
  BY <1>1 DEF TreeBody
<1>4. PICK g : Doubling(g, n) /\ Powers(n) = {g[e] : e \in 0..n}
  BY PowersAre
<1>5. ASSUME NEW lo \in 1..n PROVE t[1][lo] = leaves[lo]
  <2>1. 1 \in 1..n /\ lo \in 1..(n - 1 + 1)
    OBVIOUS
  <2>2. t[1] = Level(t, leaves, n, 1)
    BY <1>3, <2>1
  <2> QED
    BY <2>1, <2>2 DEF Level
<1>6. ASSUME NEW e \in 0..n, NEW r \in 1..g[e], NEW lo \in 1..n, lo + (g[e] + r) <= n + 1
      PROVE  t[g[e] + r][lo] = Combine(t[g[e]][lo], t[r][lo + g[e]])
  <2> PICK k : k = g[e] + r
    OBVIOUS
  <2>1. g[e] \in Nat /\ e < g[e]
    BY <1>4, DoublingIs
  <2>2. /\ k \in Nat /\ k \in 1..n /\ k # 1 /\ g[e] < k /\ k <= 2 * g[e] /\ k - g[e] = r
        /\ lo \in 1..(n - k + 1)
    BY <1>6, <2>1
  <2>3. Split(k, n) = g[e]
    BY <1>4, <2>2, SplitIs
  <2>4. t[k] = Level(t, leaves, n, k)
    BY <1>3, <2>2
  <2>5. Level(t, leaves, n, k)[lo] = Combine(t[g[e]][lo], t[k - g[e]][lo + g[e]])
    BY <2>2, <2>3 DEF Level
  <2> QED
    BY <2>2, <2>4, <2>5
<1>7. IsTree(t, g, leaves, n)
  BY <1>4, <1>5, <1>6 DEF IsTree
<1> QED
  BY <1>2, <1>7

\* The pending peaks cover the first i leaves: w[k] leaves are under levels 1
\* to k, and a peak is the tree over the ones that are its own.
Covers(p, m, w, i, g, t) ==
    /\ Len(p) = m /\ w[0] = 0 /\ w[m] = i
    /\ \A k \in 0..m : w[k] \in 0..i
    /\ \A k \in 1..m : p[k] = Zero => w[k] = w[k - 1]
    /\ \A k \in 1..m : p[k] # Zero => w[k] = w[k - 1] + g[k - 1] /\ p[k] = t[g[k - 1]][i - w[k] + 1]
    /\ m # 0 => p[m] # Zero

\* A level of the counter with all below it: fewer leaves than its own peak.
LEMMA CoversLow ==
    ASSUME NEW n \in Nat, NEW g, Doubling(g, n), NEW m \in 0..n, NEW i \in Nat,
           NEW p, NEW w, NEW t, Covers(p, m, w, i, g, t)
    PROVE  \A k \in 0..m : w[k] < g[k]
<1> DEFINE P == {k \in Nat : k <= m => w[k] < g[k]}
<1>1. 0 \in P
  BY DEF Covers, Doubling
<1>2. ASSUME NEW k \in Nat, k \in P PROVE k + 1 \in P
  <2> SUFFICES ASSUME k + 1 <= m PROVE w[k + 1] < g[k + 1]
    OBVIOUS
  <2>1. k + 1 \in 1..m /\ (k + 1) - 1 = k /\ k \in 0..m /\ k + 1 \in 1..n /\ k \in 0..n
    OBVIOUS
  <2>2. g[k + 1] = 2 * g[k] /\ g[k] \in Nat
    BY <2>1, DoublingIs DEF Doubling
  <2>3. w[k + 1] = w[k] \/ w[k + 1] = w[k] + g[k]
    BY <2>1 DEF Covers
  <2>4. w[k] \in Nat /\ w[k] < g[k]
    BY <1>2, <2>1 DEF Covers
  <2> QED
    BY <2>2, <2>3, <2>4
<1>3. Nat \subseteq P
  <2> HIDE DEF P
  <2> QED BY <1>1, <1>2, SetInduction
<1> QED
  BY <1>3

\* A leaf carried past all the peaks below level f becomes the tree over the
\* last leaves.
LEMMA CarryCovers ==
    ASSUME NEW n \in Nat, NEW leaves, NEW g, NEW t, IsTree(t, g, leaves, n),
           NEW m \in 0..n, NEW i \in Nat, i < n, NEW p, NEW w, Covers(p, m, w, i, g, t),
           NEW c \in Nat, c <= m, \A j \in 1..c : p[j] # Zero
    PROVE  /\ w[c] = g[c] - 1
           /\ Carry(p, leaves[i + 1], c) = t[g[c]][i + 2 - g[c]]
<1> PICK leaf : leaf = leaves[i + 1]
  OBVIOUS
<1>0. Doubling(g, n)
  BY DEF IsTree
<1>1. PICK h : /\ Carry(p, leaf, c) = h[c]
               /\ \A k \in 0..c : h[k] = IF k = 0 THEN leaf ELSE Combine(p[k], h[k - 1])
  BY CarryIs
<1> DEFINE Claim(k) == w[k] = g[k] - 1 /\ h[k] = t[g[k]][i + 2 - g[k]]
           P == {k \in Nat : k <= c => Claim(k)}
<1>2. 0 \in P
  <2>1. g[0] = 1 /\ w[0] = 0 /\ h[0] = leaf
    BY <1>0, <1>1 DEF Doubling, Covers
  <2>2. i + 1 \in 1..n /\ i + 2 - 1 = i + 1
    OBVIOUS
  <2>3. t[1][i + 1] = leaf
    BY <2>2 DEF IsTree
  <2> QED
    BY <2>1, <2>2, <2>3
<1>3. ASSUME NEW k \in Nat, k \in P PROVE k + 1 \in P
  <2> SUFFICES ASSUME k + 1 <= c PROVE Claim(k + 1)
    OBVIOUS
  <2>1. /\ k + 1 \in 1..m /\ (k + 1) - 1 = k /\ k \in 0..n /\ k + 1 \in 1..n /\ k + 1 \in 0..m
        /\ k + 1 \in 0..c /\ k + 1 # 0 /\ k + 1 \in 1..c
    OBVIOUS
  <2>2. g[k + 1] = 2 * g[k] /\ g[k] \in Nat /\ k < g[k]
    BY <1>0, <2>1, DoublingIs DEF Doubling
  <2>3. w[k] = g[k] - 1 /\ h[k] = t[g[k]][i + 2 - g[k]]
    BY <1>3
  <2>4. w[k + 1] = w[k] + g[k] /\ p[k + 1] = t[g[k]][i - w[k + 1] + 1] /\ w[k + 1] \in 0..i
    BY <2>1 DEF Covers
  <2>5. w[k + 1] = g[k + 1] - 1
    BY <2>2, <2>3, <2>4
  <2> PICK lo : lo = i + 2 - g[k + 1]
    OBVIOUS
  <2>6. /\ lo \in 1..n /\ lo + (g[k] + g[k]) <= n + 1 /\ g[k] \in 1..g[k] /\ g[k] + g[k] = g[k + 1]
        /\ i - w[k + 1] + 1 = lo /\ lo + g[k] = i + 2 - g[k]
    BY <2>2, <2>4, <2>5
  <2>7. t[g[k] + g[k]][lo] = Combine(t[g[k]][lo], t[g[k]][lo + g[k]])
    BY <2>1, <2>6 DEF IsTree
  <2>8. h[k + 1] = Combine(p[k + 1], h[k])
    BY <1>1, <2>1
  <2>9. h[k + 1] = t[g[k + 1]][lo]
    BY <2>3, <2>4, <2>6, <2>7, <2>8
  <2> QED
    BY <2>5, <2>9
<1>4. c \in P
  <2> HIDE DEF P
  <2> QED BY <1>2, <1>3, SetInduction
<1>5. c <= c
  OBVIOUS
<1> QED
  BY <1>1, <1>4, <1>5

LEMMA AddLeafCovers ==
    ASSUME NEW n \in Nat, NEW leaves, NEW g, NEW t, IsTree(t, g, leaves, n),
           NEW m \in 0..n, NEW i \in Nat, i < n, leaves[i + 1] # Zero,
           NEW p, NEW w, Covers(p, m, w, i, g, t)
    PROVE  \E m2 \in 0..n : \E w2 : Covers(AddLeaf(p, leaves[i + 1]), m2, w2, i + 1, g, t)
<1> PICK leaf : leaf = leaves[i + 1]
  OBVIOUS
<1> PICK f : f = Free(p)
  OBVIOUS
<1>1. Len(p) = m /\ m \in Nat
  BY DEF Covers
<1>2. f \in 1..(m + 1) /\ (f <= m => p[f] = Zero) /\ \A j \in 1..(f - 1) : p[j] # Zero
  BY <1>1, FreeIs
<1> PICK c : c = Carry(p, leaf, f - 1)
  OBVIOUS
<1>3. f - 1 \in Nat /\ f - 1 <= m /\ f - 1 \in 0..m
  BY <1>2
<1>4. w[f - 1] = g[f - 1] - 1 /\ c = t[g[f - 1]][i + 2 - g[f - 1]]
  BY <1>2, <1>3, CarryCovers
<1>5. g[f - 1] \in Nat /\ f - 1 < g[f - 1] /\ w[f - 1] \in 0..i
  <2>1. f - 1 \in 0..n
    BY <1>3
  <2> QED
    BY <1>3, <2>1, DoublingIs DEF IsTree, Covers
<1>6. c # Zero
  BY <1>3, CarryNotZero
<1> DEFINE m2 == IF f > m THEN f ELSE m
           q == Added(p, leaf, m, f)
           w2 == [k \in 0..m2 |-> IF k < f THEN 0 ELSE IF k = f THEN g[f - 1] ELSE w[k] + 1]
<1>7. AddLeaf(p, leaf) = q
  BY <1>1, AddLeafIs
<1>8. m2 \in 0..n /\ f \in 1..m2 /\ (m2 = m \/ (m2 = f /\ f = m + 1)) /\ \A k \in 0..m2 : k > f => k \in 1..m
  BY <1>2, <1>4, <1>5
<1>9. /\ Len(q) = m2
      /\ \A k \in 1..m2 : q[k] = IF k < f THEN Zero ELSE IF k = f THEN c ELSE p[k]
  <2> HIDE DEF m2
  <2>1. q = [k \in 1..m2 |-> IF k < f THEN Zero ELSE IF k = f THEN c ELSE p[k]]
    BY DEF Added, m2
  <2> HIDE DEF q
  <2> QED
    BY <1>8, <2>1
<1>10. \A k \in 0..m2 : w2[k] = IF k < f THEN 0 ELSE IF k = f THEN g[f - 1] ELSE w[k] + 1
  OBVIOUS
<1> HIDE DEF m2, q, w2
<1>11. w2[0] = 0
  BY <1>2, <1>8, <1>10
<1>12. f = m + 1 => w[m] = w[f - 1]
  BY <1>2
<1>13. w2[m2] = i + 1
  <2>1. CASE f > m
    <3>1. f = m + 1 /\ m2 = f
      BY <1>2, <2>1 DEF m2
    <3>2. w2[f] = g[f - 1] /\ w[m] = i
      BY <1>8, <1>10, <3>1 DEF Covers
    <3> QED
      BY <1>4, <1>5, <1>12, <3>1, <3>2
  <2>2. CASE ~(f > m)
    <3>1. m2 = m /\ m # 0 /\ m \in 1..m
      BY <1>2, <1>8, <2>2 DEF m2
    <3>2. p[m] # Zero /\ w[m] = i
      BY <3>1 DEF Covers
    <3>3. f # m /\ m > f
      BY <1>2, <2>2, <3>2
    <3> QED
      BY <1>8, <1>10, <3>1, <3>2, <3>3
  <2> QED
    BY <2>1, <2>2
<1>14. ASSUME NEW k \in 0..m2 PROVE w2[k] \in 0..(i + 1)
  <2>1. CASE k < f
    BY <1>10, <2>1
  <2>2. CASE k = f
    BY <1>4, <1>5, <1>10, <2>2
  <2>3. CASE k > f
    <3>1. k \in 0..m
      BY <1>8, <2>3
    <3>2. w[k] \in 0..i
      BY <3>1 DEF Covers
    <3> QED
      BY <1>2, <1>10, <2>3, <3>2
  <2> QED
    BY <1>2, <2>1, <2>2, <2>3
<1>15. ASSUME NEW k \in 1..m2, k > f
       PROVE  /\ q[k] = p[k] /\ k \in 1..m /\ w2[k] = w[k] + 1 /\ w2[k - 1] = w[k - 1] + 1
              /\ w[k] \in 0..i /\ w[k - 1] \in 0..i
  <2>1. k \in 1..m /\ k \in 0..m2 /\ k - 1 \in 0..m2 /\ ~(k < f) /\ k # f /\ k - 1 >= f /\ k - 1 \in 0..m /\ k \in 0..m
    BY <1>2, <1>8, <1>15
  <2>2. q[k] = p[k] /\ w2[k] = w[k] + 1
    BY <1>9, <1>10, <2>1
  <2>3. w[k] \in 0..i /\ w[k - 1] \in 0..i
    BY <2>1 DEF Covers
  <2>4. w2[k - 1] = w[k - 1] + 1
    <3>1. CASE k - 1 = f
      <4>1. w2[k - 1] = g[f - 1]
        BY <1>10, <2>1, <3>1
      <4>2. f \in 1..m /\ p[f] = Zero
        BY <1>2, <2>1, <3>1
      <4>3. w[f] = w[f - 1]
        BY <4>2 DEF Covers
      <4> QED
        BY <1>4, <1>5, <3>1, <4>1, <4>3
    <3>2. CASE k - 1 # f
      BY <1>2, <1>10, <2>1, <3>2
    <3> QED
      BY <3>1, <3>2
  <2> QED
    BY <2>1, <2>2, <2>3, <2>4
<1>16. ASSUME NEW k \in 1..m2, q[k] = Zero PROVE w2[k] = w2[k - 1]
  <2>1. CASE k < f
    <3>1. k \in 0..m2 /\ k - 1 \in 0..m2 /\ k - 1 < f
      BY <1>2, <1>8, <2>1
    <3> QED
      BY <1>10, <2>1, <3>1
  <2>2. CASE k = f
    BY <1>2, <1>6, <1>9, <1>16, <2>2
  <2>3. CASE k > f
    <3>1. q[k] = p[k] /\ k \in 1..m /\ w2[k] = w[k] + 1 /\ w2[k - 1] = w[k - 1] + 1
      BY <1>15, <2>3
    <3>2. w[k] = w[k - 1]
      BY <1>16, <3>1 DEF Covers
    <3> QED
      BY <3>1, <3>2
  <2> QED
    BY <1>2, <2>1, <2>2, <2>3
<1>17. ASSUME NEW k \in 1..m2, q[k] # Zero
       PROVE  w2[k] = w2[k - 1] + g[k - 1] /\ q[k] = t[g[k - 1]][(i + 1) - w2[k] + 1]
  <2>1. CASE k < f
    BY <1>9, <1>17, <2>1
  <2>2. CASE k = f
    <3>1. w2[f] = g[f - 1] /\ w2[f - 1] = 0 /\ q[f] = c
      BY <1>2, <1>8, <1>9, <1>10
    <3>2. (i + 1) - g[f - 1] + 1 = i + 2 - g[f - 1]
      BY <1>5
    <3> QED
      BY <1>4, <1>5, <2>2, <3>1, <3>2
  <2>3. CASE k > f
    <3>1. /\ q[k] = p[k] /\ k \in 1..m /\ w2[k] = w[k] + 1 /\ w2[k - 1] = w[k - 1] + 1
          /\ w[k] \in 0..i /\ w[k - 1] \in 0..i
      BY <1>15, <2>3
    <3>2. w[k] = w[k - 1] + g[k - 1] /\ p[k] = t[g[k - 1]][i - w[k] + 1]
      BY <1>17, <3>1 DEF Covers
    <3>3. g[k - 1] \in Nat
      <4>1. k - 1 \in 0..n
        BY <3>1
      <4> QED
        BY <4>1, DoublingIs DEF IsTree
    <3>4. (i + 1) - w2[k] + 1 = i - w[k] + 1 /\ w2[k] = w2[k - 1] + g[k - 1]
      BY <3>1, <3>2, <3>3
    <3> QED
      BY <3>1, <3>2, <3>4
  <2> QED
    BY <1>2, <2>1, <2>2, <2>3
<1>18. m2 # 0 => q[m2] # Zero
  <2>1. CASE f > m
    <3>1. m2 = f
      BY <2>1 DEF m2
    <3> QED
      BY <1>2, <1>6, <1>8, <1>9, <3>1
  <2>2. CASE ~(f > m)
    <3>1. m2 = m /\ m # 0 /\ m \in 1..m
      BY <1>2, <1>8, <2>2 DEF m2
    <3>2. p[m] # Zero
      BY <3>1 DEF Covers
    <3>3. f # m /\ m > f
      BY <1>2, <2>2, <3>2
    <3> QED
      BY <1>8, <1>9, <3>1, <3>2, <3>3
  <2> QED
    BY <2>1, <2>2
<1>19. Covers(q, m2, w2, i + 1, g, t)
  BY <1>9, <1>11, <1>13, <1>14, <1>16, <1>17, <1>18 DEF Covers
<1> QED
  BY <1>7, <1>8, <1>19

LEMMA PeaksCover ==
    ASSUME NEW n \in Nat, NEW leaves, NEW g, NEW t, IsTree(t, g, leaves, n),
           \A i \in 1..n : leaves[i] # Zero
    PROVE  \E m \in 0..n : \E w : Covers(Peaks(leaves, n), m, w, n, g, t)
<1>1. PICK h : /\ Peaks(leaves, n) = h[n]
               /\ \A k \in 0..n : h[k] = IF k = 0 THEN <<>> ELSE AddLeaf(h[k - 1], leaves[k])
  BY PeaksIs
<1> DEFINE Claim(i) == \E m \in 0..n : \E w : Covers(h[i], m, w, i, g, t)
           P == {i \in Nat : i <= n => Claim(i)}
<1>2. 0 \in P
  <2>1. h[0] = <<>>
    BY <1>1
  <2>2. Covers(<<>>, 0, [k \in {0} |-> 0], 0, g, t)
    BY DEF Covers
  <2>3. 0 \in 0..n
    OBVIOUS
  <2>4. Claim(0)
    BY <2>1, <2>2, <2>3
  <2> QED
    BY <2>4
<1>3. ASSUME NEW i \in Nat, i \in P PROVE i + 1 \in P
  <2> SUFFICES ASSUME i + 1 <= n PROVE Claim(i + 1)
    OBVIOUS
  <2>1. i + 1 \in 0..n /\ i + 1 # 0 /\ (i + 1) - 1 = i /\ i + 1 \in 1..n /\ i < n
    OBVIOUS
  <2>2. PICK m \in 0..n : \E w : Covers(h[i], m, w, i, g, t)
    BY <1>3, <2>1
  <2>3. PICK w : Covers(h[i], m, w, i, g, t)
    BY <2>2
  <2>4. h[i + 1] = AddLeaf(h[i], leaves[i + 1]) /\ leaves[i + 1] # Zero
    BY <1>1, <2>1
  <2>5. \E m2 \in 0..n : \E w2 : Covers(AddLeaf(h[i], leaves[i + 1]), m2, w2, i + 1, g, t)
    BY <2>1, <2>3, <2>4, AddLeafCovers
  <2> QED
    BY <2>4, <2>5
<1>4. n \in P
  <2> HIDE DEF P
  <2> QED BY <1>2, <1>3, SetInduction
<1>5. n <= n
  OBVIOUS
<1>6. Claim(n)
  BY <1>4, <1>5
<1> QED
  BY <1>1, <1>6

LEMMA BagCovers ==
    ASSUME NEW n \in Nat, n # 0, NEW leaves, NEW g, NEW t, IsTree(t, g, leaves, n),
           NEW m \in 0..n, NEW p, NEW w, Covers(p, m, w, n, g, t)
    PROVE  Bag(p) = t[n][1]
<1>0. Doubling(g, n) /\ Len(p) = m /\ m \in Nat
  BY DEF IsTree, Covers
<1>1. PICK h : /\ Bag(p) = h[m]
               /\ \A k \in 0..m : h[k] = IF k = 0 THEN Zero ELSE Join(p[k], h[k - 1])
  BY <1>0, BagIs
<1>2. \A k \in 0..m : w[k] < g[k]
  BY <1>0, CoversLow
<1> DEFINE Claim(k) == /\ h[k] = Zero <=> w[k] = 0
                       /\ w[k] # 0 => h[k] = t[w[k]][n - w[k] + 1]
           P == {k \in Nat : k <= m => Claim(k)}
<1>3. 0 \in P
  BY <1>0, <1>1 DEF Covers
<1>4. ASSUME NEW k \in Nat, k \in P PROVE k + 1 \in P
  <2> SUFFICES ASSUME k + 1 <= m PROVE Claim(k + 1)
    OBVIOUS
  <2>1. /\ k + 1 \in 1..m /\ (k + 1) - 1 = k /\ k + 1 \in 0..m /\ k + 1 # 0 /\ k \in 0..m /\ k \in 0..n
    OBVIOUS
  <2>2. h[k + 1] = Join(p[k + 1], h[k])
    BY <1>1, <2>1
  <2>3. Claim(k) /\ w[k] \in 0..n /\ w[k + 1] \in 0..n /\ w[k] < g[k] /\ g[k] \in Nat
    BY <1>0, <1>2, <1>4, <2>1, DoublingIs DEF Covers
  <2>4. CASE p[k + 1] = Zero
    <3>1. w[k + 1] = w[k] /\ h[k + 1] = h[k]
      BY <2>1, <2>2, <2>4 DEF Covers, Join
    <3> QED
      BY <2>3, <3>1
  <2>5. CASE p[k + 1] # Zero
    <3>1. w[k + 1] = w[k] + g[k] /\ p[k + 1] = t[g[k]][n - w[k + 1] + 1]
      BY <2>1, <2>5 DEF Covers
    <3>2. w[k + 1] # 0
      BY <2>3, <3>1
    <3>3. CASE w[k] = 0
      <4>1. h[k] = Zero /\ w[k + 1] = g[k]
        BY <2>3, <3>1, <3>3
      <4>2. h[k + 1] = p[k + 1]
        BY <2>2, <2>5, <4>1 DEF Join
      <4> QED
        BY <2>5, <3>1, <3>2, <4>1, <4>2
    <3>4. CASE w[k] # 0
      <4>1. h[k] # Zero /\ h[k] = t[w[k]][n - w[k] + 1]
        BY <2>3, <3>4
      <4>2. h[k + 1] = Combine(p[k + 1], h[k])
        BY <2>2, <2>5, <4>1 DEF Join
      <4> PICK lo : lo = n - w[k + 1] + 1
        OBVIOUS
      <4>3. /\ lo \in 1..n /\ w[k] \in 1..g[k] /\ lo + (g[k] + w[k]) <= n + 1
            /\ lo + g[k] = n - w[k] + 1 /\ g[k] + w[k] = w[k + 1]
        BY <2>3, <3>1, <3>2, <3>4
      <4>4. t[g[k] + w[k]][lo] = Combine(t[g[k]][lo], t[w[k]][lo + g[k]])
        BY <2>1, <4>3 DEF IsTree
      <4>5. h[k + 1] = t[w[k + 1]][lo]
        BY <3>1, <4>1, <4>2, <4>3, <4>4
      <4>6. h[k + 1] # Zero
        BY <4>2, CombineNotZero
      <4> QED
        BY <3>2, <4>5, <4>6
    <3> QED
      BY <3>3, <3>4
  <2> QED
    BY <2>4, <2>5
<1>5. m \in P
  <2> HIDE DEF P
  <2> QED BY <1>0, <1>3, <1>4, SetInduction
<1>6. w[m] = n /\ n - n + 1 = 1 /\ m <= m
  BY DEF Covers
<1> QED
  BY <1>0, <1>1, <1>5, <1>6

\* merkle::root computes the tree, for every number of leaves.
LEMMA RootIs ==
    ASSUME NEW n \in Nat, n # 0, NEW L, Len(L) = n, \A i \in 1..n : L[i] # Zero
    PROVE  Root(L) = ReferenceRoot(L)
<1>1. ASSUME NEW M, \A i \in 1..n : M[i] # Zero PROVE Bag(Peaks(M, n)) = Tree(M, n)[n][1]
  <2>1. PICK t, g : Tree(M, n) = t /\ IsTree(t, g, M, n)
    BY TreeIs
  <2>2. PICK m \in 0..n : \E w : Covers(Peaks(M, n), m, w, n, g, t)
    BY <1>1, <2>1, PeaksCover
  <2>3. PICK w : Covers(Peaks(M, n), m, w, n, g, t)
    BY <2>2
  <2> QED
    BY <2>1, <2>3, BagCovers
<1>2. Bag(Peaks(L, n)) = Tree(L, n)[n][1]
  BY <1>1
<1> QED
  BY <1>2 DEF Root, ReferenceRoot

----------------------------------------------------------------------------
(* Leaves and payload.                                                     *)

LEMMA SeqIs ==
    /\ \A S : \A s \in Seq(S) : IsSeq(s)
    /\ \A s : IsSeq(s) => Len(s) \in Nat /\ DOMAIN s = 1..Len(s) /\ s = [i \in 1..Len(s) |-> s[i]]
<1>1. ASSUME NEW S, NEW s \in Seq(S) PROVE IsSeq(s)
  <2>1. DOMAIN s = 1..Len(s) /\ Len(s) \in Nat /\ \A i \in 1..Len(s) : s[i] \in {s[j] : j \in DOMAIN s}
    OBVIOUS
  <2>2. s = [i \in 1..Len(s) |-> s[i]]
    OBVIOUS
  <2>3. s \in [1..Len(s) -> {s[j] : j \in DOMAIN s}]
    BY <2>1, <2>2
  <2> QED
    BY <2>1, <2>3, SeqDef DEF IsSeq
<1>2. ASSUME NEW s, IsSeq(s)
      PROVE  Len(s) \in Nat /\ DOMAIN s = 1..Len(s) /\ s = [i \in 1..Len(s) |-> s[i]]
  <2> DEFINE T == {s[i] : i \in DOMAIN s}
  <2>1. s \in Seq(T)
    BY <1>2 DEF IsSeq
  <2> HIDE DEF T
  <2> QED
    BY <2>1
<1> QED
  BY <1>1, <1>2

\* A piece of a sequence, by its elements.
LEMMA PieceIs ==
    ASSUME NEW s, IsSeq(s), NEW i \in Nat \ {0}, NEW j \in Nat, i <= j + 1, j <= Len(s)
    PROVE  /\ IsSeq(SubSeq(s, i, j)) /\ Len(SubSeq(s, i, j)) = j - i + 1
           /\ SubSeq(s, i, j) = [k \in 1..(j - i + 1) |-> s[i + k - 1]]
           /\ \A k \in 1..(j - i + 1) : SubSeq(s, i, j)[k] = s[i + k - 1]
<1> DEFINE T == {s[k] : k \in DOMAIN s}
<1>1. s \in Seq(T)
  BY DEF IsSeq
<1> HIDE DEF T
<1>2. /\ SubSeq(s, i, j) \in Seq(T) /\ Len(SubSeq(s, i, j)) = j - i + 1
      /\ SubSeq(s, i, j) = [k \in 1..(j - i + 1) |-> s[i + k - 1]]
  BY <1>1
<1>3. \A k \in 1..(j - i + 1) : SubSeq(s, i, j)[k] = s[i + k - 1]
  BY <1>2
<1> QED
  BY <1>2, <1>3, SeqIs

LEMMA CeilIs ==
    ASSUME NEW n \in Nat, NEW u \in Nat \ {0}
    PROVE  /\ Ceil(n, u) \in Nat /\ n <= Ceil(n, u) * u
           /\ n # 0 => (Ceil(n, u) - 1) * u < n /\ Ceil(n, u) # 0
           /\ n = 0 => Ceil(n, u) = 0
<1> DEFINE q == (n + (u - 1)) \div u
           r == (n + (u - 1)) % u
<1>1. n + (u - 1) \in Nat
  OBVIOUS
<1>2. q \in Nat /\ r \in 0..(u - 1) /\ n + (u - 1) = u * q + r
  BY <1>1
<1> HIDE DEF q, r
<1>3. u * q = q * u /\ (q - 1) * u = q * u - u /\ q * u \in Nat
  BY <1>2
<1>4. (n <= q * u /\ (q - 1) * u < n) \/ n = 0
  BY <1>2, <1>3
<1>5. n <= q * u
  BY <1>2, <1>3
<1>6. q = 0 => q * u = 0
  BY <1>2
<1>7. n # 0 => q # 0
  BY <1>5, <1>6
<1>8. n = 0 => q = 0
  <2>1. ASSUME n = 0, q # 0 PROVE FALSE
    <3>1. q >= 1 /\ q * u >= u
      BY <1>2, <2>1
    <3> QED
      BY <1>2, <1>3, <2>1, <3>1
  <2> QED
    BY <2>1
<1> QED
  BY <1>2, <1>4, <1>5, <1>7, <1>8 DEF Ceil, q

LEMMA CeilGrows ==
    ASSUME NEW m \in Nat, NEW n \in Nat, NEW u \in Nat \ {0}, m <= n
    PROVE  Ceil(m, u) <= Ceil(n, u)
<1>1. CASE m = 0
  BY <1>1, CeilIs
<1>2. CASE m # 0
  <2> DEFINE a == Ceil(m, u)
             b == Ceil(n, u)
  <2>1. a \in Nat /\ b \in Nat /\ (a - 1) * u < m /\ n <= b * u
    BY <1>2, CeilIs
  <2> HIDE DEF a, b
  <2>2. (a - 1) * u < b * u
    BY <2>1
  <2>3. ~(b <= a - 1)
    <3>1. b <= a - 1 => b * u <= (a - 1) * u
      BY <2>1
    <3>2. b * u \in Int /\ (a - 1) * u \in Int
      BY <2>1
    <3> QED
      BY <2>2, <3>1, <3>2
  <2>4. a <= b
    BY <2>1, <2>3
  <2> QED
    BY <2>4 DEF a, b
<1> QED
  BY <1>1, <1>2

LEMMA LeafHashesAre ==
    ASSUME NEW p, IsSeq(p), NEW u \in Nat \ {0}, NEW n, n = Ceil(Len(p), u)
    PROVE  /\ n \in Nat /\ Len(LeafHashes(p, u)) = n /\ IsSeq(LeafHashes(p, u))
           /\ \A i \in 1..n : LeafHashes(p, u)[i] = Mh4(BlockOf(p, u, i))
           /\ \A i \in 1..n : LeafHashes(p, u)[i] # Zero
<1>1. n \in Nat
  BY SeqIs, CeilIs
<1> DEFINE h == [i \in 1..n |-> Mh4(BlockOf(p, u, i))]
           T == {h[i] : i \in 1..n}
<1>2. LeafHashes(p, u) = h
  BY DEF LeafHashes
<1>3. h \in [1..n -> T]
  OBVIOUS
<1>4. h \in Seq(T)
  <2> HIDE DEF h, T
  <2> QED BY <1>1, <1>3, SeqDef
<1>5. IsSeq(h)
  BY <1>4, SeqIs
<1>6. Len(h) = n /\ \A i \in 1..n : h[i] = Mh4(BlockOf(p, u, i))
  BY <1>1
<1> HIDE DEF h
<1> QED
  BY <1>1, <1>2, <1>5, <1>6, Mh4NotZero

\* Every byte of a payload is in a block.
LEMMA BlockIs ==
    ASSUME NEW p, IsSeq(p), NEW u \in Nat \ {0}, NEW i \in 1..Len(p),
           NEW b, b = Ceil(i, u)
    PROVE  /\ b \in 1..Ceil(Len(p), u)
           /\ i - (b - 1) * u \in Nat
           /\ BlockOf(p, u, b)[i - (b - 1) * u] = p[i]
<1>1. Len(p) \in Nat /\ i \in Nat \ {0} /\ i <= Len(p)
  BY SeqIs
<1>2. b \in Nat \ {0} /\ i <= b * u /\ (b - 1) * u < i /\ b <= Ceil(Len(p), u)
  BY <1>1, CeilIs, CeilGrows
<1>3. Ceil(Len(p), u) \in Nat
  BY <1>1, CeilIs
<1> DEFINE lower == (b - 1) * u
           upper == b * u
           size == Len(p)
           end == IF upper < size THEN upper ELSE size
<1>4. lower \in Nat /\ upper \in Nat
  <2>1. b - 1 \in Nat
    BY <1>2
  <2> QED
    BY <1>2, <2>1
<1>5. BlockOf(p, u, b) = SubSeq(p, lower + 1, end)
  BY DEF BlockOf
<1> HIDE DEF lower, upper, size
<1>6. size \in Nat /\ lower < i /\ i <= upper /\ i <= size
  BY <1>1, <1>2 DEF lower, upper, size
<1>7. /\ end \in Nat /\ lower + 1 \in Nat \ {0} /\ lower + 1 <= end + 1 /\ end <= size
      /\ i - lower \in 1..(end - (lower + 1) + 1)
  BY <1>1, <1>4, <1>6
<1>8. \A k \in 1..(end - (lower + 1) + 1) : SubSeq(p, lower + 1, end)[k] = p[lower + 1 + k - 1]
  <2> HIDE DEF end
  <2> QED BY <1>7, PieceIs DEF size
<1>9. SubSeq(p, lower + 1, end)[i - lower] = p[lower + 1 + (i - lower) - 1]
  BY <1>7, <1>8
<1>10. lower + 1 + (i - lower) - 1 = i /\ i - lower \in Nat
  BY <1>1, <1>4, <1>6
<1>11. BlockOf(p, u, b)[i - lower] = p[i]
  BY <1>5, <1>9, <1>10
<1>12. b \in 1..Ceil(Len(p), u)
  BY <1>2, <1>3
<1> QED
  BY <1>10, <1>11, <1>12 DEF lower

\* The leaves determine the payload, once its length is known.
LEMMA LeavesDetermine ==
    ASSUME CollisionFree, NEW p, IsSeq(p), NEW q, IsSeq(q), NEW u \in Nat \ {0}, Len(p) = Len(q),
           LeafHashes(p, u) = LeafHashes(q, u)
    PROVE  p = q
<1> PICK n : n = Ceil(Len(p), u)
  OBVIOUS
<1>1. \A b \in 1..n : BlockOf(p, u, b) = BlockOf(q, u, b)
  <2>1. n = Ceil(Len(p), u) /\ n = Ceil(Len(q), u)
    OBVIOUS
  <2>2. \A b \in 1..n : Mh4(BlockOf(p, u, b)) = Mh4(BlockOf(q, u, b))
    BY <2>1, LeafHashesAre
  <2> QED
    BY <2>2, Mh4Injective
<1>2. ASSUME NEW i \in 1..Len(p) PROVE p[i] = q[i]
  <2> PICK b : b = Ceil(i, u)
    OBVIOUS
  <2>1. b \in 1..n /\ BlockOf(p, u, b)[i - (b - 1) * u] = p[i]
    BY BlockIs
  <2>2. BlockOf(q, u, b)[i - (b - 1) * u] = q[i]
    BY BlockIs, ZenonT(60)
  <2> QED
    BY <1>1, <2>1, <2>2
<1>3. p = [i \in 1..Len(p) |-> p[i]] /\ q = [i \in 1..Len(q) |-> q[i]]
  BY SeqIs
<1>4. [i \in 1..Len(p) |-> p[i]] = [i \in 1..Len(p) |-> q[i]]
  BY <1>2
<1> QED
  BY <1>3, <1>4

----------------------------------------------------------------------------
(* verify.                                                                 *)

Clean(c) ==
    /\ Parses(c)
    /\ LeafHashes(Payload(c), c.block_size) = Leaves(c)
    /\ Root(Leaves(c)) = c.root
    /\ "full" \in c.flags => Hash(Payload(c)) = c.image_hash
    /\ "signed" \in c.flags => SignatureOk(c.signer, SignedPart(c), c.signature)
    /\ c.approval = "none"

LEMMA ProblemsAre == \A c : Problems(c) = {} <=> Clean(c)
<1> SUFFICES ASSUME NEW c PROVE Problems(c) = {} <=> Clean(c)
  OBVIOUS
<1>1. CASE ~Parses(c)
  BY <1>1 DEF Problems, Clean
<1>2. CASE Parses(c)
  <2> DEFINE A == LeafHashes(Payload(c), c.block_size) # Leaves(c)
             B == Root(Leaves(c)) # c.root
             C == "full" \in c.flags /\ Hash(Payload(c)) # c.image_hash
             D == "signed" \in c.flags /\ ~SignatureOk(c.signer, SignedPart(c), c.signature)
             E == c.approval # "none"
  <2>1. Problems(c) = {p \in {"leaves", "root", "image_hash", "signature", "approval"} :
                         CASE p = "leaves" -> A [] p = "root" -> B [] p = "image_hash" -> C
                           [] p = "signature" -> D [] p = "approval" -> E}
    BY <1>2 DEF Problems
  <2>2. Clean(c) <=> ~A /\ ~B /\ ~C /\ ~D /\ ~E
    BY <1>2 DEF Clean
  <2> HIDE DEF A, B, C, D, E
  <2>3. Problems(c) = {} <=> ~A /\ ~B /\ ~C /\ ~D /\ ~E
    BY <2>1
  <2> QED
    BY <2>2, <2>3
<1> QED
  BY <1>1, <1>2

\* What the sizes of a container say of its cells.
Sized(c) == IsSeq(c.rest) /\ c.payload_size \in Nat /\ c.block_size \in Nat \ {0}

LEMMA PartsAre ==
    ASSUME NEW c, Sized(c), Len(c.rest) = BlockCount(c) + c.payload_size
    PROVE  /\ BlockCount(c) \in Nat
           /\ IsSeq(Leaves(c)) /\ Len(Leaves(c)) = BlockCount(c)
           /\ IsSeq(Payload(c)) /\ Len(Payload(c)) = c.payload_size
<1> DEFINE n == BlockCount(c)
           size == c.payload_size
<1>1. n \in Nat /\ size \in Nat /\ IsSeq(c.rest)
  BY CeilIs DEF Sized, BlockCount
<1>2. Leaves(c) = SubSeq(c.rest, 1, n) /\ Payload(c) = SubSeq(c.rest, n + 1, n + size)
  BY DEF Leaves, Payload
<1>3. Len(c.rest) = n + size
  OBVIOUS
<1> HIDE DEF n, size
<1>4. n <= Len(c.rest) /\ n + size <= Len(c.rest) /\ n + 1 \in Nat \ {0} /\ n + size \in Nat
  BY <1>1, <1>3
<1>5. IsSeq(SubSeq(c.rest, 1, n)) /\ Len(SubSeq(c.rest, 1, n)) = n - 1 + 1
  BY <1>1, <1>4, PieceIs
<1>6. IsSeq(SubSeq(c.rest, n + 1, n + size)) /\ Len(SubSeq(c.rest, n + 1, n + size)) = n + size - (n + 1) + 1
  BY <1>1, <1>4, PieceIs
<1>7. n - 1 + 1 = n /\ n + size - (n + 1) + 1 = size
  BY <1>1
<1> QED
  BY <1>1, <1>2, <1>5, <1>6, <1>7 DEF n, size

\* A parsed container is exactly as long as its sizes say.
LEMMA ParsedLength ==
    ASSUME NEW c, Sized(c), Parses(c)
    PROVE  /\ Len(c.rest) = BlockCount(c) + c.payload_size
           /\ BlockCount(c) \in Nat \ {0}
<1>1. Meta + BlockCount(c) + c.payload_size = Meta + Len(c.rest) /\ BlockCount(c) \in 1..BlockCountMax
  BY DEF Parses, FileLen
<1>2. Meta \in Nat /\ BlockCountMax \in Nat /\ c.payload_size \in Nat /\ Len(c.rest) \in Nat
  BY ContainerAssumption, SeqIs DEF Sized
<1> QED
  BY <1>1, <1>2

\* Leaves and payload of a container that verifies follow from its root.
LEMMA SameRoot ==
    ASSUME CollisionFree, NEW c, NEW d, Sized(c), Sized(d), Clean(c), Clean(d),
           c.payload_size = d.payload_size, c.block_size = d.block_size, c.root = d.root
    PROVE  Payload(c) = Payload(d) /\ Leaves(c) = Leaves(d)
<1> PICK n : n = BlockCount(c)
  OBVIOUS
<1> DEFINE u == c.block_size
           P == Payload(c)
           Q == Payload(d)
           L == Leaves(c)
           R == Leaves(d)
<1>1. n = BlockCount(d) /\ n \in Nat
  BY ParsedLength DEF BlockCount, Clean
<1>2. /\ IsSeq(L) /\ Len(L) = n /\ IsSeq(P) /\ Len(P) = c.payload_size
      /\ IsSeq(R) /\ Len(R) = n /\ IsSeq(Q) /\ Len(Q) = c.payload_size
  BY <1>1, ParsedLength, PartsAre DEF Clean
<1>3. u \in Nat \ {0} /\ LeafHashes(P, u) = L /\ LeafHashes(Q, u) = R /\ Root(L) = Root(R)
  BY DEF Sized, Clean
<1>4. n = Ceil(Len(P), u) /\ n = Ceil(Len(Q), u)
  BY <1>2 DEF BlockCount
<1> HIDE DEF u, P, Q, L, R
<1>5. \A i \in 1..n : L[i] # Zero
  BY <1>2, <1>3, <1>4, LeafHashesAre
<1>6. \A i \in 1..n : R[i] # Zero
  BY <1>2, <1>3, <1>4, LeafHashesAre
<1>7. \A i \in 1..n : L[i] = R[i]
  BY <1>1, <1>2, <1>3, <1>5, <1>6, RootInjective
<1>8. L = R
  <2>1. L = [i \in 1..n |-> L[i]] /\ R = [i \in 1..n |-> R[i]]
    BY <1>2, SeqIs
  <2>2. [i \in 1..n |-> L[i]] = [i \in 1..n |-> R[i]]
    BY <1>7
  <2> QED
    BY <2>1, <2>2
<1>9. P = Q
  BY <1>2, <1>3, <1>8, LeavesDetermine
<1> QED
  BY <1>8, <1>9 DEF P, Q, L, R

\* With the same cells and one of the two sizes, the boundary between leaves
\* and payload cannot move.
LEMMA SameCells ==
    ASSUME NEW c, NEW d, Sized(c), Sized(d), Parses(c), Parses(d), c.rest = d.rest,
           c.payload_size = d.payload_size \/ c.block_size = d.block_size
    PROVE  Payload(c) = Payload(d) /\ Leaves(c) = Leaves(d)
<1> DEFINE m == c.payload_size
           n == d.payload_size
           a == BlockCount(c)
           b == BlockCount(d)
<1>1. /\ m \in Nat /\ n \in Nat /\ a \in Nat /\ b \in Nat
      /\ Len(c.rest) = a + m /\ Len(c.rest) = b + n
  BY ParsedLength DEF Sized
<1>2. ASSUME c.block_size = d.block_size, m <= n PROVE a <= b
  BY <1>1, <1>2, CeilGrows DEF BlockCount, Sized
<1>3. ASSUME c.block_size = d.block_size, n <= m PROVE b <= a
  BY <1>1, <1>3, CeilGrows DEF BlockCount, Sized
<1> HIDE DEF m, n, a, b
<1>4. m = n /\ a = b
  BY <1>1, <1>2, <1>3 DEF m, n
<1> QED
  BY <1>4 DEF m, n, a, b, Payload, Leaves

LEMMA CleanLeaves ==
    ASSUME NEW c, Sized(c), Clean(c)
    PROVE  \E n \in Nat : /\ n # 0 /\ Len(Leaves(c)) = n /\ Root(Leaves(c)) = c.root
                         /\ \A i \in 1..n : Leaves(c)[i] # Zero
<1> PICK n : n = BlockCount(c)
  OBVIOUS
<1> DEFINE u == c.block_size
           P == Payload(c)
           L == Leaves(c)
<1>1. n \in Nat \ {0}
  BY ParsedLength DEF Clean
<1>2. IsSeq(L) /\ Len(L) = n /\ IsSeq(P) /\ Len(P) = c.payload_size
  BY <1>1, ParsedLength, PartsAre DEF Clean
<1>3. u \in Nat \ {0} /\ LeafHashes(P, u) = L /\ Root(L) = c.root
  BY DEF Sized, Clean
<1>4. n = Ceil(Len(P), u)
  BY <1>2 DEF BlockCount
<1> HIDE DEF u, P, L
<1>5. \A i \in 1..n : L[i] # Zero
  BY <1>2, <1>3, <1>4, LeafHashesAre, ZenonT(60)
<1> QED
  BY <1>1, <1>2, <1>3, <1>5 DEF L

LEMMA CleanRoot ==
    ASSUME NEW c, Sized(c), Clean(c)
    PROVE  c.root # Zero
BY CleanLeaves, RootNotZero

----------------------------------------------------------------------------
(* build.                                                                  *)

LEMMA ListIs ==
    ASSUME NEW n \in Nat, NEW s, s = [i \in 1..n |-> s[i]]
    PROVE  IsSeq(s) /\ Len(s) = n
<1> DEFINE T == {s[i] : i \in 1..n}
<1>1. s \in [1..n -> T]
  OBVIOUS
<1> HIDE DEF T
<1>2. s \in Seq(T)
  BY <1>1, SeqDef
<1>3. Len(s) = n
  BY <1>1
<1> QED
  BY <1>2, <1>3, SeqIs

LEMMA ReplaceIs ==
    ASSUME NEW s, IsSeq(s), NEW i, NEW x
    PROVE  IsSeq([s EXCEPT ![i] = x]) /\ Len([s EXCEPT ![i] = x]) = Len(s)
<1> PICK n : n = Len(s)
  OBVIOUS
<1> DEFINE t == [s EXCEPT ![i] = x]
<1>1. n \in Nat /\ DOMAIN s = 1..n
  BY SeqIs
<1>2. t = [k \in 1..n |-> t[k]]
  BY <1>1
<1> HIDE DEF t
<1>3. IsSeq(t) /\ Len(t) = n
  BY <1>1, <1>2, ListIs
<1> QED
  BY <1>3 DEF t

LEMMA AppendIs ==
    ASSUME NEW s, IsSeq(s), NEW x
    PROVE  IsSeq(Append(s, x))
<1> DEFINE T == {s[i] : i \in DOMAIN s}
           U == T \cup {x}
<1>1. s \in Seq(T)
  BY DEF IsSeq
<1>2. T \subseteq U /\ x \in U
  OBVIOUS
<1> HIDE DEF T, U
<1>3. s \in Seq(U)
  BY <1>1, <1>2, SeqMonotonic
<1>4. Append(s, x) \in Seq(U)
  BY <1>2, <1>3
<1> QED
  BY <1>4, SeqIs

\* Two sequences one after the other, cut apart again.
LEMMA JoinIs ==
    ASSUME NEW s, IsSeq(s), NEW t, IsSeq(t)
    PROVE  /\ IsSeq(s \o t) /\ Len(s \o t) = Len(s) + Len(t)
           /\ SubSeq(s \o t, 1, Len(s)) = s
           /\ SubSeq(s \o t, Len(s) + 1, Len(s) + Len(t)) = t
<1> PICK m : m = Len(s)
  OBVIOUS
<1> PICK n : n = Len(t)
  OBVIOUS
<1> DEFINE S == {s[i] : i \in DOMAIN s}
           T == {t[i] : i \in DOMAIN t}
           U == S \cup T
<1>1. s \in Seq(S) /\ t \in Seq(T)
  BY DEF IsSeq
<1>2. S \subseteq U /\ T \subseteq U
  OBVIOUS
<1> HIDE DEF S, T, U
<1>3. s \in Seq(U) /\ t \in Seq(U)
  BY <1>1, <1>2, SeqMonotonic
<1> DEFINE w == s \o t
<1>4. w \in Seq(U) /\ Len(w) = m + n
  BY <1>3
<1>5. m \in Nat /\ n \in Nat
  BY <1>3
<1>6. \A i \in 1..(m + n) : w[i] = IF i <= m THEN s[i] ELSE t[i - m]
  BY <1>3
<1> HIDE DEF w
<1>7. IsSeq(w)
  BY <1>4, SeqIs
<1>8. SubSeq(w, 1, m) = [k \in 1..(m - 1 + 1) |-> w[1 + k - 1]]
  BY <1>4, <1>5, <1>7, PieceIs
<1>9. SubSeq(w, m + 1, m + n) = [k \in 1..(m + n - (m + 1) + 1) |-> w[m + 1 + k - 1]]
  BY <1>4, <1>5, <1>7, PieceIs
<1>10. s = [k \in 1..m |-> s[k]] /\ t = [k \in 1..n |-> t[k]]
  BY SeqIs
<1>11. [k \in 1..(m - 1 + 1) |-> w[1 + k - 1]] = [k \in 1..m |-> s[k]]
  <2>1. m - 1 + 1 = m
    BY <1>5
  <2>2. \A k \in 1..m : w[1 + k - 1] = s[k]
    BY <1>5, <1>6
  <2> QED
    BY <2>1, <2>2
<1>12. [k \in 1..(m + n - (m + 1) + 1) |-> w[m + 1 + k - 1]] = [k \in 1..n |-> t[k]]
  <2>1. m + n - (m + 1) + 1 = n
    BY <1>5
  <2>2. ASSUME NEW k \in 1..n PROVE w[m + 1 + k - 1] = t[k]
    <3>1. m + 1 + k - 1 \in 1..(m + n) /\ ~(m + 1 + k - 1 <= m) /\ (m + 1 + k - 1) - m = k
      BY <1>5
    <3> QED
      BY <1>6, <3>1
  <2> QED
    BY <2>1, <2>2
<1> QED
  BY <1>4, <1>7, <1>8, <1>9, <1>10, <1>11, <1>12 DEF w

\* A bootloader's image is a whole number of blocks.
LEMMA WholeBlocks == Ceil(BootSize, BootBlockSize) \in 1..BlockCountMax
<1> DEFINE q == BootSize \div BootBlockSize
           c == Ceil(BootSize, BootBlockSize)
           u == BootBlockSize
<1>1. BootSize \in Nat /\ u \in Nat \ {0} /\ BootSize % u = 0 /\ q \in 1..BlockCountMax /\ BlockCountMax \in Nat
  BY ContainerAssumption
<1>2. BootSize = u * q
  BY <1>1
<1>3. c \in Nat /\ BootSize <= c * u /\ (BootSize # 0 => (c - 1) * u < BootSize)
  BY <1>1, CeilIs
<1> HIDE DEF q, c, u
<1>4. q \in Nat /\ q # 0 /\ u * q = q * u /\ q * u # 0
  BY <1>1
<1>5. q * u <= c * u /\ (c - 1) * u < q * u
  BY <1>2, <1>3, <1>4
<1>6. c * u \in Int /\ q * u \in Int /\ (c - 1) * u \in Int /\ (q - 1) * u \in Int
  BY <1>1, <1>3, <1>4
<1>7. ~(c <= q - 1)
  <2>1. ASSUME c <= q - 1 PROVE FALSE
    <3>1. c * u <= (q - 1) * u
      BY <1>1, <1>3, <1>4, <2>1
    <3>2. (q - 1) * u = q * u - u
      BY <1>1, <1>4
    <3> QED
      BY <1>1, <1>5, <1>6, <3>1, <3>2
  <2> QED
    BY <2>1
<1>8. ~(q <= c - 1)
  <2>1. ASSUME q <= c - 1 PROVE FALSE
    <3>1. q * u <= (c - 1) * u
      BY <1>1, <1>3, <1>4, <2>1
    <3> QED
      BY <1>5, <1>6, <3>1
  <2> QED
    BY <2>1
<1>9. c = q
  BY <1>3, <1>4, <1>7, <1>8
<1> QED
  BY <1>1, <1>9 DEF c, u

Fields == {"magic", "trailer", "total", "version", "flags", "hash_algo", "target", "hw", "fw_version",
           "image_size", "payload_size", "block_size", "root", "image_hash", "codec", "base_hash",
           "signer", "signature", "approval", "rest"}

\* Two containers that agree on all but some fields.
Same(c, d, except) == DOMAIN d = DOMAIN c /\ \A f \in (DOMAIN c) \ except : d[f] = c[f]

LEMMA SignedIs ==
    ASSUME NEW c, DOMAIN c = Fields, NEW key, NEW d, d = Signed(c, key)
    PROVE  Same(c, d, {"signature"}) /\ d.signature = Sign(key, SignedPart(d))
<1> DEFINE x == Sign(key, SignedPart(c))
<1>1. d = [c EXCEPT !.signature = x]
  BY DEF Signed
<1> HIDE DEF x
<1>2. Same(c, d, {"signature"}) /\ d.signature = x
  BY <1>1 DEF Same, Fields
<1>3. /\ d.version = c.version /\ d.flags = c.flags /\ d.hash_algo = c.hash_algo
      /\ d.target = c.target /\ d.fw_version = c.fw_version /\ d.image_size = c.image_size
      /\ d.payload_size = c.payload_size /\ d.block_size = c.block_size /\ d.root = c.root
      /\ d.image_hash = c.image_hash /\ d.codec = c.codec /\ d.hw = c.hw
      /\ d.base_hash = c.base_hash /\ d.signer = c.signer
  BY <1>2 DEF Same, Fields
<1>4. SignedPart(d) = SignedPart(c)
  BY <1>3 DEF SignedPart
<1> QED
  BY <1>2, <1>4 DEF x

\* A container around a payload, signed or not yet.
Packed(c, payload) ==
    /\ DOMAIN c = Fields /\ Sized(c)
    /\ c.payload_size = Len(payload) /\ Payload(c) = payload
    /\ Leaves(c) = LeafHashes(payload, c.block_size)
    /\ Meta + BlockCount(c) + c.payload_size = FileLen(c)
    /\ c.root = Root(Leaves(c))
    /\ c.magic /\ c.trailer /\ c.total = FileLen(c)
    /\ c.approval = "none" /\ c.hash_algo = "sha256"

LEMMA UnsignedIs ==
    ASSUME NEW version, NEW flags, NEW ident, NEW image, NEW payload, IsSeq(payload),
           NEW u \in Nat \ {0}, NEW codec, NEW base_hash, NEW key, NEW c,
           c = Unsigned(version, flags, ident, image, payload, u, codec, base_hash, key)
    PROVE  /\ Packed(c, payload)
           /\ c.version = version /\ c.flags = flags /\ c.block_size = u
           /\ c.target = ident.target /\ c.hw = ident.hw /\ c.fw_version = ident.fw_version
           /\ c.image_size = Len(image) /\ c.image_hash = Hash(image)
           /\ c.codec = codec /\ c.base_hash = base_hash /\ c.signer = key
<1> PICK leaves : leaves = LeafHashes(payload, u)
  OBVIOUS
<1> PICK m : m = Len(leaves)
  OBVIOUS
<1> PICK n : n = Len(payload)
  OBVIOUS
<1>1. /\ c.version = version /\ c.flags = flags /\ c.block_size = u
      /\ c.target = ident.target /\ c.hw = ident.hw /\ c.fw_version = ident.fw_version
      /\ c.image_size = Len(image) /\ c.image_hash = Hash(image)
      /\ c.codec = codec /\ c.base_hash = base_hash /\ c.signer = key
  BY DEF Unsigned
<1>2. /\ DOMAIN c = Fields /\ c.magic = TRUE /\ c.trailer = TRUE /\ c.total = Meta + m + n
      /\ c.hash_algo = "sha256" /\ c.payload_size = n /\ c.root = Root(leaves)
      /\ c.approval = "none" /\ c.rest = leaves \o payload
  BY DEF Unsigned, Fields
<1>3. m = Ceil(n, u) /\ m \in Nat /\ n \in Nat /\ IsSeq(leaves)
  BY LeafHashesAre, SeqIs
<1>4. /\ IsSeq(leaves \o payload) /\ Len(leaves \o payload) = m + n
      /\ SubSeq(leaves \o payload, 1, m) = leaves
      /\ SubSeq(leaves \o payload, m + 1, m + n) = payload
  <2>1. IsSeq(leaves) /\ IsSeq(payload)
    BY <1>3
  <2>2. /\ IsSeq(leaves \o payload) /\ Len(leaves \o payload) = Len(leaves) + Len(payload)
        /\ SubSeq(leaves \o payload, 1, Len(leaves)) = leaves
        /\ SubSeq(leaves \o payload, Len(leaves) + 1, Len(leaves) + Len(payload)) = payload
    BY <2>1, JoinIs
  <2>3. m = Len(leaves) /\ n = Len(payload)
    OBVIOUS
  <2> QED
    BY <2>2, <2>3
<1>5. BlockCount(c) = m
  BY <1>1, <1>2, <1>3 DEF BlockCount
<1>6. Leaves(c) = leaves /\ Payload(c) = payload
  BY <1>2, <1>4, <1>5 DEF Leaves, Payload
<1>7. Sized(c)
  BY <1>1, <1>2, <1>3, <1>4 DEF Sized
<1>8. Meta \in Nat
  BY ContainerAssumption
<1>9. FileLen(c) = Meta + m + n
  <2>1. FileLen(c) = Meta + (m + n)
    BY <1>2, <1>4 DEF FileLen
  <2> QED
    BY <1>3, <1>8, <2>1
<1> QED
  BY <1>1, <1>2, <1>5, <1>6, <1>7, <1>9 DEF Packed

\* A signature changes nothing that Packed speaks of.
LEMMA PackedSigned ==
    ASSUME NEW c, NEW payload, Packed(c, payload), NEW d, Same(c, d, {"signature"})
    PROVE  Packed(d, payload)
<1>1. /\ DOMAIN d = Fields
      /\ d.payload_size = c.payload_size /\ d.block_size = c.block_size /\ d.rest = c.rest
      /\ d.root = c.root /\ d.magic = c.magic /\ d.trailer = c.trailer /\ d.total = c.total
      /\ d.approval = c.approval /\ d.hash_algo = c.hash_algo
  BY DEF Same, Packed, Fields
<1>2. /\ BlockCount(d) = BlockCount(c) /\ FileLen(d) = FileLen(c)
  BY <1>1 DEF BlockCount, FileLen
<1>3. Leaves(d) = Leaves(c) /\ Payload(d) = Payload(c)
  BY <1>1, <1>2 DEF Leaves, Payload
<1>4. Sized(d)
  BY <1>1 DEF Sized, Packed
<1> QED
  BY <1>1, <1>2, <1>3, <1>4 DEF Packed

\* What verify compares, for a container that parses.
LEMMA PackedIsClean ==
    ASSUME NEW c, NEW payload, Packed(c, payload), Parses(c),
           "full" \in c.flags => c.image_hash = Hash(payload),
           "signed" \in c.flags => c.signature = Sign(c.signer, SignedPart(c))
    PROVE  Clean(c)
BY DEF Packed, Clean, SignatureOk

\* A packed container is as long as its sizes say, and has a block.
LEMMA PackedIs ==
    ASSUME NEW c, NEW payload, Packed(c, payload), BlockCount(c) \in 1..BlockCountMax
    PROVE  /\ c.payload_size # 0
           /\ c.magic /\ c.total = FileLen(c) /\ c.trailer
           /\ Meta + BlockCount(c) + c.payload_size = FileLen(c)
<1>1. c.payload_size \in Nat /\ c.block_size \in Nat \ {0}
  BY DEF Packed, Sized
<1>2. c.payload_size = 0 => BlockCount(c) = 0
  BY <1>1, CeilIs DEF BlockCount
<1> QED
  BY <1>2 DEF Packed

\* What build promises of its result.
Good(c) ==
    /\ DOMAIN c = Fields /\ Sized(c) /\ c.flags \subseteq KnownFlags
    /\ Clean(c)
    /\ c.signer # None => c.signature = Sign(c.signer, SignedPart(c))

LEMMA PayloadIs ==
    ASSUME NEW o \in AppOptions
    PROVE  IsSeq(BuiltPayload(o))
<1>1. IsSeq(o.fw) /\ (o.base # None => IsSeq(Patch(o.base, Image(o))))
  BY AppAssumption
<1>2. IsSeq(Image(o))
  BY <1>1, AppendIs DEF Image, EnsureEndf
<1> QED
  BY <1>1, <1>2 DEF BuiltPayload

LEMMA AssembleIs ==
    ASSUME NEW o \in AppOptions, Buildable(o)
    PROVE  Good(Assemble(o))
<1> PICK payload : payload = BuiltPayload(o)
  OBVIOUS
<1> PICK u : u = o.block_size
  OBVIOUS
<1> PICK key : key = o.key
  OBVIOUS
<1> PICK flags : flags = (IF o.base = None THEN {"full"} ELSE {}) \cup (IF o.key # None THEN {"signed"} ELSE {})
  OBVIOUS
<1> DEFINE codec == IF o.base = None THEN "full" ELSE "delta"
           hash == IF o.base = None THEN Zero ELSE Last(o.base)[3]
<1> PICK plain : plain = Unsigned(2, flags, Resolve(o), Image(o), payload, u, codec, hash, key)
  OBVIOUS
<1> PICK c : c = Assemble(o)
  OBVIOUS
<1>1. u \in AppBlockSizes /\ u \in Nat \ {0} /\ Ceil(Len(payload), u) \in 1..BlockCountMax /\ IsSeq(payload)
  BY ContainerAssumption, PayloadIs DEF Buildable
<1>2. c = IF key = None THEN plain ELSE Signed(plain, key)
  BY DEF Assemble
<1> HIDE DEF codec, hash
<1>3. /\ Packed(plain, payload) /\ plain.version = 2 /\ plain.flags = flags /\ plain.block_size = u
      /\ plain.image_hash = Hash(Image(o)) /\ plain.signer = key
  BY <1>1, UnsignedIs
<1>4. /\ Packed(c, payload) /\ c.version = 2 /\ c.flags = flags /\ c.block_size = u
      /\ c.image_hash = Hash(Image(o)) /\ c.signer = key
      /\ key # None => c.signature = Sign(key, SignedPart(c))
  <2>1. CASE key = None
    BY <1>2, <1>3, <2>1
  <2>2. CASE key # None
    <3>1. c = Signed(plain, key) /\ DOMAIN plain = Fields
      BY <1>2, <1>3, <2>2 DEF Packed
    <3>2. Same(plain, c, {"signature"}) /\ c.signature = Sign(key, SignedPart(c))
      BY <3>1, SignedIs
    <3>3. Packed(c, payload)
      BY <1>3, <3>2, PackedSigned
    <3>4. /\ c.version = plain.version /\ c.flags = plain.flags /\ c.block_size = plain.block_size
          /\ c.image_hash = plain.image_hash /\ c.signer = plain.signer
      BY <3>1, <3>2 DEF Same, Fields
    <3> QED
      BY <1>3, <3>2, <3>3, <3>4
  <2> QED
    BY <2>1, <2>2
<1>5. flags \subseteq {"full", "signed"} /\ ("signed" \in flags <=> key # None) /\ ("full" \in flags <=> o.base = None)
  BY Zenon
<1>6. "full" \in flags => payload = Image(o)
  BY <1>5 DEF BuiltPayload
<1>7. BlockCount(c) = Ceil(Len(payload), u)
  BY <1>4 DEF BlockCount, Packed
<1>8. /\ c.payload_size # 0 /\ c.magic /\ c.total = FileLen(c) /\ c.trailer
      /\ Meta + BlockCount(c) + c.payload_size = FileLen(c)
  BY <1>1, <1>4, <1>7, PackedIs
<1>9. Parses(c)
  <2>1. "bootloader" \notin c.flags
    BY <1>4, <1>5
  <2>2. (c.version = 2 /\ "bootloader" \notin c.flags) \/ (c.version = 3 /\ c.flags = KnownFlags)
    BY <1>4, <2>1
  <2>3. IF c.version = 2 THEN c.block_size \in AppBlockSizes ELSE c.block_size = BootBlockSize
    BY <1>1, <1>4
  <2>4. BlockCount(c) \in 1..BlockCountMax
    BY <1>1, <1>7
  <2> QED
    BY <1>8, <2>1, <2>2, <2>3, <2>4 DEF Parses
<1>10. Clean(c)
  BY <1>4, <1>5, <1>6, <1>9, PackedIsClean
<1> QED
  BY <1>4, <1>5, <1>10 DEF Good, Packed, KnownFlags

LEMMA AssembleBootloaderIs ==
    ASSUME NEW o \in BootOptions, ProfileOk(o)
    PROVE  Good(AssembleBootloader(o))
<1> PICK image : image = o.image
  OBVIOUS
<1> PICK key : key = o.key
  OBVIOUS
<1> PICK ident : ident = [target |-> o.board, hw |-> o.board, fw_version |-> Last(image)[4]]
  OBVIOUS
<1> PICK plain : plain = Unsigned(3, KnownFlags, ident, image, image, BootBlockSize, "full", Zero, key)
  OBVIOUS
<1> PICK c : c = AssembleBootloader(o)
  OBVIOUS
<1>1. IsSeq(image) /\ key \in Keys /\ key # None /\ BootBlockSize \in Nat \ {0}
  BY BootAssumption, ContainerAssumption
<1>2. c = Signed(plain, key)
  BY DEF AssembleBootloader
<1>3. ident.target = o.board /\ ident.hw = o.board /\ ident.fw_version = Last(image)[4]
  OBVIOUS
<1>4. /\ Packed(plain, image) /\ plain.version = 3 /\ plain.flags = KnownFlags
      /\ plain.block_size = BootBlockSize
      /\ plain.target = o.board /\ plain.hw = o.board /\ plain.fw_version = Last(image)[4]
      /\ plain.image_size = Len(image) /\ plain.image_hash = Hash(image)
      /\ plain.codec = "full" /\ plain.base_hash = Zero /\ plain.signer = key
  BY <1>1, <1>3, UnsignedIs
<1>5. Same(plain, c, {"signature"}) /\ c.signature = Sign(key, SignedPart(c))
  BY <1>2, <1>4, SignedIs DEF Packed
<1>6. Packed(c, image)
  BY <1>4, <1>5, PackedSigned
<1>7. /\ c.version = 3 /\ c.flags = KnownFlags /\ c.block_size = BootBlockSize
      /\ c.target = o.board /\ c.hw = o.board /\ c.fw_version = Last(image)[4]
      /\ c.image_size = Len(image) /\ c.image_hash = Hash(image)
      /\ c.codec = "full" /\ c.base_hash = Zero /\ c.signer = key
  BY <1>4, <1>5 DEF Same, Packed, Fields
<1>8. Len(image) = BootSize /\ BootImageOk(image, o.board, o.board, Last(image)[4])
  BY DEF ProfileOk
<1>9. Last(image)[4] # 0
  <2>1. Last(image) = image[BootSize]
    BY <1>8 DEF Last
  <2> QED
    BY <1>8, <2>1 DEF BootImageOk
<1>10. BootManifestOk(c)
  BY <1>6, <1>7, <1>8, <1>9 DEF BootManifestOk, Packed
<1>11. BlockCount(c) \in 1..BlockCountMax
  BY <1>6, <1>7, <1>8, WholeBlocks DEF BlockCount, Packed
<1>12. /\ c.payload_size # 0 /\ c.magic /\ c.total = FileLen(c) /\ c.trailer
       /\ Meta + BlockCount(c) + c.payload_size = FileLen(c)
  BY <1>6, <1>11, PackedIs
<1>13. Parses(c)
  BY <1>7, <1>10, <1>11, <1>12 DEF Parses
<1>14. Clean(c)
  BY <1>5, <1>6, <1>7, <1>13, PackedIsClean
<1> QED
  BY <1>5, <1>6, <1>7, <1>14 DEF Good, Packed

----------------------------------------------------------------------------
(* The inductive invariant: what build promised, and how far a stored file *)
(* has moved from it.                                                      *)

\* What one change leaves of a container, as far as the root reaches.
OneChange(c, d) ==
    \/ ~c.trailer
    \/ c.root = Zero
    \/ /\ c.root = d.root
       /\ \/ c.payload_size = d.payload_size /\ c.block_size = d.block_size
          \/ c.rest = d.rest /\ (c.payload_size = d.payload_size \/ c.block_size = d.block_size)

\* Without its key nobody makes a signature of the signer of d.
Unforged(c, d) ==
    c.signature = d.signature \/ c.signature = Zero \/ c.signature[2] # d.signer

ContainerInv ==
    /\ TypeOK
    /\ built = NoFile => damage = 0
    /\ built # NoFile =>
         /\ Good(built)
         /\ DOMAIN file = Fields /\ Sized(file)
         /\ Unforged(file, built)
         /\ damage = 0 => file = built
         /\ damage <= 1 => OneChange(file, built)

LEMMA NotNoFile == \A c : DOMAIN c = Fields => c # NoFile
<1>1. DOMAIN NoFile = {}
  BY DEF NoFile
<1>2. "root" \in Fields
  BY DEF Fields
<1> QED
  BY <1>1, <1>2

LEMMA BuiltKeeps ==
    ASSUME ContainerInv, NEW c, Good(c), built = NoFile,
           built' = c, file' = c, UNCHANGED <<opts, damage>>
    PROVE  ContainerInv'
<1>1. DOMAIN c = Fields /\ Sized(c) /\ c.flags \subseteq KnownFlags
  BY DEF Good
<1>2. c # NoFile
  BY <1>1, NotNoFile
<1>3. Unforged(c, c) /\ OneChange(c, c)
  BY DEF Unforged, OneChange
<1>4. opts' = opts /\ damage' = damage
  OBVIOUS
<1>5. TypeOK'
  BY <1>1, <1>2, <1>4 DEF ContainerInv, TypeOK
<1> QED
  BY <1>1, <1>2, <1>3, <1>4, <1>5 DEF ContainerInv

LEMMA ChangeKeeps ==
    ASSUME ContainerInv, NEW new, NEW w \in {1, 2}, Change(new, w),
           DOMAIN new = Fields, Sized(new), new.flags \subseteq KnownFlags,
           Unforged(new, built), w = 1 => OneChange(new, file)
    PROVE  ContainerInv'
<1>1. /\ built # NoFile /\ file' = new /\ damage' = damage + w /\ opts' = opts /\ built' = built
      /\ damage + w <= MaxDamage
  BY DEF Change
<1>2. new # NoFile
  BY NotNoFile
<1>3. damage \in 0..MaxDamage /\ MaxDamage \in Nat
  BY ContainerAssumption DEF ContainerInv, TypeOK
<1>4. damage' \in 0..MaxDamage /\ damage' # 0
  BY <1>1, <1>3
<1>5. DOMAIN built = Fields
  BY <1>1 DEF ContainerInv, Good
<1>6. TypeOK'
  BY <1>1, <1>2, <1>4, <1>5 DEF ContainerInv, TypeOK
<1>7. damage' <= 1 => OneChange(new, built)
  <2>1. damage' <= 1 => damage = 0 /\ w = 1
    BY <1>1, <1>3
  <2>2. damage = 0 => file = built
    BY <1>1 DEF ContainerInv
  <2> QED
    BY <2>1, <2>2
<1>8. Good(built)
  BY <1>1 DEF ContainerInv
<1> QED
  BY <1>1, <1>4, <1>6, <1>7, <1>8 DEF ContainerInv

\* One field gets another value.
LEMMA FieldKeeps ==
    ASSUME ContainerInv, NEW f \in Fields, NEW x, NEW new, new = [file EXCEPT ![f] = x],
           Change(new, 1),
           f = "payload_size" => x \in Nat,
           f = "block_size" => x \in Nat \ {0},
           f = "rest" => IsSeq(x),
           f = "flags" => x \subseteq KnownFlags,
           f = "signature" => x = Zero,
           f = "root" => x = Zero
    PROVE  ContainerInv'
<1>1. built # NoFile
  BY DEF Change
<1>2. /\ DOMAIN file = Fields /\ Sized(file) /\ Unforged(file, built)
      /\ file # NoFile /\ file.flags \subseteq KnownFlags
  BY <1>1 DEF ContainerInv, TypeOK
<1>3. /\ DOMAIN new = Fields /\ new[f] = x
      /\ \A g \in Fields : g # f => new[g] = file[g]
  BY <1>2
<1>4. {"payload_size", "block_size", "rest", "flags", "signature", "root"} \subseteq Fields
  BY DEF Fields
<1>5. Sized(new)
  BY <1>2, <1>3, <1>4 DEF Sized
<1>6. new.flags \subseteq KnownFlags
  BY <1>2, <1>3, <1>4
<1>7. Unforged(new, built)
  BY <1>2, <1>3, <1>4 DEF Unforged
<1>8. OneChange(new, file)
  BY <1>3, <1>4 DEF OneChange
<1> QED
  BY <1>3, <1>5, <1>6, <1>7, <1>8, ChangeKeeps

LEMMA DamageCellKeeps == ContainerInv /\ file # NoFile /\ DamageCell => ContainerInv'
<1> SUFFICES ASSUME ContainerInv, file # NoFile, DamageCell PROVE ContainerInv'
  OBVIOUS
<1>1. built # NoFile /\ DOMAIN file = Fields /\ IsSeq(file.rest)
  BY DEF ContainerInv, TypeOK, Sized
<1>2. PICK i \in DOMAIN file.rest : Change([file EXCEPT !.rest[i] = Junk], 1)
  BY DEF DamageCell
<1> PICK x : x = [file.rest EXCEPT ![i] = Junk]
  OBVIOUS
<1> PICK new : new = [file EXCEPT !["rest"] = x]
  OBVIOUS
<1>3. Change(new, 1)
  BY <1>2
<1>4. IsSeq(x) /\ "rest" \in Fields
  BY <1>1, ReplaceIs DEF Fields
<1> QED
  BY <1>3, <1>4, FieldKeeps

LEMMA SwapCellsKeeps == ContainerInv /\ file # NoFile /\ SwapCells => ContainerInv'
<1> SUFFICES ASSUME ContainerInv, file # NoFile, SwapCells PROVE ContainerInv'
  OBVIOUS
<1>1. built # NoFile /\ DOMAIN file = Fields /\ IsSeq(file.rest)
  BY DEF ContainerInv, TypeOK, Sized
<1>2. PICK i \in 1..(Len(file.rest) - 1) :
        Change([file EXCEPT !.rest = [@ EXCEPT ![i] = file.rest[i + 1], ![i + 1] = file.rest[i]]], 1)
  BY DEF SwapCells
<1> PICK y : y = [file.rest EXCEPT ![i] = file.rest[i + 1]]
  OBVIOUS
<1> PICK x : x = [y EXCEPT ![i + 1] = file.rest[i]]
  OBVIOUS
<1> PICK new : new = [file EXCEPT !["rest"] = x]
  OBVIOUS
<1>3. Change(new, 1)
  BY <1>2
<1>4. IsSeq(y)
  BY <1>1, ReplaceIs
<1>5. IsSeq(x) /\ "rest" \in Fields
  BY <1>4, ReplaceIs DEF Fields
<1> QED
  BY <1>3, <1>5, FieldKeeps

LEMMA TruncateKeeps == ContainerInv /\ file # NoFile /\ Truncate => ContainerInv'
<1> SUFFICES ASSUME ContainerInv, file # NoFile, Truncate PROVE ContainerInv'
  OBVIOUS
<1>1. /\ built # NoFile /\ DOMAIN file = Fields /\ Sized(file) /\ IsSeq(file.rest)
      /\ Unforged(file, built) /\ file.flags \subseteq KnownFlags
  BY DEF ContainerInv, TypeOK, Sized
<1> PICK x : x = Front(file.rest)
  OBVIOUS
<1> PICK new : new = [file EXCEPT !.rest = x, !.trailer = FALSE]
  OBVIOUS
<1>2. Change(new, 1) /\ file.rest # <<>>
  BY DEF Truncate
<1>3. IsSeq(x)
  <2> PICK n : n = Len(file.rest)
    OBVIOUS
  <2>1. n \in Nat /\ n # 0
    <3>1. n \in Nat /\ file.rest = [i \in 1..n |-> file.rest[i]]
      BY <1>1, SeqIs
    <3>2. n = 0 => file.rest = <<>>
      BY <3>1
    <3> QED
      BY <1>2, <3>1, <3>2
  <2>2. x = SubSeq(file.rest, 1, n - 1)
    BY DEF Front
  <2>3. n - 1 \in Nat /\ 1 \in Nat \ {0} /\ 1 <= n - 1 + 1 /\ n - 1 <= Len(file.rest)
    BY <2>1
  <2>4. IsSeq(SubSeq(file.rest, 1, n - 1))
    BY <1>1, <2>3, PieceIs
  <2> QED
    BY <2>2, <2>4
<1>4. /\ DOMAIN new = Fields /\ new.rest = x /\ new.trailer = FALSE
      /\ new.payload_size = file.payload_size /\ new.block_size = file.block_size
      /\ new.flags = file.flags /\ new.signature = file.signature
  BY <1>1 DEF Fields
<1>5. Sized(new) /\ Unforged(new, built) /\ OneChange(new, file)
  BY <1>1, <1>3, <1>4 DEF Sized, Unforged, OneChange
<1> QED
  BY <1>1, <1>2, <1>4, <1>5, ChangeKeeps

LEMMA RepackKeeps == ContainerInv /\ file # NoFile /\ Repack => ContainerInv'
<1> SUFFICES ASSUME ContainerInv, file # NoFile, Repack PROVE ContainerInv'
  OBVIOUS
<1>1. /\ built # NoFile /\ DOMAIN file = Fields /\ Sized(file)
      /\ Unforged(file, built) /\ file.flags \subseteq KnownFlags
  BY DEF ContainerInv, TypeOK
<1>2. IsSeq(Payload(file)) /\ file.block_size \in Nat \ {0}
  BY <1>1, ParsedLength, PartsAre DEF Repack, Sized
<1>3. PICK i \in 1..file.payload_size : \E cell \in {Junk, Forged(Payload(file)[i])} :
        LET payload == [Payload(file) EXCEPT ![i] = cell]
            leaves == LeafHashes(payload, file.block_size)
        IN  \E hash \in {file.image_hash, Hash(payload)} :
              Change([file EXCEPT !.root = Root(leaves), !.rest = leaves \o payload,
                                  !.image_hash = hash], 2)
  BY DEF Repack
<1> PICK cell \in {Junk, Forged(Payload(file)[i])} :
        LET payload == [Payload(file) EXCEPT ![i] = cell]
            leaves == LeafHashes(payload, file.block_size)
        IN  \E hash \in {file.image_hash, Hash(payload)} :
              Change([file EXCEPT !.root = Root(leaves), !.rest = leaves \o payload,
                                  !.image_hash = hash], 2)
  BY <1>3
<1> PICK payload : payload = [Payload(file) EXCEPT ![i] = cell]
  OBVIOUS
<1> PICK leaves : leaves = LeafHashes(payload, file.block_size)
  OBVIOUS
<1> PICK x \in {file.image_hash, Hash(payload)} :
        Change([file EXCEPT !.root = Root(leaves), !.rest = leaves \o payload, !.image_hash = x], 2)
  OBVIOUS
<1> PICK new : new = [file EXCEPT !.root = Root(leaves), !.rest = leaves \o payload, !.image_hash = x]
  OBVIOUS
<1>4. Change(new, 2)
  OBVIOUS
<1>5. IsSeq(payload)
  BY <1>2, ReplaceIs
<1>6. IsSeq(leaves)
  BY <1>2, <1>5, LeafHashesAre
<1>7. IsSeq(leaves \o payload)
  BY <1>5, <1>6, JoinIs
<1>8. /\ DOMAIN new = Fields /\ new.rest = leaves \o payload
      /\ new.payload_size = file.payload_size /\ new.block_size = file.block_size
      /\ new.flags = file.flags /\ new.signature = file.signature
  BY <1>1 DEF Fields
<1>9. Sized(new) /\ Unforged(new, built)
  BY <1>1, <1>7, <1>8 DEF Sized, Unforged
<1>10. 2 \in {1, 2} /\ ~(2 = 1)
  OBVIOUS
<1>11. new.flags \subseteq KnownFlags
  BY <1>1, <1>8
<1> QED
  BY <1>4, <1>8, <1>9, <1>10, <1>11, ChangeKeeps

LEMMA ResignKeeps == ContainerInv /\ file # NoFile /\ Resign => ContainerInv'
<1> SUFFICES ASSUME ContainerInv, file # NoFile, Resign PROVE ContainerInv'
  OBVIOUS
<1>1. /\ built # NoFile /\ DOMAIN file = Fields /\ Sized(file) /\ file.flags \subseteq KnownFlags
  BY DEF ContainerInv, TypeOK
<1>2. PICK k \in Keys \ {built.signer} : Change(Signed([file EXCEPT !.signer = k], k), 1)
  BY DEF Resign
<1> PICK mid : mid = [file EXCEPT !.signer = k]
  OBVIOUS
<1> PICK new : new = Signed(mid, k)
  OBVIOUS
<1>3. /\ DOMAIN mid = Fields /\ mid.rest = file.rest /\ mid.root = file.root
      /\ mid.payload_size = file.payload_size /\ mid.block_size = file.block_size
      /\ mid.flags = file.flags
  BY <1>1 DEF Fields
<1>4. Same(mid, new, {"signature"}) /\ new.signature = Sign(k, SignedPart(new))
  BY <1>3, SignedIs
<1>5. /\ DOMAIN new = Fields /\ new.rest = file.rest /\ new.root = file.root
      /\ new.payload_size = file.payload_size /\ new.block_size = file.block_size
      /\ new.flags = file.flags
  BY <1>3, <1>4 DEF Same, Fields
<1>6. new.signature[2] = k /\ k # built.signer
  BY <1>2, <1>4 DEF Sign
<1>7. Sized(new) /\ Unforged(new, built) /\ OneChange(new, file)
  BY <1>1, <1>5, <1>6 DEF Sized, Unforged, OneChange
<1> QED
  BY <1>1, <1>2, <1>5, <1>7, ChangeKeeps

LEMMA DamageFieldKeeps == ContainerInv /\ file # NoFile /\ DamageField => ContainerInv'
<1> SUFFICES ASSUME ContainerInv, file # NoFile, DamageField PROVE ContainerInv'
  OBVIOUS
<1>1. DOMAIN file = Fields /\ Sized(file) /\ file.flags \subseteq KnownFlags /\ Len(file.rest) \in Nat
  BY SeqIs DEF ContainerInv, TypeOK, Sized
<1>2. {"magic", "total", "version", "flags", "payload_size", "block_size", "image_size", "hash_algo",
       "fw_version", "codec", "base_hash", "target", "hw", "root", "image_hash", "signature", "signer",
       "approval"} \subseteq Fields
  BY DEF Fields
<1>3. ASSUME NEW f \in Fields \ {"payload_size", "block_size", "rest", "flags", "signature", "root"},
             NEW x, Change([file EXCEPT ![f] = x], 1)
      PROVE  ContainerInv'
  <2> PICK new : new = [file EXCEPT ![f] = x]
    OBVIOUS
  <2> QED
    BY <1>3, FieldKeeps
<1>4. CASE Change([file EXCEPT !.magic = FALSE], 1)
  BY <1>2, <1>3, <1>4
<1>5. CASE Change([file EXCEPT !.total = @ - 1], 1)
  BY <1>2, <1>3, <1>5
<1>6. CASE \E v \in {2, 3} : Change([file EXCEPT !.version = v], 1)
  BY <1>2, <1>3, <1>6
<1>7. CASE \E f \in KnownFlags : Change([file EXCEPT !.flags = (@ \ {f}) \cup ({f} \ @)], 1)
  <2>1. PICK f \in KnownFlags : Change([file EXCEPT !.flags = (@ \ {f}) \cup ({f} \ @)], 1)
    BY <1>7
  <2> PICK x : x = (file.flags \ {f}) \cup ({f} \ file.flags)
    OBVIOUS
  <2> PICK new : new = [file EXCEPT !["flags"] = x]
    OBVIOUS
  <2>2. Change(new, 1) /\ x \subseteq KnownFlags /\ "flags" \in Fields
    BY <1>1, <1>2, <2>1
  <2> QED
    BY <2>2, FieldKeeps
<1>8. CASE \E n \in 0..(Len(file.rest) + 1) : Change([file EXCEPT !.payload_size = n], 1)
  <2>1. PICK n \in 0..(Len(file.rest) + 1) : Change([file EXCEPT !.payload_size = n], 1)
    BY <1>8
  <2> PICK new : new = [file EXCEPT !["payload_size"] = n]
    OBVIOUS
  <2>2. Change(new, 1) /\ "payload_size" \in Fields
    BY <1>2, <2>1
  <2>3. n \in Nat
    BY <1>1
  <2> QED
    BY <2>2, <2>3, FieldKeeps
<1>9. CASE \E n \in AppBlockSizes \cup {1, BootBlockSize} : Change([file EXCEPT !.block_size = n], 1)
  <2>1. PICK n \in AppBlockSizes \cup {1, BootBlockSize} : Change([file EXCEPT !.block_size = n], 1)
    BY <1>9
  <2> PICK new : new = [file EXCEPT !["block_size"] = n]
    OBVIOUS
  <2>2. Change(new, 1) /\ "block_size" \in Fields
    BY <1>2, <2>1
  <2>3. n \in Nat \ {0}
    BY ContainerAssumption
  <2> QED
    BY <2>2, <2>3, FieldKeeps
<1>10. CASE \E n \in {0, 1} : Change([file EXCEPT !.image_size = n], 1)
  BY <1>2, <1>3, <1>10
<1>11. CASE Change([file EXCEPT !.hash_algo = "other"], 1)
  BY <1>2, <1>3, <1>11
<1>12. CASE Change([file EXCEPT !.target = None], 1)
  BY <1>2, <1>3, <1>12
<1>13. CASE Change([file EXCEPT !.hw = None], 1)
  BY <1>2, <1>3, <1>13
<1>14. CASE Change([file EXCEPT !.root = Zero], 1)
  <2> PICK new : new = [file EXCEPT !["root"] = Zero]
    OBVIOUS
  <2>1. Change(new, 1) /\ "root" \in Fields
    BY <1>2, <1>14
  <2> QED
    BY <2>1, FieldKeeps
<1>15. CASE Change([file EXCEPT !.image_hash = Zero], 1)
  BY <1>2, <1>3, <1>15
<1>16. CASE Change([file EXCEPT !.signature = Zero], 1)
  <2> PICK new : new = [file EXCEPT !["signature"] = Zero]
    OBVIOUS
  <2>1. Change(new, 1) /\ "signature" \in Fields
    BY <1>2, <1>16
  <2> QED
    BY <2>1, FieldKeeps
<1>17. CASE \E k \in Keys : Change([file EXCEPT !.signer = k], 1)
  BY <1>2, <1>3, <1>17
<1>18. CASE \E a \in {"torn", "APRV"} : Change([file EXCEPT !.approval = a], 1)
  BY <1>2, <1>3, <1>18
<1>19. CASE \E n \in {0, 2} : Change([file EXCEPT !.fw_version = n], 1)
  BY <1>2, <1>3, <1>19
<1>20. CASE \E c \in {"full", "delta"} : Change([file EXCEPT !.codec = c], 1)
  BY <1>2, <1>3, <1>20
<1>21. CASE \E h \in {Zero, Hash(Junk)} : Change([file EXCEPT !.base_hash = h], 1)
  BY <1>2, <1>3, <1>21
<1> QED
  BY <1>4, <1>5, <1>6, <1>7, <1>8, <1>9, <1>10, <1>11, <1>12, <1>13, <1>14, <1>15, <1>16, <1>17, <1>18,
     <1>19, <1>20, <1>21
  DEF DamageField

LEMMA DamageKeeps == ContainerInv /\ Damage => ContainerInv'
BY DamageCellKeeps, SwapCellsKeeps, TruncateKeeps, DamageFieldKeeps, RepackKeeps, ResignKeeps DEF Damage

LEMMA ContainerStep == ContainerInv /\ [Next]_vars => ContainerInv'
<1> SUFFICES ASSUME ContainerInv, [Next]_vars PROVE ContainerInv'
  OBVIOUS
<1>1. CASE Build
  <2> PICK c : c = Assemble(opts)
    OBVIOUS
  <2>1. /\ opts \in AppOptions /\ Buildable(opts) /\ built = NoFile
        /\ built' = c /\ file' = c /\ UNCHANGED <<opts, damage>>
    BY <1>1 DEF Build
  <2>2. Good(c)
    BY <2>1, AssembleIs
  <2> QED
    BY <2>1, <2>2, BuiltKeeps
<1>2. CASE BuildBootloader
  <2> PICK c : c = AssembleBootloader(opts)
    OBVIOUS
  <2>1. /\ opts \in BootOptions /\ ProfileOk(opts) /\ built = NoFile
        /\ built' = c /\ file' = c /\ UNCHANGED <<opts, damage>>
    BY <1>2 DEF BuildBootloader
  <2>2. Good(c)
    BY <2>1, AssembleBootloaderIs
  <2> QED
    BY <2>1, <2>2, BuiltKeeps
<1>3. CASE Damage
  BY <1>3, DamageKeeps
<1>4. CASE UNCHANGED vars
  <2>1. opts' = opts /\ built' = built /\ file' = file /\ damage' = damage
    BY <1>4 DEF vars
  <2> QED
    BY <2>1 DEF ContainerInv, TypeOK
<1> QED
  BY <1>1, <1>2, <1>3, <1>4 DEF Next

LEMMA ContainerInit == Init => ContainerInv
<1> SUFFICES ASSUME Init PROVE ContainerInv
  OBVIOUS
<1>1. 0 \in 0..MaxDamage
  BY ContainerAssumption
<1> QED
  BY <1>1 DEF Init, ContainerInv, TypeOK

\* The inductive invariant holds for every set of images, deltas, boards and
\* keys, every block size and any number of changes to the stored file.
THEOREM ContainerInvariant == Spec => []ContainerInv
BY ContainerInit, ContainerStep, PTL DEF Spec

----------------------------------------------------------------------------

\* The types of Container, and the flags a stored file can come to have.
THEOREM ContainerTypeCorrect == Spec => []TypeOK
<1>1. ContainerInv => TypeOK
  BY DEF ContainerInv
<1> QED
  BY <1>1, ContainerInvariant, PTL

\* build and build_bootloader return a container in which Manifest::parse and
\* verify find no problem: for every image, patch, block size and key, the
\* "our own output must parse" at the end of build.rs cannot fail.
THEOREM BuildAlwaysVerifies == Spec => []BuiltVerifies
<1>1. ContainerInv => BuiltVerifies
  BY ProblemsAre DEF ContainerInv, BuiltVerifies, Good
<1> QED
  BY <1>1, ContainerInvariant, PTL

\* One change to a stored container (a cell, a field, a swap, a lost tail) is
\* refused by verify or leaves its payload, leaves and root alone: the length
\* check of Manifest::parse pins the boundary between leaves and payload, and
\* the Merkle root determines both, unless the change happens to keep the four
\* bytes of a leaf or of a node.
THEOREM OneChangeCaught == CollisionFree => (Spec => []DamageCaught)
<1> SUFFICES ASSUME CollisionFree PROVE Spec => []DamageCaught
  OBVIOUS
<1>1. ASSUME ContainerInv PROVE DamageCaught
  <2> SUFFICES ASSUME file # NoFile, damage <= 1, Problems(file) = {}
               PROVE  Payload(file) = Payload(built) /\ Leaves(file) = Leaves(built) /\ file.root = built.root
    BY DEF DamageCaught
  <2>1. /\ built # NoFile /\ Sized(file) /\ OneChange(file, built)
        /\ Sized(built) /\ Clean(built)
    BY <1>1 DEF ContainerInv, TypeOK, Good
  <2>2. Clean(file)
    BY ProblemsAre
  <2>3. file.trailer /\ Parses(file) /\ Parses(built)
    BY <2>1, <2>2 DEF Clean, Parses
  <2>4. file.root # Zero
    BY <2>1, <2>2, CleanRoot
  <2>5. CASE file.root = built.root /\ file.payload_size = built.payload_size
             /\ file.block_size = built.block_size
    BY <2>1, <2>2, <2>5, SameRoot
  <2>6. CASE file.root = built.root /\ file.rest = built.rest
             /\ (file.payload_size = built.payload_size \/ file.block_size = built.block_size)
    BY <2>1, <2>3, <2>6, SameCells
  <2> QED
    BY <2>1, <2>3, <2>4, <2>5, <2>6 DEF OneChange
<1> QED
  BY <1>1, ContainerInvariant, PTL

\* A file that passes verify --pub with the signer's key has every field that
\* was signed and, for a full image, the payload that was signed, however
\* often it was changed, repacked to fit the four bytes of its leaves or signed
\* with other keys: the signature covers the manifest up to the signer, and
\* verify compares the SHA-256 of a full image's payload with image_hash.
THEOREM SignedIsAuthentic == Spec => []SignedAuthentic
<1>1. ASSUME ContainerInv PROVE SignedAuthentic
  <2> SUFFICES ASSUME file # NoFile, built.signer # None, ProblemsWithPub(file, built.signer) = {}
               PROVE  /\ \A f \in SignedFields : file[f] = built[f]
                      /\ "full" \in built.flags => Payload(file) = Payload(built)
    BY DEF SignedAuthentic
  <2>1. /\ built # NoFile /\ Sized(file) /\ Unforged(file, built)
        /\ Sized(built) /\ Clean(built) /\ built.signature = Sign(built.signer, SignedPart(built))
    BY <1>1 DEF ContainerInv, TypeOK, Good
  <2>2. Problems(file) = {}
    BY DEF ProblemsWithPub
  <2>3. Clean(file)
    BY <2>2, ProblemsAre
  <2>4. "signed" \in file.flags /\ file.signer = built.signer
    BY <2>3 DEF ProblemsWithPub, Clean
  <2>5. file.signature = Sign(built.signer, SignedPart(file))
    BY <2>3, <2>4 DEF Clean, SignatureOk
  <2>6. file.signature[2] = built.signer /\ file.signature # Zero
    <3> DEFINE key == built.signer
               msg == SignedPart(file)
    <3> HIDE DEF key, msg
    <3>1. Sign(key, msg)[2] = key /\ Len(Sign(key, msg)) = 3 /\ Len(Zero) = 1
      BY DEF Sign, Zero
    <3>2. Sign(key, msg)[2] = key /\ Sign(key, msg) # Zero
      BY <3>1
    <3> QED
      BY <2>5, <3>2 DEF key, msg
  <2>7. Sign(built.signer, SignedPart(file)) = Sign(built.signer, SignedPart(built))
    BY <2>1, <2>5, <2>6 DEF Unforged
  <2>8. SignedPart(file) = SignedPart(built)
    <3> DEFINE key == built.signer
               a == SignedPart(file)
               b == SignedPart(built)
    <3> HIDE DEF key, a, b
    <3>1. Sign(key, a)[3] = a /\ Sign(key, b)[3] = b
      BY DEF Sign
    <3> QED
      BY <2>7, <3>1 DEF key, a, b
  <2>9. /\ file.version = built.version /\ file.flags = built.flags /\ file.target = built.target
        /\ file.hash_algo = built.hash_algo /\ file.hw = built.hw
        /\ file.fw_version = built.fw_version /\ file.image_size = built.image_size
        /\ file.payload_size = built.payload_size /\ file.block_size = built.block_size
        /\ file.root = built.root /\ file.image_hash = built.image_hash /\ file.codec = built.codec
        /\ file.base_hash = built.base_hash /\ file.signer = built.signer
    BY <2>8 DEF SignedPart
  <2>10. ASSUME "full" \in built.flags PROVE Payload(file) = Payload(built)
    <3>1. Hash(Payload(file)) = file.image_hash /\ Hash(Payload(built)) = built.image_hash
      BY <2>1, <2>3, <2>9, <2>10 DEF Clean
    <3> QED
      BY <2>9, <3>1, HashIs
  <2> QED
    BY <2>9, <2>10 DEF SignedFields
<1> QED
  BY <1>1, ContainerInvariant, PTL

\* The root build writes is that of the tree over the container's leaves:
\* merkle::root's counter of pending peaks and its bagging split every number
\* of leaves at the largest power of two below it, all the way down.
THEOREM RootIsTree == Spec => []RootIsReference
<1>1. ASSUME ContainerInv PROVE RootIsReference
  <2> SUFFICES ASSUME built # NoFile PROVE built.root = ReferenceRoot(Leaves(built))
    BY DEF RootIsReference
  <2>1. Sized(built) /\ Clean(built)
    BY <1>1 DEF ContainerInv, Good
  <2>2. PICK n \in Nat : /\ n # 0 /\ Len(Leaves(built)) = n /\ Root(Leaves(built)) = built.root
                        /\ \A i \in 1..n : Leaves(built)[i] # Zero
    BY <2>1, CleanLeaves
  <2> QED
    BY <2>2, RootIs
<1> QED
  BY <1>1, ContainerInvariant, PTL

=============================================================================
