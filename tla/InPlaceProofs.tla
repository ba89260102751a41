--------------------------- MODULE InPlaceProofs ---------------------------
(***************************************************************************)
(* For every page and segment size, every pair of images, every layout and *)
(* every container the planner accepts: the base survives the shift, no    *)
(* segment overwrites base bytes a later one is decoded from, the staged   *)
(* container is never touched, and the device ends with the target image.  *)
(***************************************************************************)
EXTENDS InPlace, TLAPS

----------------------------------------------------------------------------
(* Arithmetic of rounding.                                                 *)

\* Ceil counts the units that cover n, and not one more.
LEMMA CeilCovers ==
    ASSUME NEW n \in Nat, NEW u \in Nat \ {0}
    PROVE  /\ Ceil(n, u) \in Nat
           /\ n <= Ceil(n, u) * u
           /\ RoundUp(n, u) = Ceil(n, u) * u
<1> DEFINE q == (n + (u - 1)) \div u
           r == (n + (u - 1)) % u
<1>1. n + (u - 1) \in Nat
  OBVIOUS
<1>2. q \in Nat /\ r \in 0..(u - 1) /\ n + (u - 1) = u * q + r
  BY <1>1
<1>3. n <= q * u
  BY <1>2
<1> QED
  BY <1>2, <1>3 DEF Ceil, RoundUp

\* A multiple of the unit is covered exactly.
LEMMA CeilExact ==
    ASSUME NEW n \in Nat, NEW u \in Nat \ {0}, n % u = 0
    PROVE  Ceil(n, u) * u = n
<1> DEFINE k == n \div u
           c == Ceil(n, u)
<1>1. k \in Nat /\ n = u * k
  OBVIOUS
<1>2. c \in Nat /\ n <= c * u
  BY CeilCovers
<1>3. c * u <= n + (u - 1)
  <2>1. n + (u - 1) \in Nat
    OBVIOUS
  <2> DEFINE r == (n + (u - 1)) % u
  <2>2. r \in 0..(u - 1) /\ n + (u - 1) = u * c + r
    BY <2>1 DEF Ceil
  <2> QED
    BY <1>2, <2>2
<1>4. c <= k
  <2>1. SUFFICES ASSUME c >= k + 1 PROVE FALSE
    BY <1>1, <1>2
  <2>2. c * u >= (k + 1) * u
    BY <1>1, <1>2, <2>1
  <2> QED
    BY <1>1, <1>2, <1>3, <2>2
<1>5. c * u <= k * u
  BY <1>1, <1>2, <1>4
<1> QED
  BY <1>1, <1>2, <1>5

\* Comparing multiples of a unit compares the factors.
LEMMA Factor ==
    ASSUME NEW a \in Int, NEW b \in Int, NEW u \in Nat \ {0}, a * u < b * u
    PROVE  a < b
<1>1. SUFFICES ASSUME a >= b PROVE FALSE
  OBVIOUS
<1>2. a * u >= b * u
  BY <1>1
<1> QED
  BY <1>2

----------------------------------------------------------------------------
(* What an accepted plan guarantees.                                       *)

\* What the constants' assumptions say of the options build is given.
LEMMA OptionTypes ==
    ASSUME NEW o \in Options
    PROVE  /\ o.base_len \in Nat /\ o.target_len \in Nat /\ o.segment \in Nat
           /\ o.memory \in Nat \cup {None}
  BY GeometryAssumption DEF Options

\* The shifted base and the target both fit the window, and so does every
\* segment the device erases.
LEMMA Geometry ==
    ASSUME NEW o \in Options, Plannable(o), NEW mem, mem = ChosenMemory(o)
    PROVE  /\ mem \in Nat /\ o.segment \in Nat \ {0}
           /\ ShiftSize(o, mem) \in Nat
           /\ ShiftSize(o, mem) + o.base_len <= mem
           /\ BaseKept(o, mem) = o.base_len
           /\ o.target_len <= mem
           /\ \A s \in Nat : s * o.segment < o.target_len => (s + 1) * o.segment <= mem
<1> DEFINE u == o.segment
           K == Ceil(mem, u)
           B == Ceil(o.base_len, u)
           T == Ceil(o.target_len, u)
<1>1. u \in Nat \ {0} /\ o.base_len \in Nat /\ o.target_len \in Nat
  BY OptionTypes DEF Plannable
<1>2. /\ B \in Nat /\ o.base_len <= B * u /\ RoundUp(o.base_len, u) = B * u
      /\ T \in Nat /\ o.target_len <= T * u /\ RoundUp(o.target_len, u) = T * u
  BY <1>1, CeilCovers
<1>3. B * u \in Nat /\ T * u \in Nat
  BY <1>1, <1>2
<1>4. /\ MinimumMemory(o) \in Nat
      /\ B * u + 2 * u <= MinimumMemory(o)
      /\ T * u <= MinimumMemory(o)
  BY <1>1, <1>2, <1>3 DEF MinimumMemory, Larger
<1>5. mem \in Nat
  BY <1>4, OptionTypes, GeometryAssumption DEF ChosenMemory
<1>6. mem % u = 0 /\ MinimumMemory(o) <= mem
  BY <1>4, <1>5 DEF Plannable
<1>7. K \in Nat /\ K * u = mem
  BY <1>1, <1>5, <1>6, CeilCovers, CeilExact
<1>8. B * u + 2 * u <= mem /\ T * u <= mem
  BY <1>1, <1>3, <1>4, <1>5, <1>6
<1>9. K - B >= 2
  <2>1. SUFFICES ASSUME K - B < 2 PROVE FALSE
    BY <1>2, <1>7
  <2>2. K <= B + 1
    BY <1>2, <1>7, <2>1
  <2>3. K * u <= (B + 1) * u
    BY <1>1, <1>2, <1>7, <2>2
  <2>4. (B + 1) * u = B * u + u
    BY <1>1, <1>2
  <2> QED
    BY <1>1, <1>3, <1>5, <1>7, <1>8, <2>3, <2>4
<1>10. (K - B) * u = mem - B * u
  BY <1>1, <1>2, <1>7
<1>11. ShiftSize(o, mem) = mem - B * u
  <2>1. Larger(K - B, 0) = K - B
    BY <1>2, <1>7, <1>9 DEF Larger
  <2>2. mem - B * u >= 2 * u
    BY <1>1, <1>3, <1>5, <1>8
  <2>3. Larger((K - B) * u, 2 * u) = (K - B) * u
    BY <1>1, <1>3, <1>5, <1>10, <2>2 DEF Larger
  <2> QED
    BY <1>10, <2>1, <2>3 DEF ShiftSize
<1>12. ShiftSize(o, mem) \in Nat /\ ShiftSize(o, mem) + o.base_len <= mem
  BY <1>1, <1>2, <1>3, <1>5, <1>8, <1>11
<1>13. BaseKept(o, mem) = o.base_len
  BY <1>1, <1>5, <1>12 DEF BaseKept, Smaller
<1>14. o.target_len <= mem
  BY <1>1, <1>2, <1>3, <1>5, <1>8
<1>15. ASSUME NEW s \in Nat, s * u < o.target_len
       PROVE  (s + 1) * u <= mem
  <2>1. s * u \in Nat
    BY <1>1
  <2>2. s * u < T * u
    BY <1>1, <1>2, <1>3, <1>15, <2>1
  <2>3. s < T
    BY <1>1, <1>2, <2>2, Factor
  <2>4. (s + 1) * u <= T * u
    BY <1>1, <1>2, <2>3
  <2>5. (s + 1) * u \in Nat
    BY <1>1
  <2> QED
    BY <1>3, <1>5, <1>8, <2>4, <2>5
<1>16. \A s \in Nat : s * o.segment < o.target_len => (s + 1) * o.segment <= mem
  BY <1>15, Zenon
<1> QED
  BY <1>1, <1>5, <1>12, <1>13, <1>14, <1>16, Zenon

\* The staged container lies above the window.
LEMMA StagedAboveWindow ==
    ASSUME NEW o \in Options, Plannable(o), NEW mem \in Nat, NEW size \in Nat,
           StagingFits(o, mem, size), Bounded(o)
    PROVE  /\ Span(o) \in Int
           /\ StagedAt(o, size) \subseteq Int
           /\ \A a \in StagedAt(o, size) : a >= mem /\ a < Span(o)
<1>1. Span(o) \in Int
  <2>1. CASE o.base_layout = None
    BY <2>1, GeometryAssumption DEF Span
  <2>2. CASE o.base_layout # None
    <3> DEFINE l == o.base_layout
    <3>1. ValidLayout(l)
      BY <2>2, Zenon DEF Plannable, ParsesAs
    <3>2. l.app_base \in AppBases /\ l.stage_ceiling \in {ExtraFS, AppEnd}
      BY <3>1, Zenon DEF ValidLayout
    <3>3. l.app_base \in Nat /\ l.stage_ceiling \in Nat
      BY <3>2, GeometryAssumption, Zenon
    <3> HIDE DEF l
    <3>4. l.stage_ceiling - l.app_base \in Int
      BY <3>3
    <3> QED
      BY <2>2, <3>4, Zenon DEF Span, l
  <2> QED
    BY <2>1, <2>2
<1>2. Staged(o, size) \in Nat
  <2>1. \A n \in Nat : RoundUp(n, Page) \in Nat
    BY GeometryAssumption, CeilCovers
  <2>2. (IF size > RamSize THEN size - RamSize ELSE 0) \in Nat
    BY GeometryAssumption
  <2> QED
    BY <2>1, <2>2, GeometryAssumption DEF Staged, Larger
<1>3. mem + Staged(o, size) <= Span(o)
  BY DEF StagingFits
<1> QED
  BY <1>1, <1>2, <1>3 DEF StagedAt

----------------------------------------------------------------------------
(* The inductive invariant.  What the properties leave out and the steps   *)
(* need: the phase remembers that the plan was accepted; before the shift  *)
(* the base is whole at the bottom; from then on every base byte above the *)
(* segments written so far is whole, and below them stands the target.     *)

Accepted ==
    phase \in {"pack", "shift", "write", "done"} =>
        Plannable(opts) /\ memory = ChosenMemory(opts)

Packed ==
    phase \in {"shift", "write", "done"} =>
        StagingFits(opts, memory, total) /\ DOMAIN flash = Window(opts, memory)

SegmentsRebuilt ==
    /\ phase \in {"plan", "pack", "shift"} => seg = 0
    /\ phase = "shift" => \A a \in 0..(opts.base_len - 1) : flash[a] = BaseByte(a)
    /\ phase \in {"write", "done"} =>
         \A k \in 0..(opts.base_len - 1) : LET a == ShiftSize(opts, memory) + k IN
             a >= seg * opts.segment => flash[a] = BaseByte(k)
    /\ phase \in {"write", "done"} =>
         \A a \in 0..(opts.target_len - 1) :
             a < seg * opts.segment => flash[a] = TargetByte(a)
    /\ phase = "done" => seg * opts.segment >= opts.target_len

IInv == TypeOK /\ Accepted /\ Packed /\ SegmentsRebuilt /\ ContainerIntact

\* Nothing is planned yet.
LEMMA IInvInit == Init => IInv
  BY DEF Init, IInv, TypeOK, Accepted, Packed, SegmentsRebuilt, ContainerIntact

\* Planning either refuses or records the accepted window.
LEMMA PlanKeeps == IInv /\ Plan => IInv'
<1> SUFFICES ASSUME IInv, Plan
             PROVE  IInv'
  OBVIOUS
<1>1. Plannable(opts) => ChosenMemory(opts) \in Nat
  BY Geometry DEF IInv, TypeOK
<1> QED
  BY <1>1 DEF Plan, IInv, TypeOK, Accepted, Packed, SegmentsRebuilt, ContainerIntact

\* Packing lays the base at the bottom and the container above the window.
LEMMA PackKeeps == IInv /\ Pack => IInv'
<1> SUFFICES ASSUME IInv, Pack
             PROVE  IInv'
  OBVIOUS
<1> USE DEF IInv
<1>1. Plannable(opts) /\ memory = ChosenMemory(opts) /\ opts \in Options /\ memory \in Nat
  BY DEF Pack, Accepted, TypeOK
<1>2. PICK size \in Totals :
        IF StagingFits(opts, memory, size)
          THEN /\ phase' = "shift" /\ total' = size
               /\ flash' = [a \in Window(opts, memory) |->
                    IF Bounded(opts) /\ a \in StagedAt(opts, size) THEN ContainerByte(a)
                    ELSE IF a < opts.base_len THEN BaseByte(a) ELSE Junk]
          ELSE phase' = "refused" /\ UNCHANGED <<total, flash>>
  BY DEF Pack
<1>3. UNCHANGED <<opts, memory, seg>> /\ seg = 0 /\ size \in Nat
  BY GeometryAssumption DEF Pack, SegmentsRebuilt
<1>4. CASE ~StagingFits(opts, memory, size)
  BY <1>1, <1>2, <1>3, <1>4 DEF TypeOK, Accepted, Packed, SegmentsRebuilt, ContainerIntact
<1>5. CASE StagingFits(opts, memory, size)
  <2>1. phase' = "shift" /\ total' = size
    BY <1>2, <1>5
  <2>2. flash' = [a \in Window(opts, memory) |->
                    IF Bounded(opts) /\ a \in StagedAt(opts, size) THEN ContainerByte(a)
                    ELSE IF a < opts.base_len THEN BaseByte(a) ELSE Junk]
    BY <1>2, <1>5
  <2>3. TypeOK' /\ Accepted' /\ Packed'
    BY <1>1, <1>3, <1>5, <2>1, <2>2 DEF TypeOK, Accepted, Packed
  <2>4. opts.base_len \in Nat /\ opts.base_len <= memory
    BY <1>1, Geometry, OptionTypes
  <2>5. ASSUME NEW a \in 0..(opts.base_len - 1)
        PROVE  flash'[a] = BaseByte(a)
    <3>1. a \in Int /\ 0 <= a /\ a < opts.base_len /\ a < memory
      BY <1>1, <2>4
    <3>2. ~(Bounded(opts) /\ a \in StagedAt(opts, size))
      BY <1>1, <1>3, <1>5, <3>1, StagedAboveWindow
    <3>3. a \in Window(opts, memory)
      <4>1. Bounded(opts) => Span(opts) \in Int
        BY <1>1, <1>3, <1>5, StagedAboveWindow
      <4> QED
        BY <1>1, <3>1, <4>1 DEF Window, Larger
    <3> QED
      BY <2>2, <3>1, <3>2, <3>3
  <2>6. SegmentsRebuilt'
    BY <1>3, <2>1, <2>5 DEF SegmentsRebuilt
  <2>7. ASSUME Bounded(opts), NEW a \in StagedAt(opts, size)
        PROVE  flash'[a] = ContainerByte(a)
    <3>1. Span(opts) \in Int /\ a \in Int /\ a >= memory /\ a < Span(opts)
      BY <1>1, <1>3, <1>5, <2>7, StagedAboveWindow
    <3>2. a \in Window(opts, memory)
      BY <1>1, <2>7, <3>1 DEF Window, Larger
    <3> QED
      BY <2>2, <2>7, <3>2
  <2>8. ContainerIntact'
    BY <1>3, <2>1, <2>7 DEF ContainerIntact
  <2> QED
    BY <2>3, <2>6, <2>8
<1> QED
  BY <1>4, <1>5


\* What the later phases may rely on.
LEMMA WindowFacts ==
    ASSUME IInv, phase \in {"shift", "write", "done"}
    PROVE  /\ memory \in Nat /\ opts.segment \in Nat \ {0}
           /\ opts.base_len \in Nat /\ opts.target_len \in Nat /\ seg \in Nat
           /\ ShiftSize(opts, memory) \in Nat
           /\ ShiftSize(opts, memory) + opts.base_len <= memory
           /\ BaseKept(opts, memory) = opts.base_len
           /\ opts.target_len <= memory
           /\ seg * opts.segment < opts.target_len => (seg + 1) * opts.segment <= memory
           /\ \A a \in 0..(memory - 1) : a \in DOMAIN flash
           /\ Bounded(opts) => \A a \in StagedAt(opts, total) : a \in Int /\ a >= memory
           /\ Bounded(opts) => \A a \in StagedAt(opts, total) : a \in DOMAIN flash
<1>1. /\ opts \in Options /\ Plannable(opts) /\ memory = ChosenMemory(opts)
      /\ seg \in Nat /\ total \in Nat
      /\ StagingFits(opts, memory, total) /\ DOMAIN flash = Window(opts, memory)
  BY GeometryAssumption DEF IInv, TypeOK, Accepted, Packed
<1>2. /\ memory \in Nat /\ opts.segment \in Nat \ {0}
      /\ ShiftSize(opts, memory) \in Nat
      /\ ShiftSize(opts, memory) + opts.base_len <= memory
      /\ BaseKept(opts, memory) = opts.base_len
      /\ opts.target_len <= memory
      /\ seg * opts.segment < opts.target_len => (seg + 1) * opts.segment <= memory
  BY <1>1, Geometry
<1>3. opts.base_len \in Nat /\ opts.target_len \in Nat
  BY <1>1, OptionTypes
<1>4. Bounded(opts) =>
        /\ Span(opts) \in Int
        /\ \A a \in StagedAt(opts, total) : a \in Int /\ a >= memory /\ a < Span(opts)
  BY <1>1, <1>2, StagedAboveWindow
<1>5. \A a \in 0..(memory - 1) : a \in DOMAIN flash
  BY <1>1, <1>2, <1>4 DEF Window, Larger
<1>6. Bounded(opts) => \A a \in StagedAt(opts, total) : a \in DOMAIN flash
  BY <1>1, <1>2, <1>4 DEF Window, Larger
<1> QED
  BY <1>1, <1>2, <1>3, <1>4, <1>5, <1>6

\* Shifting moves every byte of the base, inside the window.
LEMMA ShiftKeeps == IInv /\ Shift => IInv'
<1> SUFFICES ASSUME IInv, Shift
             PROVE  IInv'
  OBVIOUS
<1> USE DEF IInv
<1> DEFINE sh == ShiftSize(opts, memory)
<1>1. phase = "shift" /\ phase' = "write" /\ UNCHANGED <<opts, memory, total, seg>>
  BY DEF Shift
<1>2. /\ memory \in Nat /\ opts.base_len \in Nat /\ opts.target_len \in Nat
      /\ opts.segment \in Nat \ {0}
      /\ sh \in Nat /\ sh + opts.base_len <= memory /\ BaseKept(opts, memory) = opts.base_len
      /\ \A a \in 0..(memory - 1) : a \in DOMAIN flash
      /\ Bounded(opts) => \A a \in StagedAt(opts, total) :
                            a \in Int /\ a >= memory /\ a \in DOMAIN flash
  BY <1>1, WindowFacts
<1>3. flash' = [a \in DOMAIN flash |->
                  IF a >= sh /\ a < sh + opts.base_len THEN flash[a - sh] ELSE flash[a]]
  BY <1>2 DEF Shift
<1>4. seg = 0 /\ \A a \in 0..(opts.base_len - 1) : flash[a] = BaseByte(a)
  BY <1>1 DEF SegmentsRebuilt
<1> HIDE DEF sh
<1>5. TypeOK' /\ Accepted' /\ Packed'
  BY <1>1, <1>3 DEF TypeOK, Accepted, Packed
<1>6. ASSUME NEW k \in 0..(opts.base_len - 1)
      PROVE  flash'[sh + k] = BaseByte(k)
  <2>1. sh + k \in 0..(memory - 1) /\ sh + k >= sh /\ sh + k < sh + opts.base_len
    BY <1>2
  <2>2. flash'[sh + k] = flash[(sh + k) - sh]
    BY <1>2, <1>3, <2>1
  <2>3. (sh + k) - sh = k
    BY <1>2
  <2> QED
    BY <1>4, <2>2, <2>3
<1>7. SegmentsRebuilt'
  <2>1. sh' = sh
    BY <1>1 DEF sh
  <2>2. seg' * opts'.segment = 0
    BY <1>1, <1>2, <1>4
  <2>3. \A a \in 0..(opts'.target_len - 1) : ~(a < seg' * opts'.segment)
    BY <1>1, <1>2, <2>2
  <2>4. \A k \in 0..(opts'.base_len - 1) : flash'[ShiftSize(opts', memory') + k] = BaseByte(k)
    BY <1>1, <1>6 DEF sh
  <2> QED
    BY <1>1, <2>3, <2>4 DEF SegmentsRebuilt
<1>8. ASSUME Bounded(opts), NEW a \in StagedAt(opts, total)
      PROVE  flash'[a] = ContainerByte(a)
  <2>1. a \in Int /\ a >= memory /\ a \in DOMAIN flash
    BY <1>2, <1>8
  <2>2. ~(a < sh + opts.base_len)
    BY <1>2, <2>1
  <2>3. flash'[a] = flash[a]
    BY <1>3, <2>1, <2>2
  <2> QED
    BY <1>1, <1>8, <2>3 DEF ContainerIntact
<1>9. ContainerIntact'
  BY <1>1, <1>8 DEF ContainerIntact
<1> QED
  BY <1>5, <1>7, <1>9

\* The base a segment is decoded from lies above everything written so far.
LEMMA BaseStillReadable ==
    ASSUME IInv, phase = "write", seg * opts.segment < opts.target_len
    PROVE  BaseReadable(seg)
<1> DEFINE sh == ShiftSize(opts, memory)
<1>1. /\ memory \in Nat /\ opts.segment \in Nat \ {0} /\ opts.base_len \in Nat /\ seg \in Nat
      /\ sh \in Nat /\ BaseKept(opts, memory) = opts.base_len
  BY WindowFacts
<1>2. \A k \in 0..(opts.base_len - 1) :
        sh + k >= seg * opts.segment => flash[sh + k] = BaseByte(k)
  BY DEF IInv, SegmentsRebuilt
<1>3. FromOffset(opts, memory, seg) = Larger((seg + 1) * opts.segment - sh, 0)
  BY DEF FromOffset
<1> HIDE DEF sh
<1>4. (seg + 1) * opts.segment \in Nat /\ seg * opts.segment \in Nat
      /\ seg * opts.segment <= (seg + 1) * opts.segment
  BY <1>1
<1>5. ASSUME NEW k \in FromOffset(opts, memory, seg)..(opts.base_len - 1)
      PROVE  /\ k \in 0..(opts.base_len - 1)
             /\ sh + k >= seg * opts.segment /\ sh + k >= (seg + 1) * opts.segment
  <2>1. /\ FromOffset(opts, memory, seg) >= 0 /\ FromOffset(opts, memory, seg) \in Int
        /\ FromOffset(opts, memory, seg) + sh >= (seg + 1) * opts.segment
    BY <1>1, <1>3, <1>4 DEF Larger
  <2> QED
    BY <1>1, <1>4, <2>1
<1>6. \A k \in FromOffset(opts, memory, seg)..(opts.base_len - 1) :
        flash[sh + k] = BaseByte(k) /\ sh + k >= (seg + 1) * opts.segment
  BY <1>2, <1>5
<1> QED
  BY <1>1, <1>6 DEF BaseReadable, sh

\* Writing a segment rebuilds its bytes and erases nothing above it.
LEMMA WriteSegmentKeeps == IInv /\ WriteSegment => IInv'
<1> SUFFICES ASSUME IInv, WriteSegment
             PROVE  IInv'
  OBVIOUS
<1> USE DEF IInv
<1> DEFINE u == opts.segment
           sh == ShiftSize(opts, memory)
           lo == seg * u
           hi == (seg + 1) * u
<1>1. /\ phase = "write" /\ seg * opts.segment < opts.target_len /\ seg' = seg + 1
      /\ UNCHANGED <<phase, opts, memory, total>>
  BY DEF WriteSegment
<1>2. /\ memory \in Nat /\ opts.base_len \in Nat /\ opts.target_len \in Nat /\ seg \in Nat
      /\ u \in Nat \ {0} /\ sh \in Nat /\ sh + opts.base_len <= memory
      /\ opts.target_len <= memory /\ hi <= memory
      /\ \A a \in 0..(memory - 1) : a \in DOMAIN flash
      /\ Bounded(opts) => \A a \in StagedAt(opts, total) :
                            a \in Int /\ a >= memory /\ a \in DOMAIN flash
  BY <1>1, WindowFacts
<1>3. BaseReadable(seg)
  BY <1>1, BaseStillReadable
<1>4. flash' = [a \in DOMAIN flash |->
                  IF a < lo \/ a >= hi THEN flash[a]
                  ELSE IF a < opts.target_len THEN TargetByte(a) ELSE Junk]
  BY <1>3 DEF WriteSegment
<1>5. lo \in Nat /\ hi \in Nat /\ lo <= hi /\ hi = seg' * u
  BY <1>1, <1>2
<1>6. /\ \A k \in 0..(opts.base_len - 1) : sh + k >= lo => flash[sh + k] = BaseByte(k)
      /\ \A a \in 0..(opts.target_len - 1) : a < lo => flash[a] = TargetByte(a)
  BY <1>1 DEF SegmentsRebuilt
<1>7. TypeOK' /\ Accepted' /\ Packed'
  <2>1. DOMAIN flash' = DOMAIN flash /\ seg' \in Nat
    BY <1>1, <1>2, <1>4
  <2> QED
    BY <1>1, <2>1 DEF TypeOK, Accepted, Packed
<1>8. seg' * opts'.segment = hi /\ ShiftSize(opts', memory') = sh
  BY <1>1, <1>5
<1> HIDE DEF u, sh, lo, hi
<1>9. ASSUME NEW k \in 0..(opts.base_len - 1), sh + k >= hi
      PROVE  flash'[sh + k] = BaseByte(k)
  <2>1. sh + k \in 0..(memory - 1) /\ sh + k >= lo
    BY <1>2, <1>5, <1>9
  <2>2. flash'[sh + k] = flash[sh + k]
    BY <1>2, <1>4, <1>9, <2>1
  <2> QED
    BY <1>6, <2>1, <2>2
<1>10. ASSUME NEW a \in 0..(opts.target_len - 1), a < hi
       PROVE  flash'[a] = TargetByte(a)
  <2>1. a \in DOMAIN flash /\ a < opts.target_len
    BY <1>2
  <2>2. CASE a < lo
    BY <1>4, <1>6, <2>1, <2>2
  <2>3. CASE ~(a < lo)
    BY <1>4, <1>5, <1>10, <2>1, <2>3
  <2> QED
    BY <2>2, <2>3
<1>11. SegmentsRebuilt'
  BY <1>1, <1>8, <1>9, <1>10 DEF SegmentsRebuilt
<1>12. ASSUME Bounded(opts), NEW a \in StagedAt(opts, total)
       PROVE  flash'[a] = ContainerByte(a)
  <2>1. a \in Int /\ a >= hi /\ a \in DOMAIN flash
    BY <1>2, <1>5, <1>12
  <2>2. flash'[a] = flash[a]
    BY <1>4, <2>1
  <2> QED
    BY <1>1, <1>12, <2>2 DEF ContainerIntact
<1>13. ContainerIntact'
  BY <1>1, <1>12 DEF ContainerIntact
<1> QED
  BY <1>7, <1>11, <1>13

\* Every step preserves the invariant.
LEMMA IInvStep == IInv /\ [Next]_vars => IInv'
<1> SUFFICES ASSUME IInv, [Next]_vars
             PROVE  IInv'
  OBVIOUS
<1>1. CASE Finish
  BY <1>1 DEF Finish, IInv, TypeOK, Accepted, Packed, SegmentsRebuilt, ContainerIntact
<1>2. CASE UNCHANGED vars
  BY <1>2 DEF vars, IInv, TypeOK, Accepted, Packed, SegmentsRebuilt, ContainerIntact
<1> QED
  BY <1>1, <1>2, PlanKeeps, PackKeeps, ShiftKeeps, WriteSegmentKeeps DEF Next, Rest

\* The invariant holds in every reachable state.
LEMMA Invariance == Spec => []IInv
  BY IInvInit, IInvStep, PTL DEF Spec

----------------------------------------------------------------------------
(* The properties.                                                         *)

\* Planner, packer and device state stay well typed.
THEOREM InPlaceTypeCorrect == Spec => []TypeOK
<1>1. IInv => TypeOK
  BY DEF IInv
<1> QED
  BY <1>1, Invariance, PTL

\* Whatever plan_inplace accepts, the window keeps all of the base through
\* the shift and holds the whole target.
THEOREM WindowSafe == Spec => []WindowHoldsBoth
<1>1. IInv => WindowHoldsBoth
  BY WindowFacts DEF WindowHoldsBoth
<1> QED
  BY <1>1, Invariance, PTL

\* No segment written erases base bytes a later one is encoded against.
THEOREM NeededBaseSafe == Spec => []NeededBaseIntact
<1>1. IInv => NeededBaseIntact
  BY BaseStillReadable DEF NeededBaseIntact
<1> QED
  BY <1>1, Invariance, PTL

\* A device that runs the patch to its end holds the target image.
THEOREM RebuildCorrect == Spec => []ImageRebuilt
<1>1. ASSUME IInv, phase = "done", NEW a \in 0..(opts.target_len - 1)
      PROVE  flash[a] = TargetByte(a)
  <2>1. opts.target_len \in Nat /\ seg \in Nat /\ opts.segment \in Nat \ {0}
    BY <1>1, WindowFacts
  <2>2. seg * opts.segment >= opts.target_len /\ seg * opts.segment \in Nat
    BY <1>1, <2>1 DEF IInv, SegmentsRebuilt
  <2>3. a < seg * opts.segment
    BY <2>1, <2>2
  <2> QED
    BY <1>1, <2>3 DEF IInv, SegmentsRebuilt
<1>2. IInv => ImageRebuilt
  BY <1>1 DEF ImageRebuilt
<1> QED
  BY <1>2, Invariance, PTL

\* The container staged in internal flash is never overwritten while the
\* patch inside it is being applied.
THEOREM ContainerSafe == Spec => []ContainerIntact
<1>1. IInv => ContainerIntact
  BY DEF IInv
<1> QED
  BY <1>1, Invariance, PTL

=============================================================================
