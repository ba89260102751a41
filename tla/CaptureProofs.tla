--------------------------- MODULE CaptureProofs ---------------------------
(***************************************************************************)
(* Proofs about a capture over a lossy link, for every container, folder,  *)
(* seed and number of failures: a node that waits for the answer still     *)
(* coming before it asks again publishes its container and nothing else.   *)
(***************************************************************************)
EXTENDS Capture, SequenceTheorems, WellFoundedInduction, TLAPS

File == Seq(Cell)

----------------------------------------------------------------------------
(* The files the host writes.                                              *)

LEMMA FreshIsFile == Store!Fresh(Len(Image)) \in File /\ Len(Store!Fresh(Len(Image))) = Len(Image)
<1> DEFINE n == Len(Image)
<1>1. n \in Nat /\ Len(Seed) \in Nat /\ \A i \in 1..Len(Seed) : Seed[i] \in Cell
  BY ImageAssumption, FolderAssumption
<1> HIDE DEF n
<1>2. Store!Fresh(n) \in [1..n -> Cell]
  BY <1>1, FolderAssumption DEF Store!Fresh
<1>3. Store!Fresh(n) \in Seq(Cell) /\ Len(Store!Fresh(n)) = n
  BY <1>1, <1>2
<1> QED
  BY <1>3 DEF File, n

LEMMA PrefixIsFile ==
    ASSUME NEW s \in File, NEW n \in Nat, n <= Len(s)
    PROVE  Store!Prefix(s, n) \in File
<1>1. \A i \in 1..n : s[i] \in Cell
  BY ElementOfSeq DEF File
<1> QED
  BY <1>1, SubSeqProperties DEF Store!Prefix, File

\* The one write a node sends: its chunk lands at its place, every other chunk
\* of the file stays.
LEMMA WriteLands ==
    ASSUME NEW f \in File, NEW k \in 1..Len(Image)
    PROVE  LET g == Store!WriteAt(f, k - 1, Store!Prefix(<<Image[k]>>, 1))
           IN  /\ g \in File /\ k <= Len(g) /\ g[k] = Image[k]
               /\ Len(f) <= Len(g)
               /\ \A i \in 1..Len(f) : i # k => g[i] = f[i]
<1> DEFINE c == Image[k]
           d == <<c>>
           n == IF (k - 1) + 1 > Len(f) THEN (k - 1) + 1 ELSE Len(f)
           g == [i \in 1..n |-> IF i > k - 1 /\ i <= (k - 1) + 1 THEN d[i - (k - 1)]
                                ELSE IF i <= Len(f) THEN f[i] ELSE Hole]
<1>1. /\ c \in Cell /\ Len(f) \in Nat /\ k \in Nat \ {0} /\ n \in Nat
      /\ \A i \in 1..Len(f) : f[i] \in Cell
  BY ImageAssumption DEF File
<1>2. d # <<>> /\ Len(d) = 1 /\ d[1] = c
  OBVIOUS
<1>3. Store!Prefix(<<Image[k]>>, 1) = d
  <2>1. d \in Seq(Cell)
    BY <1>1
  <2>2. Store!Prefix(<<Image[k]>>, 1) = SubSeq(d, 1, 1)
    BY DEF Store!Prefix
  <2> HIDE DEF d
  <2> QED
    BY <1>2, <2>1, <2>2, SubSeqFull
<1> HIDE DEF d, c
<1>4. Store!WriteAt(f, k - 1, d) = g
  BY <1>2 DEF Store!WriteAt
<1>5. k \in 1..n /\ n >= Len(f) /\ \A i \in 1..n : i > k - 1 /\ i <= (k - 1) + 1 <=> i = k
  BY <1>1
<1>6. k - (k - 1) = 1
  BY <1>1
<1>7. \A i \in 1..n : g[i] = IF i = k THEN c ELSE IF i <= Len(f) THEN f[i] ELSE Hole
  BY <1>2, <1>5, <1>6
<1>8. g \in [1..n -> Cell]
  <2>1. ASSUME NEW i \in 1..n PROVE g[i] \in Cell
    <3>1. i <= Len(f) => i \in 1..Len(f)
      BY <1>1
    <3> HIDE DEF g, n
    <3> QED
      BY <1>1, <1>7, <3>1, FolderAssumption
  <2> HIDE DEF n
  <2>2. g = [i \in 1..n |-> g[i]]
    OBVIOUS
  <2> HIDE DEF g
  <2> QED
    BY <2>1, <2>2
<1> HIDE DEF g, n
<1>9. g \in Seq(Cell) /\ Len(g) = n
  BY <1>1, <1>8
<1>10. \A i \in 1..Len(f) : i \in 1..n
  BY <1>1, <1>5
<1> QED
  BY <1>1, <1>3, <1>4, <1>5, <1>7, <1>9, <1>10, SMTT(30) DEF File, c

LEMMA WriteNothing ==
    ASSUME NEW f, NEW k
    PROVE  Store!WriteAt(f, k - 1, Store!Prefix(<<Image[k]>>, 0)) = f
<1>1. Store!Prefix(<<Image[k]>>, 0) = <<>>
  BY SubSeqEmpty DEF Store!Prefix
<1> QED
  BY <1>1 DEF Store!WriteAt

\* Advance finds the next chunk while there is one.
LEMMA NextChunk ==
    ASSUME NEW known \in SUBSET (1..Len(Image)), known # 1..Len(Image)
    PROVE  (CHOOSE i \in (1..Len(Image)) \ known : \A j \in 1..(i - 1) : j \in known)
             \in 1..Len(Image)
<1> DEFINE Less == OpToRel(<, Nat)
           Unknown == (1..Len(Image)) \ known
<1>1. IsWellFoundedOn(Less, Nat)
  BY NatLessThanWellFounded
<1>2. \A i, j \in Nat : <<i, j>> \in Less <=> i < j
  BY DEF OpToRel
<1> HIDE DEF Less
<1>3. Unknown \subseteq Nat /\ Unknown # {}
  <2>1. Unknown # {}
    BY Zenon
  <2>2. 1..Len(Image) \subseteq Nat
    BY ImageAssumption
  <2> QED
    BY <2>1, <2>2
<1>4. PICK i \in Unknown : \A j \in Unknown : ~(<<j, i>> \in Less)
  BY <1>1, <1>3, WFMin
<1>5. ASSUME NEW j \in 1..(i - 1) PROVE j \in known
  <2>1. i \in 1..Len(Image) /\ Len(Image) \in Nat
    BY ImageAssumption
  <2>2. j \in 1..Len(Image) /\ j \in Nat /\ i \in Nat /\ j < i
    BY <2>1
  <2> QED
    BY <1>2, <1>4, <2>2
<1>6. \E k \in Unknown : \A j \in 1..(k - 1) : j \in known
  BY <1>5
<1> QED
  BY <1>6

----------------------------------------------------------------------------
(* The invariant.                                                          *)

\* the file a chunk is read back from
Current == IF part[Target] # NoFile THEN part[Target] ELSE done[Target]

Stored(i) == Current # NoFile /\ i <= Len(Current) /\ Current[i] = Image[i]

\* An answer that lets the node count its chunk as right is true.
Truthful(r) ==
    (\/ step = "write" /\ r.ok
     \/ step = "sread" /\ r.ok /\ r.data = <<Image[at]>>) => Stored(at)

\* At most one message is under way, and it belongs to the current step.
InFlight ==
    \/ req = <<>> /\ rsp = <<>>
    \/ waiting /\ req = <<[op |-> step, at |-> at]>> /\ rsp = <<>>
    \/ /\ waiting /\ req = <<>>
       /\ \E ok \in BOOLEAN : \E data :
            LET r == [op |-> step, ok |-> ok, data |-> data]
            IN  rsp = <<r>> /\ Truthful(r)

\* Nothing is under way that nobody waits for.
Answered == ~waiting \/ step = "done" => req = <<>> /\ rsp = <<>>

\* The inductive invariant.  FIN is sent with every chunk known to be right;
\* the head then fixes the size, so that what FIN accepts is the container.
CaptureInv ==
    /\ TypeOK
    /\ InFlight /\ Answered
    /\ BelievedChunksStored
    /\ step = "fin" => have = 1..Len(Image)
    /\ CaptureExact

LEMMA BelievedIs ==
    BelievedChunksStored <=> (step \in {"sread", "write", "fin"} => \A i \in have : Stored(i))
BY DEF BelievedChunksStored, Stored, Current

LEMMA TypeFacts ==
    ASSUME TypeOK
    PROVE  /\ part \in [Mid -> File \cup {NoFile}] /\ done \in [Mid -> File \cup {NoFile}]
           /\ Target \in Mid /\ at \in 1..Len(Image) /\ have \in SUBSET (1..Len(Image))
           /\ Len(Image) \in Nat \ {0} /\ 1 \in 1..Len(Image)
<1>1. Len(Image) \in Nat \ {0}
  BY ImageAssumption, EmptySeq
<1> QED
  BY <1>1, ImageAssumption DEF TypeOK, Store!TypeOK, Store!FileOrNone, Store!File, File

LEMMA CaptureStart == Init => CaptureInv
<1> SUFFICES ASSUME Init PROVE CaptureInv
  OBVIOUS
<1>1. Len(Image) \in Nat \ {0} /\ 1 \in 1..Len(Image)
  BY ImageAssumption, EmptySeq
<1>2. Store!TypeOK
  BY FolderAssumption DEF Init, Store!Init, Store!TypeOK, Store!FileOrNone, Store!File, Store!Index
<1>3. TypeOK
  <2>1. Len(<<>>) = 0 /\ 0 <= MaxQueue /\ 0 \in 0..MaxFailures
    BY EmptySeq, NodeAssumption
  <2> QED
    BY <1>1, <1>2, <2>1 DEF Init, TypeOK
<1> QED
  BY <1>3 DEF Init, Store!Init, CaptureInv, InFlight, Answered, BelievedChunksStored, CaptureExact

----------------------------------------------------------------------------
(* The steps of the node and the link.                                     *)

\* The store's part of the invariant, when no file changes.
LEMMA FilesKept ==
    ASSUME TypeOK, UNCHANGED <<part, done>>
    PROVE  Current' = Current /\ \A i : Stored(i)' <=> Stored(i)
BY DEF Current, Stored

LEMMA SendStep == ~EarlyTimeout /\ CaptureInv /\ Send => CaptureInv'
<1> SUFFICES ASSUME ~EarlyTimeout, CaptureInv, Send PROVE CaptureInv'
  OBVIOUS
<1>1. /\ UNCHANGED <<part, done, up, catalog, view, captured, renewed, rsp, step, at, have, failures>>
      /\ req' = Append(req, [op |-> step, at |-> at]) /\ waiting' = TRUE /\ Len(req) < MaxQueue
      /\ step # "done"
  BY DEF Send, store
<1>2. req = <<>> /\ rsp = <<>>
  BY DEF Send, CaptureInv, Answered
<1>3. req' = <<[op |-> step, at |-> at]>>
  BY <1>1, <1>2
<1>4. InFlight' /\ Answered'
  BY <1>1, <1>2, <1>3 DEF InFlight, Answered
<1>5. Len(req') <= MaxQueue
  BY <1>1, <1>2, <1>3, NodeAssumption
<1>6. TypeOK'
  BY <1>1, <1>5 DEF CaptureInv, TypeOK, Store!TypeOK
<1>7. BelievedChunksStored' /\ CaptureExact'
  BY <1>1 DEF CaptureInv, BelievedChunksStored, CaptureExact
<1> QED
  BY <1>1, <1>4, <1>6, <1>7 DEF CaptureInv

\* The node learns that the chunks known are right, and goes on.
LEMMA AdvanceStep ==
    ASSUME NEW known \in SUBSET (1..Len(Image)), Advance(known), at \in 1..Len(Image)
    PROVE  /\ have' = known /\ at' \in 1..Len(Image)
           /\ \/ step' = "fin" /\ known = 1..Len(Image)
              \/ step' = "sread"
BY NextChunk DEF Advance

LEMMA ReceiveStep == CaptureInv /\ Receive => CaptureInv'
<1> SUFFICES ASSUME CaptureInv, Receive PROVE CaptureInv'
  OBVIOUS
<1>1. /\ UNCHANGED <<part, done, up, catalog, view, captured, renewed, req, failures>>
      /\ rsp # <<>> /\ rsp' = Tail(rsp)
  BY DEF Receive, store
<1>2a. PICK ok \in BOOLEAN :
        \E data : LET r == [op |-> step, ok |-> ok, data |-> data]
                  IN  rsp = <<r>> /\ req = <<>> /\ waiting /\ Truthful(r)
  BY <1>1 DEF CaptureInv, InFlight
<1>2. PICK data :
        LET r == [op |-> step, ok |-> ok, data |-> data]
        IN  rsp = <<r>> /\ req = <<>> /\ waiting /\ Truthful(r)
  BY <1>2a
<1> DEFINE r == [op |-> step, ok |-> ok, data |-> data]
<1>3. rsp' = <<>> /\ Head(rsp) = r /\ r.op = step /\ r.ok = ok /\ r.data = data
  BY <1>1, <1>2
<1>4. Truthful(r) /\ rsp = <<r>> /\ req = <<>> /\ waiting
  BY <1>2
<1> HIDE DEF r
<1>5. /\ waiting' = FALSE
      /\ \/ step = "stat" /\ Advance({})
         \/ step = "stat" /\ step' = "begin" /\ UNCHANGED <<at, have>>
         \/ step = "begin" /\ r.ok /\ Advance({})
         \/ step = "sread" /\ r.ok /\ r.data = <<Image[at]>> /\ Advance(have \cup {at})
         \/ step = "sread" /\ step' = "write" /\ UNCHANGED <<at, have>>
         \/ step = "write" /\ r.ok /\ Advance(have \cup {at})
         \/ step = "write" /\ step' = "begin" /\ UNCHANGED <<at, have>>
         \/ step = "fin" /\ step' = "done" /\ UNCHANGED <<at, have>>
         \/ step \in {"begin", "fin"} /\ step' = "stat" /\ UNCHANGED <<at, have>>
  <2>1. waiting /\ r.op = step
    BY <1>3, <1>4
  <2>2. /\ waiting' = FALSE
        /\ CASE step = "stat" /\ r.data = <<1, Len(Image)>> -> Advance({})
             [] step = "stat" /\ r.data # <<1, Len(Image)>> ->
                  step' = "begin" /\ UNCHANGED <<at, have>>
             [] step = "begin" /\ r.ok -> Advance({})
             [] step = "sread" /\ r.ok /\ r.data = <<Image[at]>> -> Advance(have \cup {at})
             [] step = "sread" /\ ~(r.ok /\ r.data = <<Image[at]>>) ->
                  step' = "write" /\ UNCHANGED <<at, have>>
             [] step = "write" /\ r.ok -> Advance(have \cup {at})
             [] step = "write" /\ ~r.ok -> step' = "begin" /\ UNCHANGED <<at, have>>
             [] step = "fin" /\ r.ok -> step' = "done" /\ UNCHANGED <<at, have>>
             [] step \in {"begin", "fin"} /\ ~r.ok -> step' = "stat" /\ UNCHANGED <<at, have>>
    BY <1>3, <2>1 DEF Receive
  <2>3. step # "done"
    BY <1>1 DEF CaptureInv, Answered
  <2>4. step \in {"stat", "begin", "sread", "write", "fin"}
    BY <2>3 DEF CaptureInv, TypeOK
  <2> QED
    BY <2>2, <2>4
<1>6. InFlight' /\ Answered'
  BY <1>1, <1>3, <1>4, <1>5 DEF InFlight, Answered
<1>7. TypeOK /\ at \in 1..Len(Image) /\ have \in SUBSET (1..Len(Image))
  BY TypeFacts DEF CaptureInv
<1>8. \A i : Stored(i)' <=> Stored(i)
  BY <1>1, <1>7, FilesKept
<1>9. /\ step' \in {"stat", "begin", "sread", "write", "fin", "done"} /\ at' \in 1..Len(Image)
      /\ have' \in SUBSET (1..Len(Image)) /\ waiting' \in BOOLEAN
  <2>1. ASSUME NEW known \in SUBSET (1..Len(Image)), Advance(known)
        PROVE  step' \in {"fin", "sread"} /\ at' \in 1..Len(Image) /\ have' \in SUBSET (1..Len(Image))
    BY <1>7, <2>1, AdvanceStep
  <2>2. have \cup {at} \in SUBSET (1..Len(Image)) /\ {} \in SUBSET (1..Len(Image))
    BY <1>7
  <2>3. \/ Advance({}) \/ Advance(have \cup {at})
        \/ step' \in {"stat", "begin", "write", "done"} /\ UNCHANGED <<at, have>>
    BY <1>5
  <2> QED
    BY <1>5, <1>7, <2>1, <2>2, <2>3
<1>10. TypeOK'
  <2>1. Len(rsp') = 0 /\ 0 <= MaxQueue
    BY <1>3, EmptySeq, NodeAssumption
  <2> QED
    BY <1>1, <1>7, <1>9, <2>1 DEF TypeOK, Store!TypeOK
<1>11. step' \in {"sread", "write", "fin"} => \A i \in have' : Stored(i)
  <2>1. CASE have' \in SUBSET have /\ step \in {"sread", "write", "fin"}
    BY <2>1, BelievedIs DEF CaptureInv
  <2>2. CASE have' = {}
    BY <2>2
  <2>3. CASE have' = have \cup {at} /\ step \in {"sread", "write"} /\ Stored(at)
    BY <2>3, BelievedIs DEF CaptureInv
  <2>4. CASE step' \in {"stat", "begin", "done"}
    BY <2>4
  <2>5. \/ have' \in SUBSET have /\ step \in {"sread", "write", "fin"}
        \/ have' = {}
        \/ have' = have \cup {at} /\ step \in {"sread", "write"} /\ Stored(at)
        \/ step' \in {"stat", "begin", "done"}
    BY <1>4, <1>5, <1>7, AdvanceStep DEF Truthful
  <2> QED
    BY <2>1, <2>2, <2>3, <2>4, <2>5
<1>12. step' = "fin" => have' = 1..Len(Image)
  <2>1. ASSUME NEW known \in SUBSET (1..Len(Image)), Advance(known), step' = "fin"
        PROVE  have' = 1..Len(Image)
    BY <1>7, <2>1, AdvanceStep
  <2>2. have \cup {at} \in SUBSET (1..Len(Image)) /\ {} \in SUBSET (1..Len(Image))
    BY <1>7
  <2>3. \/ Advance({}) \/ Advance(have \cup {at})
        \/ step' \in {"stat", "begin", "write", "done"}
    BY <1>5
  <2> QED
    BY <2>1, <2>2, <2>3
<1>13. BelievedChunksStored'
  BY <1>8, <1>11 DEF BelievedChunksStored, Stored, Current
<1>14. CaptureExact'
  BY <1>1 DEF CaptureInv, CaptureExact
<1> QED
  BY <1>6, <1>10, <1>12, <1>13, <1>14 DEF CaptureInv

LEMMA LinkStep == CaptureInv /\ (LoseRequest \/ LoseReply) => CaptureInv'
<1> SUFFICES ASSUME CaptureInv, LoseRequest \/ LoseReply PROVE CaptureInv'
  OBVIOUS
<1>1. /\ UNCHANGED <<part, done, up, catalog, view, captured, renewed, step, at, have, waiting, failures>>
      /\ \/ req # <<>> /\ req' = Tail(req) /\ rsp' = rsp
         \/ rsp # <<>> /\ rsp' = Tail(rsp) /\ req' = req
  BY DEF LoseRequest, LoseReply, store, node
<1>2. req' = <<>> /\ rsp' = <<>>
  <2>1. CASE req # <<>> /\ req' = Tail(req) /\ rsp' = rsp
    <3>1. req = <<[op |-> step, at |-> at]>> /\ rsp = <<>>
      BY <2>1 DEF CaptureInv, InFlight
    <3> QED
      BY <2>1, <3>1
  <2>2. CASE rsp # <<>> /\ rsp' = Tail(rsp) /\ req' = req
    <3>1. req = <<>> /\ \E r : rsp = <<r>>
      BY <2>2 DEF CaptureInv, InFlight
    <3> QED
      BY <2>2, <3>1
  <2> QED
    BY <1>1, <2>1, <2>2
<1>3. TypeOK'
  <2>1. Len(<<>>) = 0 /\ 0 <= MaxQueue
    BY EmptySeq, NodeAssumption
  <2> QED
    BY <1>1, <1>2, <2>1 DEF CaptureInv, TypeOK, Store!TypeOK
<1> QED
  BY <1>1, <1>2, <1>3 DEF CaptureInv, InFlight, Answered, BelievedChunksStored, CaptureExact

----------------------------------------------------------------------------
(* The steps of the host.                                                  *)

\* What a request of the current step does to the files: BEGIN lays a new
\* file, whole or cut short, WRITE puts the node's chunk in its place, FIN
\* renames what declares its own size.
Effect ==
    \/ UNCHANGED <<part, done, captured>> /\ renewed' \in {renewed, {}}
    \/ /\ step = "begin"
       /\ \E f \in File : part' = [part EXCEPT ![Target] = f]
       /\ UNCHANGED <<done, captured, renewed>>
    \/ /\ step = "write" /\ part[Target] # NoFile
       /\ part' = [part EXCEPT ![Target] =
                     Store!WriteAt(part[Target], at - 1, Store!Prefix(<<Image[at]>>, 1))]
       /\ UNCHANGED <<done, captured, renewed>>
    \/ /\ step = "fin" /\ Store!Publishable(part[Target])
       /\ done' = [done EXCEPT ![Target] = part[Target]]
       /\ part' = [part EXCEPT ![Target] = NoFile]
       /\ captured' = captured \cup {Target} /\ renewed' = renewed \cup {Target}

\* FIN only accepts the container: every chunk is right, and the head, right
\* too, declares how many there are.
LEMMA FinIsImage ==
    ASSUME CaptureInv, step = "fin", Store!Publishable(part[Target])
    PROVE  part[Target] = Image
<1> DEFINE f == part[Target]
<1>1. TypeOK
  BY DEF CaptureInv
<1>2. f # NoFile /\ f \in File /\ Len(f) > 0 /\ Declared(f[1]) = Len(f)
  BY <1>1, TypeFacts DEF Store!Publishable
<1>3. \A i \in 1..Len(Image) : Stored(i)
  BY BelievedIs DEF CaptureInv
<1>4. Current = f
  BY <1>2 DEF Current
<1> HIDE DEF f
<1>5. \A i \in 1..Len(Image) : i <= Len(f) /\ f[i] = Image[i]
  BY <1>3, <1>4 DEF Stored
<1>6. 1 \in 1..Len(Image)
  BY <1>1, TypeFacts
<1>7. f[1] = Image[1]
  BY <1>5, <1>6
<1>8. Len(f) = Len(Image)
  BY <1>2, <1>7, ImageAssumption
<1>9. f = Image
  BY <1>2, <1>5, <1>8, ImageAssumption, SeqEqual DEF File
<1> QED
  BY <1>9 DEF f

\* The node's WRITE, carried out, stores its chunk and no other.
LEMMA WriteStores ==
    ASSUME CaptureInv, step = "write", part[Target] # NoFile, UNCHANGED <<done, step, at, have>>,
           part' = [part EXCEPT ![Target] =
                      Store!WriteAt(part[Target], at - 1, Store!Prefix(<<Image[at]>>, 1))]
    PROVE  part' \in [Mid -> File \cup {NoFile}] /\ BelievedChunksStored' /\ Stored(at)'
<1> DEFINE f == part[Target]
           g == Store!WriteAt(f, at - 1, Store!Prefix(<<Image[at]>>, 1))
<1>0. /\ part \in [Mid -> File \cup {NoFile}] /\ Target \in Mid
      /\ at \in 1..Len(Image) /\ have \in SUBSET (1..Len(Image)) /\ f # NoFile
  BY TypeFacts DEF CaptureInv
<1>1. f \in File
  BY <1>0
<1>2. /\ g \in File /\ at <= Len(g) /\ g[at] = Image[at]
      /\ Len(f) <= Len(g)
      /\ \A i \in 1..Len(f) : i # at => g[i] = f[i]
  BY <1>0, <1>1, WriteLands
<1>9. part' = [part EXCEPT ![Target] = g]
  OBVIOUS
<1> HIDE DEF g
<1>3. part'[Target] = g /\ part' \in [Mid -> File \cup {NoFile}]
  BY <1>0, <1>2, <1>9
<1>4. g # NoFile /\ Len(f) \in Nat /\ Len(g) \in Nat /\ Len(Image) \in Nat
  BY <1>1, <1>2, FolderAssumption, ImageAssumption DEF File
<1>5. Current' = g /\ Current = f
  BY <1>3, <1>4 DEF Current
<1>6. ASSUME NEW i \in have PROVE Stored(i)'
  <2>1. Stored(i) /\ i \in 1..Len(Image)
    BY <1>0, BelievedIs DEF CaptureInv
  <2>2. i \in 1..Len(f) /\ f[i] = Image[i]
    BY <1>4, <1>5, <2>1 DEF Stored
  <2>3. i <= Len(g) /\ g[i] = Image[i]
    BY <1>2, <1>4, <2>2
  <2> QED
    BY <1>4, <1>5, <2>3 DEF Stored
<1>7. Stored(at)'
  BY <1>2, <1>4, <1>5 DEF Stored
<1>8. BelievedChunksStored'
  BY <1>6 DEF BelievedChunksStored, Stored, Current
<1> QED
  BY <1>3, <1>7, <1>8

LEMMA EffectKeeps ==
    ASSUME CaptureInv, Effect, UNCHANGED <<step, at, have>>
    PROVE  /\ part' \in [Mid -> File \cup {NoFile}] /\ done' \in [Mid -> File \cup {NoFile}]
           /\ captured' \in SUBSET Mid /\ renewed' \in SUBSET Mid
           /\ BelievedChunksStored' /\ CaptureExact'
           /\ done'[Target] # done[Target] => done'[Target] = Image
<1>1. /\ TypeOK /\ captured \in SUBSET Mid /\ renewed \in SUBSET Mid
      /\ part \in [Mid -> File \cup {NoFile}] /\ done \in [Mid -> File \cup {NoFile}]
      /\ Target \in Mid /\ at \in 1..Len(Image) /\ have \in SUBSET (1..Len(Image))
  BY TypeFacts DEF CaptureInv, TypeOK, Store!TypeOK
<1>2. CASE UNCHANGED <<part, done, captured>> /\ renewed' \in {renewed, {}}
  BY <1>1, <1>2 DEF CaptureInv, BelievedChunksStored, CaptureExact
<1>3. CASE step = "begin" /\ (\E f \in File : part' = [part EXCEPT ![Target] = f])
           /\ UNCHANGED <<done, captured, renewed>>
  BY <1>1, <1>3 DEF CaptureInv, BelievedChunksStored, CaptureExact
<1> DEFINE f == part[Target]
<1>4. CASE /\ step = "write" /\ f # NoFile
           /\ part' = [part EXCEPT ![Target] =
                         Store!WriteAt(f, at - 1, Store!Prefix(<<Image[at]>>, 1))]
           /\ UNCHANGED <<done, captured, renewed>>
  BY <1>1, <1>4, WriteStores DEF CaptureInv, CaptureExact
<1>5. CASE /\ step = "fin" /\ Store!Publishable(f)
           /\ done' = [done EXCEPT ![Target] = f] /\ part' = [part EXCEPT ![Target] = NoFile]
           /\ captured' = captured \cup {Target} /\ renewed' = renewed \cup {Target}
  <2>1. f = Image /\ f # NoFile
    BY <1>5, FinIsImage DEF Store!Publishable
  <2>2. /\ part' \in [Mid -> File \cup {NoFile}] /\ done' \in [Mid -> File \cup {NoFile}]
        /\ captured' \in SUBSET Mid /\ renewed' \in SUBSET Mid
        /\ done'[Target] = f /\ part'[Target] = NoFile
    BY <1>1, <1>5
  <2>3. Current' = f /\ Current = f
    BY <2>1, <2>2 DEF Current
  <2>4. \A i \in have : Stored(i)'
    BY <1>5, <2>3, BelievedIs DEF CaptureInv, Stored
  <2>5. BelievedChunksStored' /\ CaptureExact'
    BY <2>1, <2>2, <2>4 DEF BelievedChunksStored, Stored, Current, CaptureExact
  <2> QED
    BY <1>5, <2>1, <2>2, <2>5
<1> QED
  BY <1>2, <1>3, <1>4, <1>5 DEF Effect

\* What is the same after a request of the current step.
LEMMA HostStep ==
    ASSUME CaptureInv, Effect, UNCHANGED <<step, at, have, waiting, catalog, view>>,
           up' \in BOOLEAN, failures' \in 0..MaxFailures,
           InFlight', Answered', Len(req') <= MaxQueue, Len(rsp') <= MaxQueue
    PROVE  CaptureInv'
<1>1. TypeOK'
  <2>1. part' \in [Mid -> File \cup {NoFile}] /\ done' \in [Mid -> File \cup {NoFile}] /\ captured' \in SUBSET Mid /\ renewed' \in SUBSET Mid
    BY EffectKeeps
  <2>2. Store!TypeOK'
    BY <2>1 DEF CaptureInv, TypeOK, Store!TypeOK, Store!FileOrNone, Store!File, File
  <2> QED
    BY <2>2 DEF CaptureInv, TypeOK
<1> QED
  BY <1>1, EffectKeeps DEF CaptureInv

LEMMA RequestIs ==
    ASSUME CaptureInv, req # <<>>
    PROVE  /\ waiting /\ rsp = <<>> /\ Head(req) = [op |-> step, at |-> at] /\ Tail(req) = <<>>
           /\ step # "done"
<1>1. waiting /\ rsp = <<>> /\ req = <<[op |-> step, at |-> at]>>
  BY DEF CaptureInv, InFlight
<1>2. step # "done"
  BY DEF CaptureInv, Answered
<1> QED
  BY <1>1, <1>2

\* the file BEGIN leaves, whole or cut short
LEMMA BegunIsFile ==
    ASSUME NEW n \in Nat, n <= Len(Image)
    PROVE  Store!Prefix(Store!Fresh(Len(Image)), n) \in File
BY FreshIsFile, PrefixIsFile

LEMMA AnsweredIs ==
    ASSUME NEW ok \in BOOLEAN, NEW data, rsp = <<>>, Reply(step, ok, data),
           req' = <<>>, waiting, UNCHANGED <<step, at, have, waiting>>, step # "done",
           MaxQueue > 0,
           (\/ step = "write" /\ ok
            \/ step = "sread" /\ ok /\ data = <<Image[at]>>) => Stored(at)'
    PROVE  InFlight' /\ Answered' /\ Len(req') <= MaxQueue /\ Len(rsp') <= MaxQueue
<1> DEFINE r == [op |-> step, ok |-> ok, data |-> data]
<1>1. rsp' = <<r>>
  BY DEF Reply
<1>2. r.ok = ok /\ r.data = data
  OBVIOUS
<1>3. Truthful(r)'
  BY <1>2 DEF Truthful
<1>4. InFlight'
  BY <1>1, <1>3 DEF InFlight
<1>5. Answered'
  BY DEF Answered
<1>6. Len(req') <= MaxQueue /\ Len(rsp') <= MaxQueue
  <2>1. Len(<<>>) = 0 /\ Len(<<r>>) = 1
    BY EmptySeq
  <2> QED
    BY <1>1, <2>1, NodeAssumption
<1> QED
  BY <1>4, <1>5, <1>6

LEMMA SReadTrue ==
    ASSUME TypeOK, NEW d, d = Store!SRead(Target, at - 1, 1), d # NoFile, d = <<Image[at]>>
    PROVE  Stored(at)
<1>1. at \in Nat \ {0} /\ (at - 1) + 1 = at
  BY TypeFacts
<1>2. Current # NoFile /\ at <= Len(Current) /\ d = SubSeq(Current, at, at)
  BY <1>1 DEF Store!SRead, Current
<1>3. Current \in File
  BY <1>2, TypeFacts DEF Current
<1>4. at \in 1..Len(Current)
  BY <1>1, <1>2
<1>5. Len(SubSeq(Current, at, at)) = 1 /\ SubSeq(Current, at, at)[1] = Current[at]
  BY <1>1, <1>3, <1>4 DEF File
<1>6. d[1] = Image[at]
  OBVIOUS
<1>7. d[1] = Current[at]
  BY <1>2, <1>5
<1> HIDE DEF Current
<1> QED
  BY <1>2, <1>6, <1>7 DEF Stored

LEMMA ServeStep == CaptureInv /\ Serve => CaptureInv' /\ Effect
<1> SUFFICES ASSUME CaptureInv, Serve PROVE CaptureInv' /\ Effect
  OBVIOUS
<1> DEFINE m == [op |-> step, at |-> at]
<1>1. /\ waiting /\ rsp = <<>> /\ step # "done" /\ req' = <<>>
      /\ HostOp(m) /\ UNCHANGED <<step, at, have, waiting, failures>>
      /\ Len(rsp) < MaxQueue /\ up
  BY RequestIs DEF Serve, node
<1>2. MaxQueue > 0
  <2>1. Len(<<>>) = 0
    BY EmptySeq
  <2> QED
    BY <1>1, <2>1, NodeAssumption
<1>3. TypeOK /\ at \in 1..Len(Image) /\ Len(Image) \in Nat
  BY TypeFacts DEF CaptureInv
<1>4. m.op = step /\ m.at = at
  OBVIOUS
<1> HIDE DEF m
<1>5. /\ UNCHANGED <<catalog, view>> /\ up' = up /\ Effect
      /\ \E ok \in BOOLEAN : \E data :
           /\ Reply(step, ok, data)
           /\ (\/ step = "write" /\ ok
               \/ step = "sread" /\ ok /\ data = <<Image[at]>>) => Stored(at)'
  <2>1. CASE step = "stat" /\ Reply("stat", TRUE, Store!Stat(Target)) /\ UNCHANGED store
    BY <2>1 DEF store, Effect
  <2>2. CASE /\ step = "sread" /\ UNCHANGED store
             /\ LET d == Store!SRead(Target, at - 1, 1) IN Reply("sread", d # NoFile, d)
    <3> DEFINE d == Store!SRead(Target, at - 1, 1)
               ok == d # NoFile
    <3>1. Reply(step, ok, d) /\ ok \in BOOLEAN
      BY <2>2
    <3>2. ok /\ d = <<Image[at]>> => Stored(at)'
      <4>1. ok /\ d = <<Image[at]>> => Stored(at)
        BY <1>3, SReadTrue
      <4> QED
        BY <1>1, <2>2, <4>1 DEF Stored, Current, store
    <3>3. UNCHANGED <<catalog, view>> /\ up' = up /\ Effect
      BY <2>2 DEF store, Effect
    <3> HIDE DEF d, ok
    <3> QED
      BY <2>2, <3>1, <3>2, <3>3
  <2>3. CASE /\ step = "begin" /\ Store!Begin(Target, Len(Image), Len(Image), FALSE)
             /\ Reply("begin", TRUE, NoFile)
    <3>1. /\ part' = [part EXCEPT ![Target] = Store!Prefix(Store!Fresh(Len(Image)), Len(Image))]
          /\ up' = up /\ UNCHANGED <<done, catalog, view, captured, renewed>>
      BY <1>1, <2>3 DEF Store!Begin
    <3>2. Store!Prefix(Store!Fresh(Len(Image)), Len(Image)) \in File
      BY <1>3, BegunIsFile
    <3>3. Effect
      BY <2>3, <3>1, <3>2 DEF Effect
    <3> QED
      BY <2>3, <3>1, <3>3
  <2>4. CASE /\ step = "write" /\ Store!Write(Target, at - 1, <<Image[at]>>, 1, FALSE)
             /\ Reply("write", TRUE, NoFile)
    <3>1. /\ part' = [part EXCEPT ![Target] =
                        Store!WriteAt(part[Target], at - 1, Store!Prefix(<<Image[at]>>, 1))]
          /\ up' = up /\ UNCHANGED <<done, catalog, view, captured, renewed>> /\ part[Target] # NoFile
      BY <1>1, <2>4 DEF Store!Write
    <3>2. Effect
      BY <2>4, <3>1 DEF Effect
    <3>3. Stored(at)'
      BY <1>1, <2>4, <3>1, WriteStores
    <3> QED
      BY <2>4, <3>1, <3>2, <3>3
  <2>5. CASE step = "write" /\ Reply("write", FALSE, NoFile) /\ UNCHANGED store
    BY <2>5 DEF store, Effect
  <2>6. CASE step = "fin" /\ Store!Fin(Target) /\ Reply("fin", TRUE, NoFile)
    <3>1. /\ Effect /\ UNCHANGED <<catalog, view>> /\ up' = up
      BY <2>6 DEF Store!Fin, Effect
    <3> QED
      BY <2>6, <3>1
  <2>7. CASE step = "fin" /\ Reply("fin", FALSE, NoFile) /\ UNCHANGED store
    BY <2>7 DEF store, Effect
  <2> QED
    BY <1>1, <1>4, <2>1, <2>2, <2>3, <2>4, <2>5, <2>6, <2>7 DEF HostOp
<1>6. InFlight' /\ Answered' /\ Len(req') <= MaxQueue /\ Len(rsp') <= MaxQueue
  BY <1>1, <1>2, <1>5, AnsweredIs
<1>7. up' \in BOOLEAN /\ failures' \in 0..MaxFailures
  BY <1>1, <1>3, <1>5 DEF TypeOK
<1> QED
  BY <1>1, <1>5, <1>6, <1>7, HostStep

\* A write that fails, or a crash: what BEGIN laid is cut short, a chunk did
\* not reach the file, and the answer, if there is one, is ERR.
LEMMA FailStep == CaptureInv /\ Fail => CaptureInv' /\ Effect
<1> SUFFICES ASSUME CaptureInv, Fail PROVE CaptureInv' /\ Effect
  OBVIOUS
<1>1. UNCHANGED <<step, at, have, waiting>> /\ failures' \in 0..MaxFailures
  BY NodeAssumption DEF Fail, node, CaptureInv, TypeOK
<1>2. CASE Store!Stop /\ req' = <<>> /\ UNCHANGED rsp
  <2>1. UNCHANGED <<part, done, captured, renewed, catalog, view, rsp>> /\ up' = FALSE /\ req' = <<>>
    BY <1>2 DEF Store!Stop
  <2>2. Effect /\ up' \in BOOLEAN
    BY <2>1 DEF Effect
  <2>3. InFlight'
    BY <1>1, <2>1 DEF CaptureInv, InFlight, Truthful, Stored, Current
  <2>4. Answered'
    BY <1>1, <2>1 DEF CaptureInv, Answered
  <2>5. Len(req') <= MaxQueue /\ Len(rsp') <= MaxQueue
    <3>1. Len(<<>>) = 0
      BY EmptySeq
    <3> QED
      BY <2>1, <3>1, NodeAssumption DEF CaptureInv, TypeOK
  <2> QED
    BY <1>1, <2>1, <2>2, <2>3, <2>4, <2>5, HostStep
<1>3. ASSUME NEW n \in 0..Len(Image), NEW crash \in BOOLEAN, up, req # <<>>, Len(rsp) < MaxQueue,
             FailWrite(Head(req), n, crash)
      PROVE  CaptureInv' /\ Effect
  <2> DEFINE m == [op |-> step, at |-> at]
  <2>1. /\ waiting /\ rsp = <<>> /\ step # "done" /\ Tail(req) = <<>>
        /\ FailWrite(m, n, crash)
    BY <1>3, RequestIs
  <2>2. m.op = step /\ m.at = at
    OBVIOUS
  <2> HIDE DEF m
  <2>3. n \in Nat /\ n <= Len(Image)
    BY TypeFacts DEF CaptureInv
  <2>4. /\ UNCHANGED <<catalog, view>> /\ up' \in BOOLEAN /\ Effect
    <3>1. CASE step = "begin" /\ Store!Begin(Target, Len(Image), n, crash)
      <4>1. /\ part' = [part EXCEPT ![Target] = Store!Prefix(Store!Fresh(Len(Image)), n)]
            /\ up' = ~crash /\ UNCHANGED <<done, catalog, view, captured, renewed>>
        BY <3>1 DEF Store!Begin
      <4>2. Store!Prefix(Store!Fresh(Len(Image)), n) \in File
        BY <2>3, BegunIsFile
      <4>3. Effect
        BY <3>1, <4>1, <4>2 DEF Effect
      <4> QED
        BY <4>1, <4>3
    <3>2. CASE step = "write" /\ Store!Write(Target, at - 1, <<Image[at]>>, 0, crash)
      <4>1. /\ part' = [part EXCEPT ![Target] =
                          Store!WriteAt(part[Target], at - 1, Store!Prefix(<<Image[at]>>, 0))]
            /\ up' = ~crash /\ UNCHANGED <<done, catalog, view, captured, renewed>>
        BY <3>2 DEF Store!Write
      <4>2. part' = [part EXCEPT ![Target] = part[Target]]
        BY <4>1, WriteNothing
      <4>3. part \in [Mid -> File \cup {NoFile}]
        BY TypeFacts DEF CaptureInv
      <4>4. part' = part
        BY <4>2, <4>3
      <4> QED
        BY <4>1, <4>4 DEF Effect
    <3> QED
      BY <2>1, <2>2, <3>1, <3>2 DEF FailWrite
  <2>5. InFlight' /\ Answered' /\ Len(req') <= MaxQueue /\ Len(rsp') <= MaxQueue
    <3>1. CASE crash
      <4>1. req' = <<>> /\ rsp' = <<>>
        BY <2>1, <3>1 DEF FailWrite
      <4>2. Len(<<>>) = 0
        BY EmptySeq
      <4> QED
        BY <4>1, <4>2, NodeAssumption DEF InFlight, Answered
    <3>2. CASE ~crash
      <4>1. req' = <<>> /\ Reply(step, FALSE, NoFile)
        BY <2>1, <2>2, <3>2 DEF FailWrite
      <4>2. MaxQueue > 0
        <5>1. Len(<<>>) = 0
          BY EmptySeq
        <5> QED
          BY <1>3, <2>1, <5>1, NodeAssumption
      <4> QED
        BY <1>1, <2>1, <4>1, <4>2, AnsweredIs
    <3> QED
      BY <3>1, <3>2
  <2> QED
    BY <1>1, <2>4, <2>5, HostStep
<1> QED
  BY <1>2, <1>3 DEF Fail

LEMMA StartStep == CaptureInv /\ Start => CaptureInv' /\ Effect
<1> SUFFICES ASSUME CaptureInv, Start PROVE CaptureInv' /\ Effect
  OBVIOUS
<1>1. /\ UNCHANGED <<part, done, captured, req, rsp, step, at, have, waiting, failures>>
      /\ renewed' = {} /\ up' = TRUE /\ catalog' = Store!Scan(done)
      /\ view' = [i \in Store!Index |-> NoFile]
  BY DEF Start, Store!Start, node
<1>2. done \in [Mid -> File \cup {NoFile}]
  BY TypeFacts DEF CaptureInv
<1>3. catalog' \in [Mid -> File \cup {NoFile}]
  BY <1>1, <1>2 DEF Store!Scan
<1>4. Store!TypeOK'
  BY <1>1, <1>3 DEF CaptureInv, TypeOK, Store!TypeOK, Store!FileOrNone, Store!File, File
<1>5. TypeOK'
  BY <1>1, <1>4 DEF CaptureInv, TypeOK
<1> QED
  BY <1>1, <1>5 DEF CaptureInv, Effect, InFlight, Truthful, Stored, Current, Answered,
                    BelievedChunksStored, CaptureExact

----------------------------------------------------------------------------
(* The theorems.                                                           *)

\* Every step keeps the invariant, and changes the published file only as a
\* request of the current step may.
LEMMA CaptureStep ==
    ASSUME ~EarlyTimeout, CaptureInv, [Next]_vars
    PROVE  CaptureInv' /\ (UNCHANGED done \/ (Effect /\ UNCHANGED <<step, at, have>>))
<1>1. CASE Send
  BY <1>1, SendStep DEF Send, store
<1>2. CASE Receive
  <2>1. UNCHANGED done
    BY <1>2 DEF Receive, store
  <2>2. CaptureInv'
    BY <1>2, ReceiveStep
  <2> QED
    BY <2>1, <2>2
<1>3. CASE Serve
  BY <1>3, ServeStep DEF Serve, node
<1>4. CASE Fail
  BY <1>4, FailStep DEF Fail, node
<1>5. CASE Start
  BY <1>5, StartStep DEF Start, node
<1>6. CASE LoseRequest \/ LoseReply
  <2>1. UNCHANGED done
    BY <1>6 DEF LoseRequest, LoseReply, store
  <2>2. CaptureInv'
    BY <1>6, LinkStep
  <2> QED
    BY <2>1, <2>2
<1>7. CASE UNCHANGED vars
  BY <1>7 DEF vars, store, node, CaptureInv, TypeOK, Store!TypeOK, InFlight, Truthful, Stored, Current,
              Answered, BelievedChunksStored, CaptureExact
<1> QED
  BY <1>1, <1>2, <1>3, <1>4, <1>5, <1>6, <1>7 DEF Next, Finished

\* While the node repeats only requests of which nothing is under way, what it
\* believes of SeederCore's answers stays true.
THEOREM CaptureInvariant == ~EarlyTimeout => (Spec => []CaptureInv)
<1>1. Init => CaptureInv
  BY CaptureStart
<1>2. ~EarlyTimeout /\ CaptureInv /\ [Next]_vars => CaptureInv'
  BY CaptureStep
<1>3. CASE ~EarlyTimeout
  <2>1. CaptureInv /\ [Next]_vars => CaptureInv'
    BY <1>2, <1>3
  <2> QED
    BY <1>1, <2>1, PTL DEF Spec
<1> QED
  BY <1>3

\* The store, the node and the link keep to their types and bounds.
THEOREM CaptureTypeCorrect == ~EarlyTimeout => (Spec => []TypeOK)
<1>1. CaptureInv => TypeOK
  BY DEF CaptureInv
<1> QED
  BY <1>1, CaptureInvariant, PTL

\* Every chunk the node counts as right, because SREAD matched or WRITE was
\* acknowledged (SeederCore::handle_storage), is right in the host's file,
\* through lost messages, failed writes, crashes and restarts.
THEOREM CaptureBelieves == ~EarlyTimeout => (Spec => []BelievedChunksStored)
<1>1. CaptureInv => BelievedChunksStored
  BY DEF CaptureInv
<1> QED
  BY <1>1, CaptureInvariant, PTL

\* What FIN published is the node's container and nothing else: the light
\* check of CaptureStore::publish is enough after a node that fetched it all.
THEOREM CapturePublishesExact == ~EarlyTimeout => (Spec => []CaptureExact)
<1>1. CaptureInv => CaptureExact
  BY DEF CaptureInv
<1> QED
  BY <1>1, CaptureInvariant, PTL

\* The capture implements the safety part of Publication: whatever file the
\* folder held under the name, it is only ever replaced, by the container.
THEOREM CaptureRefines == ~EarlyTimeout => (Spec => CapturePublishes)
<1>1. Init => Abstract!Init
  BY ImageAssumption DEF Init, Store!Init, Abstract!Init
<1>2. ASSUME ~EarlyTimeout, CaptureInv, [Next]_vars
      PROVE  [Abstract!Publish]_(done[Target])
  BY <1>2, CaptureStep, EffectKeeps DEF Abstract!Publish
<1>3. CASE ~EarlyTimeout
  <2>1. CaptureInv /\ [Next]_vars => [Abstract!Publish]_(done[Target])
    BY <1>2, <1>3
  <2>2. Spec => []CaptureInv
    BY <1>3, CaptureInvariant
  <2> QED
    BY <1>1, <2>1, <2>2, PTL DEF Spec, CapturePublishes, Abstract!Safety
<1> QED
  BY <1>3

=============================================================================
