------------------------- MODULE SeederStoreProofs -------------------------
(* Proofs about SeederStore, for every set of mids, cells, sizes and seeds. *)
EXTENDS SeederStore, FiniteSetTheorems, SequenceTheorems, TLAPS

----------------------------------------------------------------------------
(* What the storage operations write.                                      *)

\* begin_part produces a file, whatever the seed and wherever it is laid.
LEMMA FreshIsFile ==
    ASSUME NEW total \in Nat
    PROVE  Fresh(total) \in File /\ Len(Fresh(total)) = total
<1>1. \A i \in 1..total : i > SeedOff /\ i - SeedOff <= Len(Seed) =>
        i - SeedOff \in 1..Len(Seed)
  BY SeedAssumption DEF File
<1>2. \A i \in 1..Len(Seed) : Seed[i] \in Cell
  BY SeedAssumption DEF File
<1>3. Fresh(total) \in [1..total -> Cell]
  BY <1>1, <1>2, CellAssumption DEF Fresh
<1> QED
  BY <1>3, SeqDef, LenProperties DEF File

\* What reaches the disk of a cut-short write is a file too.
LEMMA PrefixIsFile ==
    ASSUME NEW s \in File, NEW n \in Nat, n <= Len(s)
    PROVE  Prefix(s, n) \in File
<1>1. \A i \in 1..n : s[i] \in Cell
  BY ElementOfSeq DEF File
<1> QED
  BY <1>1, SubSeqProperties DEF Prefix, File

\* write_at keeps a file a file, grown or not.
LEMMA WriteAtIsFile ==
    ASSUME NEW f \in File, NEW off \in Nat, NEW data \in File
    PROVE  WriteAt(f, off, data) \in File
<1>1. CASE data = <<>>
  BY <1>1 DEF WriteAt
<1>2. CASE data # <<>>
  <2> DEFINE n == IF off + Len(data) > Len(f) THEN off + Len(data) ELSE Len(f)
  <2>1. n \in Nat
    BY LenProperties DEF File
  <2>2. WriteAt(f, off, data) \in [1..n -> Cell]
    BY <1>2, <2>1, CellAssumption, LenProperties, ElementOfSeq DEF WriteAt, File
  <2> QED
    BY <2>1, <2>2, SeqDef DEF File
<1> QED
  BY <1>1, <1>2

\* what one WRITE carries is itself a run of file cells
LEMMA DataIsFile == Data \subseteq File
  BY BoundAssumption, SeqDef DEF Data, File

----------------------------------------------------------------------------
(* Type correctness.                                                       *)

\* a fresh session over any folder of well-typed files is well typed
LEMMA TypeInit == Init => TypeOK
  BY LeftAssumption DEF Init, TypeOK, FileOrNone

\* every request, failure, stop and restart keeps the store well typed
LEMMA TypeStep == TypeOK /\ [Next]_vars => TypeOK'
<1> SUFFICES ASSUME TypeOK, [Next]_vars
             PROVE  TypeOK'
  OBVIOUS
<1> USE DEF TypeOK
<1>1. CASE Start
  BY <1>1 DEF Start, Scan, FileOrNone
<1>2. CASE Stop
  BY <1>2 DEF Stop
<1>3. ASSUME NEW i \in Index, Describe(i)
      PROVE  TypeOK'
  BY <1>3 DEF Describe, Listed
<1>4. ASSUME NEW m \in Mid, NEW total \in 0..MaxTotal, NEW n \in 0..MaxTotal,
             NEW crash \in BOOLEAN, Begin(m, total, n, crash)
      PROVE  TypeOK'
  <2>1. Prefix(Fresh(total), n) \in File
    BY <1>4, FreshIsFile, PrefixIsFile, BoundAssumption DEF Begin
  <2>2. part' \in [Mid -> FileOrNone]
    BY <1>4, <2>1 DEF Begin, FileOrNone
  <2> QED
    BY <1>4, <2>2 DEF Begin
<1>5. ASSUME NEW m \in Mid, NEW off \in 0..MaxTotal, NEW data \in Data,
             NEW n \in 0..WriteMax, NEW crash \in BOOLEAN,
             Write(m, off, data, n, crash)
      PROVE  TypeOK'
  <2>1. part[m] \in File
    BY <1>5 DEF Write, FileOrNone
  <2>2. Prefix(data, n) \in File
    BY <1>5, DataIsFile, PrefixIsFile, BoundAssumption DEF Write
  <2>3. WriteAt(part[m], off, Prefix(data, n)) \in FileOrNone
    BY <2>1, <2>2, WriteAtIsFile, BoundAssumption DEF FileOrNone
  <2>4. part' \in [Mid -> FileOrNone]
    BY <1>5, <2>3 DEF Write
  <2> QED
    BY <1>5, <2>4 DEF Write
<1>6. ASSUME NEW m \in Mid, Fin(m)
      PROVE  TypeOK'
  BY <1>6 DEF Fin, FileOrNone
<1>7. CASE UNCHANGED vars
  BY <1>7 DEF vars
<1> QED
  BY <1>1, <1>2, <1>3, <1>4, <1>5, <1>6, <1>7 DEF Next

\* Every reachable folder, snapshot and history is well typed.
THEOREM TypeCorrect == Spec => []TypeOK
  BY TypeInit, TypeStep, PTL DEF Spec

----------------------------------------------------------------------------
(* Published files.                                                        *)

\* Whatever a step does to a published file, it did it by publishing: the
\* one lemma behind both the action property and the invariants on done.
LEMMA DoneStep ==
    ASSUME TypeOK, [Next]_vars
    PROVE  \/ UNCHANGED <<done, captured>>
           \/ \E m \in Mid : Fin(m)
<1>1. CASE Start
  BY <1>1 DEF Start
<1>2. CASE Stop
  BY <1>2 DEF Stop
<1>3. CASE \E i \in Index : Describe(i)
  BY <1>3 DEF Describe
<1>4. CASE \E m \in Mid, total \in 0..MaxTotal, n \in 0..MaxTotal, crash \in BOOLEAN :
             Begin(m, total, n, crash)
  BY <1>4 DEF Begin
<1>5. CASE \E m \in Mid, off \in 0..MaxTotal, data \in Data, n \in 0..WriteMax,
              crash \in BOOLEAN : Write(m, off, data, n, crash)
  BY <1>5 DEF Write
<1>6. CASE UNCHANGED vars
  BY <1>6 DEF vars
<1> QED
  BY <1>1, <1>2, <1>3, <1>4, <1>5, <1>6 DEF Next

\* Captured files keep MAGIC and exactly the size they declare.
THEOREM CapturedSafe == Spec => []CapturedWellFormed
<1>1. Init => CapturedWellFormed
  BY DEF Init, CapturedWellFormed
<1>2. TypeOK /\ CapturedWellFormed /\ [Next]_vars => CapturedWellFormed'
  <2> SUFFICES ASSUME TypeOK, CapturedWellFormed, [Next]_vars
               PROVE  CapturedWellFormed'
    OBVIOUS
  <2>1. CASE UNCHANGED <<done, captured>>
    BY <2>1 DEF CapturedWellFormed
  <2>2. ASSUME NEW m \in Mid, Fin(m)
        PROVE  CapturedWellFormed'
    <3> SUFFICES ASSUME NEW k \in captured'
                 PROVE  Publishable(done'[k])
      BY DEF CapturedWellFormed, Publishable
    <3>1. CASE k = m
      BY <2>2, <3>1 DEF Fin, TypeOK
    <3>2. CASE k # m
      BY <2>2, <3>2 DEF Fin, TypeOK, CapturedWellFormed
    <3> QED
      BY <3>1, <3>2
  <2> QED
    BY <2>1, <2>2, DoneStep
<1> QED
  BY <1>1, <1>2, TypeCorrect, PTL DEF Spec

\* A published file changes only by an atomic publication of its .part.
THEOREM PublishIsAtomic == Spec => PublishAtomic
<1>1. TypeOK /\ [Next]_vars => [PublishStep]_vars
  <2> SUFFICES ASSUME TypeOK, [Next]_vars, NEW m \in Mid, done'[m] # done[m]
               PROVE  part[m] # NoFile /\ done'[m] = part[m] /\ part'[m] = NoFile
    BY DEF PublishStep
  <2>1. PICK k \in Mid : Fin(k)
    BY DoneStep
  <2>2. k = m
    BY <2>1 DEF Fin, TypeOK
  <2> QED
    BY <2>1, <2>2 DEF Fin, TypeOK, Publishable
<1> QED
  BY <1>1, TypeCorrect, PTL DEF Spec, PublishAtomic

----------------------------------------------------------------------------
(* The served catalogue.                                                   *)

\* The inductive strengthening of both: of what was not published since the
\* last start the snapshot is what a scan of the folder would find now,
\* whether the server still runs or not.
OfferInv == \A m \in Mid \ renewed : catalog[m] = Scan(done)[m]

\* Only FIN touches published files, and it renews.
LEMMA OfferStep == TypeOK /\ OfferInv /\ [Next]_vars => OfferInv'
<1> SUFFICES ASSUME TypeOK, OfferInv, [Next]_vars PROVE OfferInv'
  OBVIOUS
<1>1. CASE Start
  BY <1>1 DEF Start, OfferInv
<1>2. ASSUME NEW m \in Mid, Fin(m) PROVE OfferInv'
  <2>1. /\ catalog' = catalog /\ renewed' = renewed \cup {m}
        /\ \A k \in Mid : k # m => done'[k] = done[k]
    BY <1>2 DEF Fin, TypeOK
  <2> SUFFICES ASSUME NEW k \in Mid \ renewed' PROVE catalog'[k] = Scan(done')[k]
    BY DEF OfferInv, Scan
  <2>2. k \in Mid \ renewed /\ done'[k] = done[k]
    BY <2>1
  <2>3. Scan(done')[k] = Scan(done)[k]
    BY <2>2 DEF Scan
  <2> QED
    BY <2>1, <2>2, <2>3 DEF OfferInv
<1>3. CASE UNCHANGED <<done, catalog, renewed>>
  BY <1>3 DEF OfferInv
<1>4. Start \/ (\E m \in Mid : Fin(m)) \/ UNCHANGED <<done, catalog, renewed>>
  BY DEF Next, vars, Stop, Describe, Begin, Write
<1> QED
  BY <1>1, <1>2, <1>3, <1>4

\* The snapshot is never behind the folder by more than what FIN published
\* (Folder::scan against publish).
THEOREM OfferInvariant == Spec => []OfferInv
<1>1. Init => OfferInv
  BY DEF Init, OfferInv
<1> QED
  BY <1>1, OfferStep, TypeCorrect, PTL DEF Spec

\* A restart offers the same as before, but for what FIN published since.
THEOREM RestartSafe == Spec => RestartKeepsOffer
<1>1. OfferInv /\ [Next]_vars => [RestartStep]_vars
  <2> SUFFICES ASSUME OfferInv, [Next]_vars, ~up, up', NEW m \in Mid \ renewed
               PROVE  catalog'[m] = catalog[m]
    BY DEF RestartStep
  <2>1. Start
    BY DEF Next, vars, Stop, Describe, Begin, Write, Fin
  <2> QED
    BY <2>1 DEF Start, OfferInv
<1> QED
  BY <1>1, OfferInvariant, PTL DEF Spec, RestartKeepsOffer

\* What is served has its file in the folder.
Backed == \A m \in Mid : catalog[m] # NoFile => done[m] # NoFile

\* What is served stays backed by its file, across every capture.
THEOREM ServedBacked == Spec => []ServedBackedByFile
<1>1. Init => Backed
  BY DEF Init, Backed
<1>2. TypeOK /\ Backed /\ [Next]_vars => Backed'
  <2> SUFFICES ASSUME TypeOK, Backed, [Next]_vars PROVE Backed'
    OBVIOUS
  <2>1. CASE Start
    BY <2>1 DEF Start, Scan, Backed
  <2>2. ASSUME NEW m \in Mid, Fin(m) PROVE Backed'
    BY <2>2 DEF Fin, Publishable, TypeOK, Backed
  <2>3. CASE UNCHANGED <<done, catalog>>
    BY <2>3 DEF Backed
  <2>4. Start \/ (\E m \in Mid : Fin(m)) \/ UNCHANGED <<done, catalog>>
    BY DEF Next, vars, Stop, Describe, Begin, Write
  <2> QED
    BY <2>1, <2>2, <2>3, <2>4
<1>3. Backed /\ OfferInv => ServedBackedByFile
  <2> SUFFICES ASSUME Backed, OfferInv, NEW m \in Mid, catalog[m] # NoFile
               PROVE  done[m] # NoFile /\ (m \notin renewed => done[m] = catalog[m])
    BY DEF ServedBackedByFile
  <2> QED
    BY DEF Backed, OfferInv, Scan
<1> QED
  BY <1>1, <1>2, <1>3, TypeCorrect, OfferInvariant, PTL DEF Spec

----------------------------------------------------------------------------
(* Indices.                                                                *)

\* Path order gives every listed container an index of its own, below the
\* number of listed containers.
LEMMA IndexOrder ==
    ASSUME NEW m \in Listed
    PROVE  /\ IndexOf(m) \in Nat
           /\ Cardinality(Listed) \in Nat
           /\ IndexOf(m) < Cardinality(Listed)
           /\ \A k \in Listed : m < k => IndexOf(m) < IndexOf(k)
<1> DEFINE Below(x) == {k \in Listed : k < x}
<1>1. IsFiniteSet(Listed) /\ Listed \subseteq Nat
  BY MidAssumption, FS_Subset DEF Listed
<1>2. \A x : Below(x) \in SUBSET Listed
  OBVIOUS
<1>3. \A x : x \in Nat => x \notin Below(x)
  OBVIOUS
<1>4. ASSUME NEW k \in Listed, m < k
      PROVE  Below(m) \in SUBSET Below(k) /\ m \in Below(k)
  <2>1. m \in Nat /\ k \in Nat /\ \A j \in Listed : j \in Nat
    BY <1>1
  <2>2. \A j \in Listed : j < m => j < k
    BY <1>4, <2>1
  <2> QED
    BY <1>4, <2>2
<1>5. \A x : IndexOf(x) = Cardinality(Below(x))
  BY DEF IndexOf
<1> HIDE DEF Below
<1>6. \A x : IsFiniteSet(Below(x))
  BY <1>1, <1>2, FS_Subset
<1>7. \A x : Cardinality(Below(x)) \in Nat
  BY <1>6, FS_CardinalityType
<1>8. Cardinality(Listed) \in Nat
  BY <1>1, FS_CardinalityType
<1>9. m \notin Below(m)
  BY <1>1, <1>3
<1>10. Cardinality(Below(m)) < Cardinality(Listed)
  <2>1. /\ Cardinality(Below(m)) <= Cardinality(Listed)
        /\ Cardinality(Below(m)) # Cardinality(Listed)
    BY <1>1, <1>2, <1>9, FS_Subset
  <2> QED
    BY <1>7, <1>8, <2>1
<1>11. ASSUME NEW k \in Listed, m < k
       PROVE  Cardinality(Below(m)) < Cardinality(Below(k))
  <2>1. /\ Cardinality(Below(m)) <= Cardinality(Below(k))
        /\ Cardinality(Below(m)) # Cardinality(Below(k))
    BY <1>4, <1>6, <1>9, <1>11, FS_Subset
  <2> QED
    BY <1>7, <2>1
<1> QED
  BY <1>5, <1>7, <1>8, <1>10, <1>11

\* READ at the index of a container, over its whole length, returns it.
LEMMA ReadWhole ==
    ASSUME TypeOK, NEW m \in Listed
    PROVE  Read(IndexOf(m), 0, Len(catalog[m])) = catalog[m]
<1>1. catalog[m] \in File
  BY DEF TypeOK, Listed, FileOrNone
<1>2. ASSUME NEW k \in Listed, IndexOf(k) = IndexOf(m)
      PROVE  k = m
  <2>1. k \in Nat /\ m \in Nat
    BY MidAssumption DEF Listed
  <2> QED
    BY <1>2, <2>1, IndexOrder
<1>3. m = CHOOSE k \in Listed : IndexOf(k) = IndexOf(m)
  BY <1>2
<1>4. Len(catalog[m]) \in Nat
  BY <1>1 DEF File
<1>5. SubSeq(catalog[m], 1, Len(catalog[m])) = catalog[m]
  BY <1>1, SubSeqFull DEF File
<1>6. 0 + 1 = 1 /\ 0 + Len(catalog[m]) = Len(catalog[m])
      /\ 0 + Len(catalog[m]) <= Len(catalog[m])
  BY <1>4
<1>7. Read(IndexOf(m), 0, Len(catalog[m])) =
        LET j == CHOOSE k \in Listed : IndexOf(k) = IndexOf(m)
        IN  SubSeq(catalog[j], 0 + 1, 0 + Len(catalog[m]))
  BY <1>6, Zenon DEF Read
<1> QED
  BY <1>3, <1>5, <1>6, <1>7, Zenon

\* The inductive strengthening: a described index is the index of its name.
ViewInv == \A i \in Index : view[i] # NoFile => view[i] \in Listed /\ IndexOf(view[i]) = i

\* A described index keeps denoting the same container until the next start.
THEOREM DescribedSafe == Spec => []DescribedStillServed
<1>1. Init => ViewInv
  BY DEF Init, ViewInv
<1>2. TypeOK /\ ViewInv /\ [Next]_vars => ViewInv'
  <2> SUFFICES ASSUME TypeOK, ViewInv, [Next]_vars
               PROVE  ViewInv'
    OBVIOUS
  <2>1. CASE Start
    BY <2>1 DEF Start, ViewInv
  <2>2. ASSUME NEW i \in Index, Describe(i)
        PROVE  ViewInv'
    <3>1. PICK m \in Listed : IndexOf(m) = i /\ view' = [view EXCEPT ![i] = m]
      BY <2>2 DEF Describe
    <3>2. Listed' = Listed /\ \A k : IndexOf(k)' = IndexOf(k)
      BY <2>2 DEF Describe, Listed, IndexOf
    <3> SUFFICES ASSUME NEW j \in Index, view'[j] # NoFile
                 PROVE  view'[j] \in Listed /\ IndexOf(view'[j]) = j
      BY <3>2 DEF ViewInv, Listed, IndexOf
    <3>3. CASE j = i
      BY <3>1, <3>3 DEF TypeOK
    <3>4. CASE j # i
      BY <3>1, <3>4 DEF TypeOK, ViewInv
    <3> QED
      BY <3>3, <3>4
  <2>3. CASE UNCHANGED <<catalog, view>>
    BY <2>3 DEF ViewInv, Listed, IndexOf
  <2>4. Start \/ (\E i \in Index : Describe(i)) \/ UNCHANGED <<catalog, view>>
    BY DEF Next, vars, Stop, Begin, Write, Fin
  <2> QED
    BY <2>1, <2>2, <2>3, <2>4
<1>3. TypeOK /\ ViewInv => DescribedStillServed
  <2> SUFFICES ASSUME TypeOK, ViewInv, NEW i \in Index, view[i] # NoFile
               PROVE  /\ view[i] \in Listed
                      /\ i < CountMax => i < Count
                      /\ Read(i, 0, Len(catalog[view[i]])) = catalog[view[i]]
    BY DEF DescribedStillServed
  <2>1. view[i] \in Listed /\ IndexOf(view[i]) = i
    BY DEF ViewInv
  <2>2. i < CountMax => i < Count
    BY <2>1, IndexOrder, BoundAssumption DEF Count, Index
  <2> QED
    BY <2>1, <2>2, ReadWhole
<1> QED
  BY <1>1, <1>2, <1>3, TypeCorrect, PTL DEF Spec

=============================================================================
