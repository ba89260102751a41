---------------------------- MODULE SeederStore ----------------------------
(***************************************************************************)
(* The folder behind `motatool serve` (src/serve.rs): the catalogue of     *)
(* verified containers handed out by COUNT / DESCRIBE / READ, and the      *)
(* pull-to-folder store in which a node captures a container through STAT, *)
(* BEGIN, WRITE, SREAD and FIN.  The client is unconstrained here: any     *)
(* request the framing lets through may arrive at any time, an I/O error   *)
(* or a crash may cut any file write short, and the server may be started  *)
(* again over whatever the last run left in the folder.                    *)
(*                                                                         *)
(* A file is a sequence of cells.  Cell 1 stands for the 8-byte head       *)
(* (MAGIC and declared size), the others for chunks of the container; the  *)
(* name of a file is its mid, and mids are ordered as file names sort.     *)
(***************************************************************************)
EXTENDS Integers, Sequences, FiniteSets

CONSTANTS
    Mid,          \* capture keys, and the names of the .mota files
    Cell,         \* what a chunk of a file may hold
    Blank,        \* 0xFF, what BEGIN fills a .part with
    Hole,         \* 0x00, what a write past the end leaves behind it
    NoFile,       \* the file does not exist
    Seed,         \* payload staged by BEGIN (<<>> without --seed)
    SeedOff,      \* where the SEED's payload starts, from its own block count
    Declared(_),  \* size a head cell declares, -1 when it lacks MAGIC
    Valid(_),     \* verify() finds no problem with this content
    WriteMax,     \* cells one WRITE may carry
    LeftBehind,   \* what the files of the folder may hold at the first start
    MaxTotal,     \* bound: largest .part BEGIN asks for and WRITE grows
    CountMax      \* largest value of a count or index byte (255)

File == Seq(Cell)
FileOrNone == File \cup {NoFile}
Index == 0..CountMax

ASSUME MidAssumption == Mid \subseteq Nat /\ IsFiniteSet(Mid) /\ NoFile \notin Mid
ASSUME CellAssumption == Blank \in Cell /\ Hole \in Cell /\ NoFile \notin File
ASSUME SeedAssumption == Seed \in File /\ SeedOff \in Nat \ {0}
ASSUME HeadAssumption == \A c \in Cell : Declared(c) \in Int
ASSUME LeftAssumption == LeftBehind \subseteq FileOrNone
ASSUME BoundAssumption == WriteMax \in Nat /\ MaxTotal \in Nat /\ CountMax \in Nat

VARIABLES
    part,      \* <mid>.mota.part, per mid
    done,      \* <mid>.mota, per mid
    up,        \* the server process runs
    catalog,   \* Folder: the verified containers read at start, per name
    view,      \* history: index -> name, as DESCRIBE told the node this session
    captured,  \* history: mids whose .mota was published by FIN
    renewed    \* history: the same since the last start; all mids before the first

vars == <<part, done, up, catalog, view, captured, renewed>>

----------------------------------------------------------------------------
(* Serving: Folder::scan and the read-only operations.                     *)

\* Folder::scan: every .mota that verifies; a .mota.part has another extension
Scan(files) ==
    [m \in Mid |-> IF files[m] # NoFile /\ Valid(files[m]) THEN files[m] ELSE NoFile]

Listed == {m \in Mid : catalog[m] # NoFile}

\* index of a listed container: catalogue order is path order
IndexOf(m) == Cardinality({k \in Listed : k < m})

\* OP_COUNT: one byte, so the count saturates
Count == IF Cardinality(Listed) < CountMax THEN Cardinality(Listed) ELSE CountMax

\* OP_READ: a slice of the container at an index, or ERR (NoFile)
Read(i, off, len) ==
    IF \E m \in Listed : IndexOf(m) = i /\ off + len <= Len(catalog[m])
      THEN LET m == CHOOSE k \in Listed : IndexOf(k) = i
           IN  SubSeq(catalog[m], off + 1, off + len)
      ELSE NoFile

\* OP_STAT: presence and size, the published file before the partial one
Stat(m) == IF done[m] # NoFile THEN <<1, Len(done[m])>>
           ELSE IF part[m] # NoFile THEN <<1, Len(part[m])>>
           ELSE <<0, 0>>

\* MUTANT of SRead: the published file first, in the order STAT has them
SReadPublished(m, off, len) ==
    LET src == IF done[m] # NoFile THEN done[m] ELSE part[m]
    IN  IF src # NoFile /\ (len = 0 \/ off + len <= Len(src))
          THEN SubSeq(src, off + 1, off + len) ELSE NoFile

\* OP_SREAD: a slice of the partial file before the published one, or ERR
SRead(m, off, len) ==
    LET src == IF part[m] # NoFile THEN part[m] ELSE done[m]
    IN  IF src # NoFile /\ (len = 0 \/ off + len <= Len(src))
          THEN SubSeq(src, off + 1, off + len) ELSE NoFile

----------------------------------------------------------------------------
(* File contents produced by the storage operations.                       *)

\* MUTANT of Fresh: reserves the .part without filling it
FreshUnfilled(total) ==
    [i \in 1..total |-> IF i > SeedOff /\ i - SeedOff <= Len(Seed)
                          THEN Seed[i - SeedOff] ELSE NoFile]

\* begin_part: the blank .part with the seed payload laid over it, cut to fit
Fresh(total) ==
    [i \in 1..total |-> IF i > SeedOff /\ i - SeedOff <= Len(Seed)
                          THEN Seed[i - SeedOff] ELSE Blank]

\* write_at: seek and write; a gap past the end reads as zeros
WriteAt(f, off, data) ==
    IF data = <<>> THEN f
    ELSE [i \in 1..(IF off + Len(data) > Len(f) THEN off + Len(data) ELSE Len(f)) |->
            IF i > off /\ i <= off + Len(data) THEN data[i - off]
            ELSE IF i <= Len(f) THEN f[i] ELSE Hole]

\* publish: head readable, MAGIC there, declared size = size of the file
Publishable(f) == f # NoFile /\ Len(f) > 0 /\ Declared(f[1]) = Len(f)

Prefix(s, n) == SubSeq(s, 1, n)

----------------------------------------------------------------------------
(* Actions.  n counts the cells that reach the file: an I/O error (the     *)
(* request is answered ERR) or a crash leaves a prefix of the write.       *)

Init ==
    /\ part \in [Mid -> LeftBehind]
    /\ done \in [Mid -> LeftBehind]
    /\ up = FALSE
    /\ catalog = [m \in Mid |-> NoFile]
    /\ view = [i \in Index |-> NoFile]
    /\ captured = {}
    /\ renewed = Mid

\* MUTANT of Start: publishes what an interrupted capture left behind
StartRecovers ==
    /\ ~up
    /\ up' = TRUE
    /\ done' = [m \in Mid |-> IF Publishable(part[m]) THEN part[m] ELSE done[m]]
    /\ part' = [m \in Mid |-> IF Publishable(part[m]) THEN NoFile ELSE part[m]]
    /\ catalog' = Scan(done')
    /\ view' = [i \in Index |-> NoFile]
    /\ renewed' = {}
    /\ UNCHANGED captured

\* cmd_serve: scan the folder once; the snapshot serves the whole session
Start ==
    /\ ~up
    /\ up' = TRUE
    /\ catalog' = Scan(done)
    /\ view' = [i \in Index |-> NoFile]
    /\ renewed' = {}
    /\ UNCHANGED <<part, done, captured>>

\* OP_DESCRIBE, answered OK: the node learns what stands at an index
Describe(i) ==
    /\ up
    /\ \E m \in Listed :
         /\ IndexOf(m) = i
         /\ view' = [view EXCEPT ![i] = m]
    /\ UNCHANGED <<part, done, up, catalog, captured, renewed>>

\* MUTANT of Begin: a fresh capture discards the published file
BeginReplaces(m, total, n, crash) ==
    /\ up
    /\ n <= total
    /\ crash => n < total
    /\ part' = [part EXCEPT ![m] = Prefix(Fresh(total), n)]
    /\ done' = [done EXCEPT ![m] = NoFile]
    /\ up' = ~crash
    /\ UNCHANGED <<catalog, view, captured, renewed>>

\* OP_BEGIN: fs::write truncates the .part, then writes it out
Begin(m, total, n, crash) ==
    /\ up
    /\ n <= total
    /\ crash => n < total
    /\ part' = [part EXCEPT ![m] = Prefix(Fresh(total), n)]
    /\ up' = ~crash
    /\ UNCHANGED <<done, catalog, view, captured, renewed>>

\* MUTANT of Write: a write that comes after FIN goes to the published file
WritePublished(m, off, data, n, crash) ==
    /\ up
    /\ part[m] # NoFile \/ done[m] # NoFile
    /\ n <= Len(data)
    /\ crash => n < Len(data)
    /\ IF part[m] # NoFile
         THEN part' = [part EXCEPT ![m] = WriteAt(part[m], off, Prefix(data, n))] /\ UNCHANGED done
         ELSE done' = [done EXCEPT ![m] = WriteAt(done[m], off, Prefix(data, n))] /\ UNCHANGED part
    /\ up' = ~crash
    /\ UNCHANGED <<catalog, view, captured, renewed>>

\* OP_WRITE: opens the .part without creating it
Write(m, off, data, n, crash) ==
    /\ up
    /\ part[m] # NoFile
    /\ n <= Len(data)
    /\ crash => n < Len(data)
    /\ part' = [part EXCEPT ![m] = WriteAt(part[m], off, Prefix(data, n))]
    /\ up' = ~crash
    /\ UNCHANGED <<done, catalog, view, captured, renewed>>

\* MUTANT of Fin: renames without looking
FinUnchecked(m) ==
    /\ up
    /\ part[m] # NoFile
    /\ done' = [done EXCEPT ![m] = part[m]]
    /\ part' = [part EXCEPT ![m] = NoFile]
    /\ captured' = captured \cup {m} /\ renewed' = renewed \cup {m}
    /\ UNCHANGED <<up, catalog, view>>

\* MUTANT of Fin: lists the new file at once, in its place of the catalogue
FinRescans(m) ==
    /\ up
    /\ Publishable(part[m])
    /\ done' = [done EXCEPT ![m] = part[m]]
    /\ part' = [part EXCEPT ![m] = NoFile]
    /\ captured' = captured \cup {m} /\ renewed' = renewed \cup {m}
    /\ catalog' = Scan(done')
    /\ UNCHANGED <<up, view>>

\* OP_FIN: light validation, then an atomic rename over the published file
Fin(m) ==
    /\ up
    /\ Publishable(part[m])
    /\ done' = [done EXCEPT ![m] = part[m]]
    /\ part' = [part EXCEPT ![m] = NoFile]
    /\ captured' = captured \cup {m} /\ renewed' = renewed \cup {m}
    /\ UNCHANGED <<up, catalog, view>>

\* the process ends between two requests
Stop ==
    /\ up
    /\ up' = FALSE
    /\ UNCHANGED <<part, done, catalog, view, captured, renewed>>

Data == UNION {[1..k -> Cell] : k \in 0..WriteMax}

Next ==
    \/ Start
    \/ Stop
    \/ \E i \in Index : Describe(i)
    \/ \E m \in Mid :
         \/ \E total \in 0..MaxTotal, n \in 0..MaxTotal, crash \in BOOLEAN :
              Begin(m, total, n, crash)
         \/ \E off \in 0..MaxTotal, data \in Data, n \in 0..WriteMax, crash \in BOOLEAN :
              off + Len(data) <= MaxTotal /\ Write(m, off, data, n, crash)
         \/ Fin(m)

Spec == Init /\ [][Next]_vars

----------------------------------------------------------------------------
(* Properties.                                                             *)

\* Type correctness of the files, the snapshot and the histories.
TypeOK ==
    /\ part \in [Mid -> FileOrNone]
    /\ done \in [Mid -> FileOrNone]
    /\ catalog \in [Mid -> FileOrNone]
    /\ up \in BOOLEAN
    /\ view \in [Index -> Mid \cup {NoFile}]
    /\ captured \in SUBSET Mid
    /\ renewed \in SUBSET Mid

\* What FIN published stays well formed: whatever requests, I/O errors,
\* crashes and restarts follow, a captured .mota has MAGIC and declares
\* exactly its own size (publish checks the .part; nothing opens the .mota).
CapturedWellFormed == \A m \in captured : Publishable(done[m])

\* Any change of a published file is the rename of its .part over it.
PublishStep ==
    \A m \in Mid : done'[m] # done[m] =>
        /\ part[m] # NoFile
        /\ done'[m] = part[m]
        /\ part'[m] = NoFile

\* A published file only ever changes by becoming, whole, the .part that was
\* just renamed over it: no late WRITE, repeated BEGIN, torn write or crash
\* touches it, and no published file disappears.
PublishAtomic == [][PublishStep]_vars

\* Between two starts only FIN changes what is offered: of every mid that
\* was not published since, the seeder offers after a restart what it offered
\* before it, the same bytes or nothing.  No BEGIN, WRITE, I/O error or crash,
\* on this or another mid, takes a container from the catalogue, adds one or
\* changes it, and nothing a capture left unfinished appears in it.
RestartStep ==
    ~up /\ up' => \A m \in Mid \ renewed : catalog'[m] = catalog[m]

\* The catalogue survives crashes and restarts (Folder::scan over what the
\* last session left in the folder).
RestartKeepsOffer == [][RestartStep]_vars

\* An index the node was told about in this session still denotes the same
\* container, whole: COUNT announces it (unless the count byte saturated),
\* READ returns exactly its bytes, and captures published meanwhile neither
\* renumber the catalogue nor change what is read.
DescribedStillServed ==
    \A i \in Index : view[i] # NoFile =>
        /\ view[i] \in Listed
        /\ i < CountMax => i < Count
        /\ Read(i, 0, Len(catalog[view[i]])) = catalog[view[i]]

\* A container being served still has its file in the folder, the same bytes
\* unless this very mid was captured again since the server started.
ServedBackedByFile ==
    up => \A m \in Mid : catalog[m] # NoFile =>
            /\ done[m] # NoFile
            /\ m \notin renewed => done[m] = catalog[m]

=============================================================================
