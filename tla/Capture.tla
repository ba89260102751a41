------------------------------ MODULE Capture ------------------------------
(***************************************************************************)
(* Pull-to-folder end to end: a node streams the container Image to the    *)
(* host's store (SeederStore) over a link that loses requests and replies, *)
(* while the host may fail a file write, crash and be started again.       *)
(*                                                                         *)
(* The node's firmware is not in this repository.  It is modelled from the *)
(* protocol it must speak and from what README.md says of `ota pull ...    *)
(* folder validate`: one request at a time, repeated when no answer comes; *)
(* STAT to resume; SREAD to compare a chunk with the authenticated leaves  *)
(* and WRITE where it differs; FIN when every chunk is right.  A reply     *)
(* carries its opcode and nothing else that ties it to its request.        *)
(***************************************************************************)
EXTENDS Integers, Sequences, FiniteSets

CONSTANTS
    Mid, Cell, Blank, Hole, NoFile, Seed, SeedOff, Declared(_), Valid(_),
    WriteMax, LeftBehind, MaxTotal, CountMax,   \* see SeederStore
    Target,        \* the mid being captured
    Image,         \* its container
    PayloadOff,    \* chunks of it before the payload: header, manifest, leaves
    EarlyTimeout,  \* whether the node may give up on an answer still coming
    MaxQueue,      \* bound: requests and replies in flight
    MaxFailures    \* bound: I/O errors and crashes

ASSUME FolderAssumption ==
    /\ {Blank, Hole} \subseteq Cell /\ NoFile \notin Seq(Cell) \cup Mid
    /\ Seed \in Seq(Cell) /\ SeedOff \in Nat
    /\ LeftBehind \subseteq Seq(Cell) \cup {NoFile}
    /\ CountMax \in Nat
ASSUME ImageAssumption ==
    /\ Target \in Mid
    /\ Image \in Seq(Cell) /\ Image # <<>> /\ Declared(Image[1]) = Len(Image)
ASSUME NodeAssumption ==
    EarlyTimeout \in BOOLEAN /\ MaxQueue \in Nat /\ MaxFailures \in Nat

VARIABLES
    part, done, up, catalog, view, captured, renewed,
    req,       \* requests on the way to the host
    rsp,       \* replies on the way to the node
    step,      \* operation the node is at
    at,        \* chunk it is at
    have,      \* chunks it knows are right in the store
    waiting,   \* a request is unanswered
    failures   \* I/O errors and crashes so far

Store == INSTANCE SeederStore

store == <<part, done, up, catalog, view, captured, renewed>>
node == <<step, at, have, waiting>>
vars == <<store, req, rsp, node, failures>>

Init ==
    /\ Store!Init
    /\ req = <<>> /\ rsp = <<>>
    /\ step = "stat" /\ at = 1 /\ have = {} /\ waiting = FALSE
    /\ failures = 0

----------------------------------------------------------------------------
(* The node.                                                               *)

\* send the request of the current step, or send it again
Send ==
    /\ step # "done"
    /\ Len(req) < MaxQueue
    /\ waiting => EarlyTimeout \/ (req = <<>> /\ rsp = <<>>)
    /\ req' = Append(req, [op |-> step, at |-> at])
    /\ waiting' = TRUE
    /\ UNCHANGED <<store, rsp, step, at, have, failures>>

\* the next chunk that is not known to be right, or FIN
Advance(known) ==
    /\ have' = known
    /\ IF known = 1..Len(Image) THEN step' = "fin" /\ UNCHANGED at
       ELSE /\ step' = "sread"
            /\ at' = CHOOSE i \in (1..Len(Image)) \ known : \A j \in 1..(i - 1) : j \in known

\* an answer to the current step; any other is left over and dropped
Receive ==
    /\ rsp # <<>>
    /\ rsp' = Tail(rsp)
    /\ LET r == Head(rsp) IN
       IF ~waiting \/ r.op # step THEN UNCHANGED node
       ELSE /\ waiting' = FALSE
            /\ CASE step = "stat" /\ r.data = <<1, Len(Image)>> -> Advance({})
                 [] step = "stat" /\ r.data # <<1, Len(Image)>> ->
                      step' = "begin" /\ UNCHANGED <<at, have>>
                 [] step = "begin" /\ r.ok -> Advance({})
                 [] step = "sread" /\ r.ok /\ r.data = <<Image[at]>> -> Advance(have \cup {at})
                 [] step = "sread" /\ ~(r.ok /\ r.data = <<Image[at]>>) ->
                      step' = "write" /\ UNCHANGED <<at, have>>
                 [] step = "write" /\ r.ok -> Advance(have \cup {at})
                 [] step = "write" /\ ~r.ok -> step' = "begin" /\ UNCHANGED <<at, have>>
                 [] step = "fin" /\ r.ok -> step' = "done" /\ UNCHANGED <<at, have>>
                 [] step \in {"begin", "fin"} /\ ~r.ok -> step' = "stat" /\ UNCHANGED <<at, have>>
    /\ UNCHANGED <<store, req, failures>>

----------------------------------------------------------------------------
(* The host: serve_loop answers one request after the other.               *)

Reply(op, ok, data) == rsp' = Append(rsp, [op |-> op, ok |-> ok, data |-> data])

\* SeederCore::handle_storage, when nothing goes wrong
HostOp(r) ==
    \/ /\ r.op = "stat"
       /\ Reply("stat", TRUE, Store!Stat(Target)) /\ UNCHANGED store
    \/ /\ r.op = "sread"
       /\ LET d == Store!SRead(Target, r.at - 1, 1) IN Reply("sread", d # NoFile, d)
       /\ UNCHANGED store
    \/ /\ r.op = "begin"
       /\ Store!Begin(Target, Len(Image), Len(Image), FALSE) /\ Reply("begin", TRUE, NoFile)
    \/ /\ r.op = "write"
       /\ Store!Write(Target, r.at - 1, <<Image[r.at]>>, 1, FALSE) /\ Reply("write", TRUE, NoFile)
    \/ /\ r.op = "write" /\ part[Target] = NoFile
       /\ Reply("write", FALSE, NoFile) /\ UNCHANGED store
    \/ /\ r.op = "fin"
       /\ Store!Fin(Target) /\ Reply("fin", TRUE, NoFile)
    \/ /\ r.op = "fin" /\ ~Store!Publishable(part[Target])
       /\ Reply("fin", FALSE, NoFile) /\ UNCHANGED store

Serve ==
    /\ up /\ req # <<>>
    /\ Len(rsp) < MaxQueue
    /\ HostOp(Head(req))
    /\ req' = Tail(req)
    /\ UNCHANGED <<node, failures>>

\* MUTANT of FailWrite: the error of a file write is ignored
FailWriteIgnored(r, n, crash) ==
    /\ \/ r.op = "begin" /\ n < Len(Image) /\ Store!Begin(Target, Len(Image), n, crash)
       \/ r.op = "write" /\ n = 0 /\ Store!Write(Target, r.at - 1, <<Image[r.at]>>, 0, crash)
    /\ IF crash THEN req' = <<>> /\ UNCHANGED rsp
                ELSE req' = Tail(req) /\ Reply(r.op, TRUE, NoFile)

\* an I/O error (answered ERR) or a crash in the middle of a file write
FailWrite(r, n, crash) ==
    /\ \/ r.op = "begin" /\ n < Len(Image) /\ Store!Begin(Target, Len(Image), n, crash)
       \/ r.op = "write" /\ n = 0 /\ Store!Write(Target, r.at - 1, <<Image[r.at]>>, 0, crash)
    /\ IF crash THEN req' = <<>> /\ UNCHANGED rsp
                ELSE req' = Tail(req) /\ Reply(r.op, FALSE, NoFile)

Fail ==
    /\ failures < MaxFailures
    /\ failures' = failures + 1
    /\ \/ /\ up /\ req # <<>> /\ Len(rsp) < MaxQueue
          /\ \E n \in 0..Len(Image), crash \in BOOLEAN : FailWrite(Head(req), n, crash)
       \/ Store!Stop /\ req' = <<>> /\ UNCHANGED rsp
    /\ UNCHANGED node

Start == Store!Start /\ UNCHANGED <<req, rsp, node, failures>>

----------------------------------------------------------------------------
(* The link: a damaged request is discarded by the host (MalformedKnown),  *)
(* a damaged reply by the node; nobody reads while the host is down.       *)

LoseRequest == req # <<>> /\ req' = Tail(req) /\ UNCHANGED <<store, rsp, node, failures>>
LoseReply == rsp # <<>> /\ rsp' = Tail(rsp) /\ UNCHANGED <<store, req, node, failures>>

\* nothing left to do
Finished == step = "done" /\ req = <<>> /\ rsp = <<>> /\ UNCHANGED vars

Next ==
    \/ Send \/ Receive \/ Serve \/ Fail \/ Start
    \/ LoseRequest \/ LoseReply \/ Finished

\* The host is started again, both sides keep running, and a link that is
\* used again and again does not lose everything.
Fairness == /\ WF_vars(Start) /\ WF_vars(Send)
            /\ SF_vars(Serve) /\ SF_vars(Receive)

Spec == Init /\ [][Next]_vars /\ Fairness

----------------------------------------------------------------------------
(* Properties.                                                             *)

\* Type correctness of the protocol state, and the store's.
TypeOK ==
    /\ Store!TypeOK
    /\ step \in {"stat", "begin", "sread", "write", "fin", "done"}
    /\ at \in 1..Len(Image) /\ have \in SUBSET (1..Len(Image))
    /\ waiting \in BOOLEAN /\ failures \in 0..MaxFailures
    /\ Len(req) <= MaxQueue /\ Len(rsp) <= MaxQueue

\* What the node believes is right in the store is right there, through lost
\* and repeated requests, failed writes, crashes and a staged seed.
BelievedChunksStored ==
    step \in {"sread", "write", "fin"} =>
        LET f == IF part[Target] # NoFile THEN part[Target] ELSE done[Target]
        IN  \A i \in have : f # NoFile /\ i <= Len(f) /\ f[i] = Image[i]

\* README.md promises a byte-exact capture: the published file is the node's
\* container and nothing else, whatever the seed and the folder held.
CaptureExact == Target \in captured => done[Target] = Image

\* begin_part's comment: "Header + leaves stay `0xFF` -- the node writes those
\* as it fetches": in a complete .part they are blank or what the node wrote.
HeaderAndLeavesBlank ==
    part[Target] # NoFile /\ Len(part[Target]) = Len(Image) =>
        \A i \in 1..PayloadOff : part[Target][i] \in {Blank, Image[i]}

\* The store implements the promise of Publication.
Abstract == INSTANCE Publication WITH published <- done[Target], Before <- LeftBehind
CaptureImplements == Abstract!Spec
CapturePublishes == Abstract!Safety

=============================================================================
