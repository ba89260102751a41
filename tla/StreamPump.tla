----------------------------- MODULE StreamPump -----------------------------
(***************************************************************************)
(* StreamState::pump (src/serve.rs): console text and binary seeder        *)
(* requests share one byte stream.  A request is `M S op header [data]     *)
(* xsum`; everything else is text, cut into lines at a newline or when a   *)
(* line outgrows its buffer.  One pump step consumes one byte, or a whole  *)
(* request once its magic was seen, and reports one event.                 *)
(*                                                                         *)
(* The device is unconstrained: it may send any byte next, fall silent in  *)
(* the middle of a request, or hang up.  `raw` records what the host has   *)
(* read, with Gap where a request was cut short by a timeout or a close.   *)
(***************************************************************************)
EXTENDS Integers, Sequences

CONSTANTS
    Byte,           \* the bytes the device sends
    M, S,           \* the request magic
    NL,             \* '\n'
    Eol,            \* what trim_end_matches strips: '\r' and '\n'
    KnownOp,        \* opcodes with a request_header_len
    HeaderLen(_),   \* request_header_len
    DataLen(_, _),  \* length of the data an op with this header announces
    Checksum(_, _), \* xor of op and args
    WriteMax,       \* longest data read_request accepts
    LineMax,        \* length at which an unfinished line is flushed (512)
    Gap,            \* mark of a cut-short request in raw
    None,           \* no deferred byte
    MaxBytes        \* bound: what the device sends in one session

ASSUME ByteAssumption ==
    /\ {M, S, NL} \subseteq Byte /\ M # S /\ M # NL /\ S # NL
    /\ KnownOp \subseteq Byte \ {M, S}
    /\ NL \in Eol /\ M \notin Eol /\ S \notin Eol
    /\ Gap \notin Byte /\ None \notin Byte
ASSUME FormatAssumption ==
    \A op \in KnownOp :
        HeaderLen(op) \in Nat /\ \A h \in [1..HeaderLen(op) -> Byte] : DataLen(op, h) \in Nat
ASSUME LimitAssumption == LineMax \in Nat \ {0} /\ WriteMax \in Nat /\ MaxBytes \in Nat

VARIABLES
    pending_m,  \* an M was read and may be the first byte of the magic
    deferred,   \* byte to look at before reading on, or None
    line,       \* unfinished line of console text
    event,      \* what the last pump returned
    raw,        \* history: everything read from the link
    text,       \* history: everything pushed as console text
    handled     \* history: requests passed to SeederCore::handle, in order

stream == <<pending_m, deferred, line>>
pumpVars == <<pending_m, deferred, line, event, raw, text, handled>>

Event(kind) == [kind |-> kind, line |-> <<>>]
DeviceLine(l) == [kind |-> "DeviceLine", line |-> l]

PumpInit ==
    /\ pending_m = FALSE /\ deferred = None /\ line = <<>>
    /\ event = Event("Activity")
    /\ raw = <<>> /\ text = <<>> /\ handled = <<>>

----------------------------------------------------------------------------
(* Lines.                                                                  *)

TrimEnd(l) ==
    LET k == CHOOSE n \in 0..Len(l) : /\ \A i \in (n + 1)..Len(l) : l[i] \in Eol
                                      /\ n > 0 => l[n] \notin Eol
    IN  SubSeq(l, 1, k)

\* MUTANT of PushText: checks the length before the byte is pushed
PushTextLate(l, b) ==
    IF b # NL /\ Len(l) <= LineMax
      THEN [line |-> Append(l, b), out |-> <<>>]
      ELSE [line |-> <<>>, out |-> TrimEnd(Append(l, b))]

\* push_text: the new unfinished line, and the finished one (<<>> for none)
PushText(l, b) ==
    IF b # NL /\ Len(l) + 1 <= LineMax
      THEN [line |-> Append(l, b), out |-> <<>>]
      ELSE [line |-> <<>>, out |-> TrimEnd(Append(l, b))]

\* push_literal on the magic: both bytes are pushed, the first line wins
PushMagic(l) ==
    LET m == PushText(l, M)
        s == PushText(m.line, S)
    IN  [line |-> s.line, out |-> IF m.out # <<>> THEN m.out ELSE s.out]

\* accept_unframed, with the line and the text pushed so far
AcceptUnframed(b, l, t) ==
    LET r == PushText(l, b) IN
    /\ deferred' = None
    /\ pending_m' = (b = M)
    /\ line' = IF b = M THEN l ELSE r.line
    /\ text' = IF b = M THEN t ELSE Append(t, b)
    /\ event' = IF b # M /\ r.out # <<>> THEN DeviceLine(r.out) ELSE Event("Activity")

----------------------------------------------------------------------------
(* Reading.                                                                *)

\* the next byte: the deferred one, or one read from the link
NextByte(b) ==
    IF deferred # None THEN b = deferred /\ raw' = raw
                       ELSE Len(raw) < MaxBytes /\ raw' = Append(raw, b)

\* read_request, r being the bytes it got after the magic: it has a whole
\* request, gives up on a runaway length, or timed out before its end
Op(r) == r[1]
Header(r) == SubSeq(r, 2, 1 + HeaderLen(Op(r)))
HasHeader(r) == r # <<>> /\ Len(r) >= 1 + HeaderLen(Op(r))
FrameLen(r) == 2 + HeaderLen(Op(r)) + DataLen(Op(r), Header(r))
Runaway(r) == HasHeader(r) /\ DataLen(Op(r), Header(r)) > WriteMax
Args(r) == SubSeq(r, 2, Len(r) - 1)

Whole(r) == HasHeader(r) /\ ~Runaway(r) /\ Len(r) = FrameLen(r)
Short(r) == HasHeader(r) => ~Runaway(r) /\ Len(r) < FrameLen(r)
Stopped(r) == Runaway(r) /\ Len(r) = 1 + HeaderLen(Op(r))
ValidFrame(r) == Whole(r) /\ r[Len(r)] = Checksum(Op(r), Args(r))

\* what the device may send after MS: nothing, or an opcode and more
FrameBytes ==
    UNION {{r \in [1..n -> Byte] : n > 0 => r[1] \in KnownOp} : n \in 0..(MaxBytes - Len(raw) - 1)}

----------------------------------------------------------------------------
(* One pump.                                                               *)

\* nothing arrives within LINK_TIMEOUT, or the link is closed
PumpIdle(kind) ==
    /\ deferred = None
    /\ event' = Event(kind)
    /\ UNCHANGED <<pending_m, deferred, line, raw, text, handled>>

\* a byte outside any magic
PumpText ==
    /\ ~pending_m
    /\ \E b \in Byte : NextByte(b) /\ AcceptUnframed(b, line, text)
    /\ UNCHANGED handled

\* the pending M was text after all: push it, then look at the byte again
PumpBrokenMagic ==
    /\ pending_m
    /\ \E b \in Byte \ {S} :
         LET m == PushText(line, M) IN
         /\ NextByte(b)
         /\ IF m.out # <<>>
              THEN /\ pending_m' = FALSE /\ deferred' = b
                   /\ line' = m.line /\ text' = Append(text, M)
                   /\ event' = DeviceLine(m.out)
              ELSE AcceptUnframed(b, m.line, Append(text, M))
    /\ UNCHANGED handled

\* MUTANT of PumpUnknownOp: forgets the opcode when MS completes a line
PumpUnknownOpLost ==
    /\ pending_m /\ deferred = None
    /\ \E op \in Byte \ KnownOp :
         LET ms == PushMagic(line)
             t  == text \o <<M, S>> IN
         /\ Len(raw) + 2 <= MaxBytes /\ raw' = raw \o <<S, op>>
         /\ IF ms.out # <<>>
              THEN /\ pending_m' = FALSE /\ deferred' = None
                   /\ line' = ms.line /\ text' = t
                   /\ event' = DeviceLine(ms.out)
              ELSE AcceptUnframed(op, ms.line, t)
    /\ UNCHANGED handled

\* MS and an undefined opcode: both bytes are text, the opcode is looked at
\* again so that an overlapping magic is found
PumpUnknownOp ==
    /\ pending_m /\ deferred = None
    /\ \E op \in Byte \ KnownOp :
         LET ms == PushMagic(line)
             t  == text \o <<M, S>> IN
         /\ Len(raw) + 2 <= MaxBytes /\ raw' = raw \o <<S, op>>
         /\ IF ms.out # <<>>
              THEN /\ pending_m' = FALSE /\ deferred' = op
                   /\ line' = ms.line /\ text' = t
                   /\ event' = DeviceLine(ms.out)
              ELSE AcceptUnframed(op, ms.line, t)
    /\ UNCHANGED handled

\* MUTANT of PumpFrame: a request is handled whatever its checksum
PumpFrameUnchecked ==
    /\ pending_m /\ deferred = None
    /\ \E r \in FrameBytes :
         /\ Short(r) \/ Stopped(r) \/ Whole(r)
         /\ raw' = raw \o <<S>> \o r \o (IF Short(r) THEN <<Gap>> ELSE <<>>)
         /\ Len(raw') <= MaxBytes
         /\ handled' = IF Whole(r) THEN Append(handled, <<Op(r), Args(r)>>) ELSE handled
    /\ pending_m' = FALSE
    /\ line' = <<>>
    /\ event' = Event("SeederFrame")
    /\ UNCHANGED <<deferred, text>>

\* MUTANT of PumpFrame: the unfinished line survives a damaged request
PumpFrameKeepsLine ==
    /\ pending_m /\ deferred = None
    /\ \E r \in FrameBytes :
         /\ Short(r) \/ Stopped(r) \/ Whole(r)
         /\ raw' = raw \o <<S>> \o r \o (IF Short(r) THEN <<Gap>> ELSE <<>>)
         /\ Len(raw') <= MaxBytes
         /\ handled' = IF ValidFrame(r)
                         THEN Append(handled, <<Op(r), Args(r)>>) ELSE handled
         /\ line' = IF ValidFrame(r) THEN <<>> ELSE line
    /\ pending_m' = FALSE
    /\ event' = Event("SeederFrame")
    /\ UNCHANGED <<deferred, text>>

\* MS and a known opcode, or silence after MS: a request, whole or damaged.
\* Either way it is a hard boundary for console text.
PumpFrame ==
    /\ pending_m /\ deferred = None
    /\ \E r \in FrameBytes :
         /\ Short(r) \/ Stopped(r) \/ Whole(r)
         /\ raw' = raw \o <<S>> \o r \o (IF Short(r) THEN <<Gap>> ELSE <<>>)
         /\ Len(raw') <= MaxBytes
         /\ handled' = IF ValidFrame(r)
                         THEN Append(handled, <<Op(r), Args(r)>>) ELSE handled
    /\ pending_m' = FALSE
    /\ line' = <<>>
    /\ event' = Event("SeederFrame")
    /\ UNCHANGED <<deferred, text>>

Pump ==
    \/ PumpIdle("Timeout") \/ PumpIdle("Closed")
    \/ PumpText \/ PumpBrokenMagic \/ PumpUnknownOp \/ PumpFrame

\* the callers stop pumping once the link is closed
PumpNext == event.kind # "Closed" /\ Pump

PumpSpec == PumpInit /\ [][PumpNext]_pumpVars

----------------------------------------------------------------------------
(* Reference reading of a byte stream, left to right and all at once.      *)

FirstGap(s, i, j) == {k \in i..j : k <= Len(s) /\ s[k] = Gap}
After(gaps, end) == IF gaps = {} THEN end ELSE (CHOOSE g \in gaps : \A h \in gaps : g <= h) + 1

\* where the request that starts at i ends (i itself if none starts there)
FrameEnd(s, i) ==
    IF ~(i + 2 <= Len(s) /\ s[i] = M /\ s[i + 1] = S) THEN i
    ELSE IF s[i + 2] = Gap THEN i + 3
    ELSE IF s[i + 2] \notin KnownOp THEN i
    ELSE LET h == i + 3 + HeaderLen(s[i + 2])
             gh == FirstGap(s, i + 3, h - 1)
             d == DataLen(s[i + 2], SubSeq(s, i + 3, h - 1))
         IN  IF gh # {} THEN After(gh, h)
             ELSE IF d > WriteMax THEN h
             ELSE After(FirstGap(s, h, h + d), h + d + 1)

\* a request starts at i, and ends in s
FrameAt(s, i) == FrameEnd(s, i) \in (i + 1)..(Len(s) + 1)

\* where to read on after position i
NextStart(s, i) == IF FrameAt(s, i) THEN FrameEnd(s, i) ELSE i + 1

\* what position i adds to the text: itself, outside requests
TextPiece(s, i) == IF FrameAt(s, i) THEN <<>> ELSE <<s[i]>>

\* what it adds to the requests: the one that starts there, if it is whole and
\* its checksum is right
RequestPiece(s, i) ==
    LET r == SubSeq(s, i + 2, FrameEnd(s, i) - 1)
    IN  IF FrameAt(s, i) /\ (\A k \in 1..Len(r) : r[k] # Gap) /\ ValidFrame(r)
          THEN <<<<Op(r), Args(r)>>>> ELSE <<>>

\* The pieces of positions 1 to L put together, from every position on
Reading(L, piece, next) ==
    LET T[i \in 1..(L + 1)] == IF i = L + 1 THEN <<>> ELSE piece[i] \o T[next[i]]
    IN  T

Starts(s) == [i \in 1..Len(s) |-> NextStart(s, i)]
TextFrom(s) == Reading(Len(s), [i \in 1..Len(s) |-> TextPiece(s, i)], Starts(s))
RequestsFrom(s) == Reading(Len(s), [i \in 1..Len(s) |-> RequestPiece(s, i)], Starts(s))

TextOf(s) == TextFrom(s)[1]
RequestsOf(s) == RequestsFrom(s)[1]

----------------------------------------------------------------------------
(* Properties.                                                             *)

Held == (IF pending_m THEN <<M>> ELSE <<>>) \o (IF deferred # None THEN <<deferred>> ELSE <<>>)

\* Type correctness, the line buffer's bound included: a line never outgrows
\* LineMax, and a byte is never deferred while an M is pending.
PumpTypeOK ==
    /\ pending_m \in BOOLEAN
    /\ deferred \in Byte \cup {None}
    /\ line \in Seq(Byte) /\ Len(line) <= LineMax
    /\ pending_m => deferred = None

\* No byte of console text is lost, duplicated or reordered, and no byte of a
\* request leaks into it: the bytes pushed as text, with the ones still held
\* back, are exactly the stream without its requests.  This covers a split
\* or overlapping magic and a line flushed in the middle of one.
TextConserved == TextOf(raw) = text \o Held

\* Every whole request with a right checksum is handled exactly once, in
\* order, and nothing else is: damage costs the damaged request only.
RequestsHandledOnce == handled = RequestsOf(raw)

\* The unfinished line is an unbroken run of the most recent bytes: text from
\* before a request, whole or damaged, never becomes the prefix of a line
\* completed after it (an acknowledgement glued to a stale fragment).
LineContiguous ==
    LET l == line \o Held
    IN  Len(l) <= Len(raw) /\ SubSeq(raw, Len(raw) - Len(l) + 1, Len(raw)) = l

=============================================================================
