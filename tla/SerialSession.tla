--------------------------- MODULE SerialSession ---------------------------
(***************************************************************************)
(* A `motatool serve` session on a serial port (cmd_serve in src/main.rs,  *)
(* attach_serial_folder and serve_loop in src/serve.rs): send              *)
(* `ota folder on`, serve requests while waiting for the node's            *)
(* acknowledgement, repeat the command while it seems lost, then serve     *)
(* until Ctrl-C or the link closes, and send `ota folder off`.             *)
(*                                                                         *)
(* Time counts LINK_TIMEOUTs since the first command.  One loop iteration  *)
(* is one step: it checks stop and the deadline, pumps once, reacts to the *)
(* event and may repeat the command.  The clock stops at the deadline:     *)
(* nothing tells later times apart.                                        *)
(***************************************************************************)
EXTENDS StreamPump

CONSTANTS
    Ack,         \* texts that read as `OK folder attached` / `refreshed`
    Err,         \* texts that read as `ERR ...`
    RetryAfter,  \* policy.retry_after
    Timeout,     \* policy.timeout
    MaxAttempts  \* policy.max_attempts

ASSUME PolicyAssumption ==
    /\ Ack \subseteq Byte /\ Err \subseteq Byte /\ Ack \cap Err = {}
    /\ RetryAfter \in Nat /\ Timeout \in Nat /\ MaxAttempts \in Nat \ {0}

VARIABLES
    phase,          \* where cmd_serve is
    stop,           \* set by the Ctrl-C handler
    now,            \* time since the first command
    attempts,       \* commands sent
    retry_at,       \* earliest time of the next one
    protocol_seen,  \* a request, whole or damaged, was seen while attaching
    link,           \* "up", or "down" after a failed write or a close
    onAt,           \* history: when commands were sent, as positions in raw
    last,           \* history: last command written
    turn            \* parity of serve_loop's iterations, so that an idle one is a step

sessionVars == <<phase, stop, now, attempts, retry_at, protocol_seen, link, onAt, last, turn>>
vars == <<pumpVars, sessionVars>>

Phases == {"settle", "attach", "attached", "serve", "detach", "exit"}

Init ==
    /\ PumpInit
    /\ phase = "settle" /\ stop = FALSE /\ link = "up"
    /\ now = 0 /\ attempts = 0 /\ retry_at = 0 /\ protocol_seen = FALSE
    /\ onAt = {} /\ last = "none" /\ turn = 0

----------------------------------------------------------------------------

\* the Ctrl-C handler
CtrlC ==
    /\ ~stop
    /\ stop' = TRUE
    /\ UNCHANGED <<pumpVars, phase, now, attempts, retry_at, protocol_seen, link, onAt, last, turn>>

\* send_folder_on: on failure cmd_serve gives the session up
SendOn(at, spill, next) ==
    \/ /\ attempts' = attempts + 1
       /\ onAt' = onAt \cup {[at |-> at, spill |-> spill]}
       /\ last' = "on" /\ phase' = next /\ UNCHANGED link
    \/ /\ phase' = "detach" /\ link' = "down"
       /\ UNCHANGED <<attempts, onAt, last>>

\* the port settles, then the first command
Enable ==
    /\ phase = "settle"
    /\ IF stop THEN phase' = "detach" /\ UNCHANGED <<attempts, onAt, last, link>>
               ELSE SendOn(0, FALSE, "attach")
    /\ retry_at' = RetryAfter
    /\ UNCHANGED <<pumpVars, stop, now, protocol_seen, turn>>

\* MUTANT of GiveUp: a failed handshake returns without the off command
GiveUpAttached ==
    /\ phase = "attach"
    /\ stop \/ now >= Timeout
    /\ phase' = "exit"
    /\ UNCHANGED <<pumpVars, stop, now, attempts, retry_at, protocol_seen, link, onAt, last, turn>>

\* MUTANT of GiveUp: no deadline
GiveUpOnStop ==
    /\ phase = "attach"
    /\ stop
    /\ phase' = "detach"
    /\ UNCHANGED <<pumpVars, stop, now, attempts, retry_at, protocol_seen, link, onAt, last, turn>>

\* stopped, or past the deadline: bail out before pumping
GiveUp ==
    /\ phase = "attach"
    /\ stop \/ now >= Timeout
    /\ phase' = "detach"
    /\ UNCHANGED <<pumpVars, stop, now, attempts, retry_at, protocol_seen, link, onAt, last, turn>>

\* silence lasts a LINK_TIMEOUT at least; a request may drip in slowly
Elapse == now' \in (IF event'.kind = "Timeout" THEN now + 1 ELSE now)..Timeout

\* normalize_console_reply, then the prefix tests on the line's first text
Reply(texts) == event'.kind = "DeviceLine" /\ Head(event'.line) \in texts

\* MUTANT of RetryDue: one attempt too many
RetryDueOnceMore ==
    ~protocol_seen' /\ ~pending_m' /\ attempts <= MaxAttempts /\ now' >= retry_at

\* MUTANT of RetryDue: forgets that an M may be half a magic
RetryDueInMagic ==
    ~protocol_seen' /\ attempts < MaxAttempts /\ now' >= retry_at

RetryDue ==
    ~protocol_seen' /\ ~pending_m' /\ attempts < MaxAttempts /\ now' >= retry_at

\* one iteration of the attach loop
AttachStep ==
    /\ phase = "attach" /\ ~stop /\ now < Timeout
    /\ Pump
    /\ Elapse
    /\ protocol_seen' = (protocol_seen \/ event'.kind = "SeederFrame")
    /\ CASE event'.kind = "Closed" \/ Reply(Err) ->
              /\ phase' = "detach"
              /\ link' = IF event'.kind = "Closed" THEN "down" ELSE link
              /\ UNCHANGED <<attempts, retry_at, onAt, last>>
         [] Reply(Ack) ->
              phase' = "attached" /\ UNCHANGED <<attempts, retry_at, link, onAt, last>>
         [] OTHER ->
              IF RetryDue
                THEN /\ SendOn(Len(raw'), deferred' # None, "attach")
                     /\ retry_at' = now' + RetryAfter
                ELSE UNCHANGED <<phase, attempts, retry_at, link, onAt, last>>
    /\ UNCHANGED <<stop, turn>>

\* serve_loop starts with a fresh StreamState
StartServing ==
    /\ phase = "attached"
    /\ phase' = "serve"
    /\ pending_m' = FALSE /\ deferred' = None /\ line' = <<>>
    /\ UNCHANGED <<event, raw, text, handled, stop, now, attempts, retry_at,
                   protocol_seen, link, onAt, last, turn>>

\* MUTANT of ServeStep: looks at stop only when the link is idle
ServeStepBusy ==
    /\ phase = "serve"
    /\ Pump
    /\ phase' = IF event'.kind = "Closed" \/ (stop /\ event'.kind = "Activity")
                  THEN "detach" ELSE "serve"
    /\ link' = IF event'.kind = "Closed" THEN "down" ELSE link
    /\ turn' = 1 - turn
    /\ UNCHANGED <<stop, now, attempts, retry_at, protocol_seen, onAt, last>>

ServeStep ==
    /\ phase = "serve"
    /\ IF stop
         THEN phase' = "detach" /\ UNCHANGED <<pumpVars, link>>
         ELSE /\ Pump
              /\ phase' = IF event'.kind = "Closed" THEN "detach" ELSE "serve"
              /\ link' = IF event'.kind = "Closed" THEN "down" ELSE link
    /\ turn' = 1 - turn
    /\ UNCHANGED <<stop, now, attempts, retry_at, protocol_seen, onAt, last>>

\* detach_serial_folder, on the way out of every session
Detach ==
    /\ phase = "detach"
    /\ phase' = "exit"
    /\ \/ link = "up" /\ last' = "off" /\ UNCHANGED link
       \/ link' = "down" /\ UNCHANGED last
    /\ UNCHANGED <<pumpVars, stop, now, attempts, retry_at, protocol_seen, onAt, turn>>

Host == Enable \/ GiveUp \/ AttachStep \/ StartServing \/ ServeStep \/ Detach

Exited == phase = "exit" /\ UNCHANGED vars

Next == CtrlC \/ Host \/ Exited

\* The host process is scheduled: a read returns within LINK_TIMEOUT, so a
\* loop iteration always ends.  Nothing is assumed of the device: silence is
\* an iteration too.
Spec == Init /\ [][Next]_vars /\ WF_vars(Host)

----------------------------------------------------------------------------
(* Properties.                                                             *)

\* Type correctness of the session's own state.
TypeOK ==
    /\ PumpTypeOK
    /\ phase \in Phases /\ link \in {"up", "down"} /\ last \in {"none", "on", "off"}
    /\ stop \in BOOLEAN /\ protocol_seen \in BOOLEAN
    /\ now \in 0..Timeout /\ retry_at \in 0..(Timeout + RetryAfter)
    /\ attempts \in 0..MaxAttempts /\ turn \in 0..1

NoFrameUpTo(p) == \A i \in 1..p : FrameEnd(raw, i) = i

\* The text command is never repeated once the host has read any part of a
\* request: neither after one, whole or damaged, nor between its two magic
\* bytes.  (When a full line buffer was flushed while the byte was held back
\* the last byte is excepted: see RetryBeforeFraming.)
RetryOutsideFraming ==
    \A on \in onAt : NoFrameUpTo(on.at - (IF on.spill THEN 1 ELSE 0))

\* attach_serial_folder's comment: a lost first command "is retried only
\* until binary framing appears, after which sending ASCII would be unsafe".
RetryBeforeFraming ==
    \A on \in onAt : NoFrameUpTo(on.at)

\* A session that ends leaves the console out of folder mode: the last thing
\* written is the off command, unless the link failed.
ConsoleReleased == phase = "exit" => last = "off" \/ link = "down"

\* A session whose command was written is retried or acknowledged or given
\* up: attaching always ends, acknowledged or not.
AttachEnds == phase = "attach" ~> phase \in {"attached", "detach"}

\* Ctrl-C always ends the session, in whatever state it comes.
StopEndsSession == stop ~> phase = "exit"

=============================================================================
