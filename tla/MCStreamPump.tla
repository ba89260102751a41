---------------------------- MODULE MCStreamPump ----------------------------
(* Seven bytes of: the magic, COUNT (no header), a WRITE-like op whose one *)
(* header byte announces 0, 1 or too much data, newline and other text.    *)
(* WRITE is "W", COUNT is "C"; its checksum is the opcode itself.          *)
EXTENDS StreamPump

MCByte == {"M", "S", "C", "W", "nl", "x"}
MCEol == {"nl"}
MCKnownOp == {"C", "W"}
MCHeaderLen(op) == IF op = "W" THEN 1 ELSE 0
MCDataLen(op, h) == IF op # "W" \/ h = <<"nl">> THEN 0 ELSE IF h = <<"x">> THEN 1 ELSE 2
MCChecksum(op, args) == IF args # <<>> /\ args[Len(args)] = "M" THEN "S" ELSE op

=============================================================================
