-------------------------- MODULE MCSerialSession --------------------------
(* A device that sends up to five of: the magic, COUNT, newline, a positive *)
(* and a negative reply and other text, to a host that may send twice.      *)
EXTENDS SerialSession

MCByte == {"M", "S", "C", "nl", "ok", "err"}
MCEol == {"nl"}
MCKnownOp == {"C"}
MCHeaderLen(op) == 0
MCDataLen(op, h) == 0
MCChecksum(op, args) == op
MCAck == {"ok"}
MCErr == {"err"}

=============================================================================
