CONSTANTS
    Byte <- MCByte
    M = "M"
    S = "S"
    NL = "nl"
    Eol <- MCEol
    KnownOp <- MCKnownOp
    HeaderLen <- MCHeaderLen
    DataLen <- MCDataLen
    Checksum <- MCChecksum
    WriteMax = 1
    LineMax = 2
    Gap = Gap
    None = None
    MaxBytes = 7
SPECIFICATION PumpSpec
INVARIANTS PumpTypeOK TextConserved RequestsHandledOnce LineContiguous
CHECK_DEADLOCK FALSE
