CONSTANTS
    Byte <- MCByte
    M = "M"
    S = "S"
    NL = "nl"
    Eol <- MCEol
    KnownOp <- MCKnownOp
    HeaderLen <- MCHeaderLen
    DataLen <- MCDataLen
    Checksum <- MCChecksum
    WriteMax = 0
    LineMax = 1
    Gap = Gap
    None = None
    MaxBytes = 4
    Ack <- MCAck
    Err <- MCErr
    RetryAfter = 1
    Timeout = 3
    MaxAttempts = 2
SPECIFICATION Spec
PROPERTIES AttachEnds StopEndsSession
