CONSTANTS
    BlockSize = 4
    PayloadOff = 3
    PayloadSizes <- MCPayloadSizes
    Codings <- MCCodings
    Fail = Fail
    Unset = Unset
    Raw = Raw
    ReadMax = 2
    Packet = 2
    MaxRestarts = 1
SPECIFICATION Spec
INVARIANTS BlocksExact CostAsPredicted
PROPERTIES ServedFromCache
