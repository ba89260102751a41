CONSTANTS
    LowBase = 2
    Slack = 1
    MinRepeat = 3
    MaxFrom = 5
    MaxTo = 5
    Requests <- MCRequests
SPECIFICATION Spec
INVARIANTS DecoderInStep SuffixesSorted ScoreIsWindow PatchDecodes
PROPERTIES OffersAreMatches EncodeEnds
