SPECIFICATION Spec
CONSTANTS
    Cases <- SoundCases
    MaxIntervals = 3
    MaxOperandIntervals = 2
    ManyOperands = 2
    MaxShiftBits = 3
INVARIANTS
    RangesSound
    QueriesSound
    IntervalSetsExact
    PopulateComplete
    PassKeepsMeaning
