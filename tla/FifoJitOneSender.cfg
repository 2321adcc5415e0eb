SPECIFICATION Spec
CONSTANTS
    a = a
    b = b
    s1 = s1
    s2 = s2
    zero = zero
    none = none
    Values <- MCValues
    Senders <- MCOneSender
    Zero = zero
    NoData = none
    AllocatedElementSize = 48
    ElementSize2 = 64
    InitBufferSize = 128
    UninitializedCounts = {0, 3}
    MaxQueued = 6
PROPERTY ImplementsFifo
