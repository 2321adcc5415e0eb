SPECIFICATION Spec
CONSTANTS
    Networks <- MCNetworks
CHECK_DEADLOCK FALSE
INVARIANT PacketsIntact
PROPERTY PacketsArrive
