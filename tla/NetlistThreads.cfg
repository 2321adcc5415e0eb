SPECIFICATION Spec
CONSTANTS
    Designs <- MCDesigns
    w1 = w1
    w2 = w2
    Threads = {w1, w2}
    Main = main
    Zero = "0"
    One = "1"
INVARIANTS
    ResultsCorrect
    ThreadsAccountedFor
    EntriesHaveThreads
    PendingAccounted
PROPERTY CallsReturn
CHECK_DEADLOCK FALSE
