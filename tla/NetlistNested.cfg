SPECIFICATION Spec
CONSTANTS
    Designs <- MCNested
    w1 = w1
    w2 = w2
    Threads = {w1, w2}
    Main = main
    Zero = "0"
    One = "1"
PROPERTY ResultsToTheirCalls
CHECK_DEADLOCK FALSE
