SPECIFICATION Spec
CONSTANTS
    Srcs <- CrossSrcs
    Links <- CrossLinks
    Routers <- CrossRouters
    Sinks <- CrossSinks
    Connections <- CrossConnections
    VCs = {0, 1}
    Egress <- CrossEgress
    LinkFrom <- CrossLinkFrom
    LinkTo <- CrossLinkTo
    ForwardStages <- CrossForwardStages
    ReverseStages <- CrossReverseStages
    InPorts <- CrossInPorts
    OutPorts <- CrossOutPorts
    Ingress <- CrossIngress
    Depth <- CrossDepth
    Route <- CrossRoute
    Destinations <- CrossDestinations
    MaxTicks = 4
    MaxFlits <- CrossMaxFlits
INVARIANTS
    CreditsConserved
    CyclesConverge
    FlitsInOrder
PROPERTY FlitsArrive
