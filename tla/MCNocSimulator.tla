--------------------------- MODULE MCNocSimulator ---------------------------
(* A network for the NocSimulator. *)
EXTENDS NocSimulator

\* Two sources and two sinks around router R, of which sink X is behind a second
\* router Q, where the virtual channels change places.  The links of A and X have
\* pipeline stages, the others have none; their order costs a cycle several ticks.
CrossSrcs == <<"A", "B">>
CrossLinks == <<"QX", "RQ", "RY", "AR", "BR">>
CrossRouters == <<"Q", "R">>
CrossSinks == <<"X", "Y">>
CrossConnections == {"a0", "a1", "b0", "b1", "r0", "r1", "q0", "q1", "y0", "y1"}
CrossEgress == [A |-> "a0", B |-> "b0"]
CrossLinkFrom == [AR |-> "a0", BR |-> "b0", RQ |-> "r0", QX |-> "q0", RY |-> "y0"]
CrossLinkTo == [AR |-> "a1", BR |-> "b1", RQ |-> "r1", QX |-> "q1", RY |-> "y1"]
CrossForwardStages == [AR |-> 1, BR |-> 0, RQ |-> 0, QX |-> 1, RY |-> 0]
CrossReverseStages == [AR |-> 1, BR |-> 0, RQ |-> 0, QX |-> 2, RY |-> 0]
CrossInPorts == [R |-> <<"a1", "b1">>, Q |-> <<"r1">>]
CrossOutPorts == [R |-> <<"r0", "y0">>, Q |-> <<"q0">>]
CrossIngress == [X |-> "q1", Y |-> "y1"]
CrossDepth == [c \in CrossConnections |-> [vc \in {0, 1} |-> IF c = "a1" \/ vc = 1 THEN 2 ELSE 1]]
CrossRoute(r, i, vc, dest) ==
    IF r = "R" THEN <<IF dest = "X" THEN 1 ELSE 2, vc>> ELSE <<1, 1 - vc>>
CrossDestinations == [A |-> {"X"}, B |-> {"X", "Y"}]
CrossMaxFlits == [A |-> 1, B |-> 2]
=============================================================================
