---------------------- MODULE MCProcNetworkInterpreter ----------------------
(* ProcNetworkInterpreter for TLC. *)
EXTENDS ProcNetworkInterpreter, SmallNetworks

\* One value more than the network has produced, at most.
MCOutputCounts == {[c \in {"out"} |-> 1], [c \in {"out"} |-> 2]}
=============================================================================
