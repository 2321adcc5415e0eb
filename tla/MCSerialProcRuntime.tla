------------------------ MODULE MCSerialProcRuntime ------------------------
(* SerialProcRuntime for TLC, on the request-reply network. *)
EXTENDS SerialProcRuntime, SmallNetworks
=============================================================================
