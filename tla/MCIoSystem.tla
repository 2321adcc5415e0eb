---------------------------- MODULE MCIoSystem ----------------------------
(***************************************************************************)
(* Model of IoSystem for TLC: ten-bit requests and answers (two bytes, the *)
(* upper one partly used), a fixed-latency device and a sequential loop.   *)
(***************************************************************************)
EXTENDS IoSystem

ModelBits == 10

ModelCompute(x) == (3 * x + 1) % 2^ModelBits
ModelBody(index, accumulator) == (2 * accumulator + index + 1) % 2^ModelBits

ModelDevices ==
    {[interface |-> "fixed_latency", latency |-> 2],
     [interface |-> "ready_valid", latency |-> 1, trip_count |-> 2, stride |-> 2]}

OneDevice == {[interface |-> "fixed_latency", latency |-> 1]}

\* A plain byte, an escape code that is also a plain byte, and the two control
\* codes.
ModelBytes == {0, 3, kReset, kEscape}

\* Two requests and a control code; a serial byte takes forty cycles.
ModelMaxBytes == [s \in Strategies |-> IF s = "null" THEN 5 ELSE 3]
OneRequest == [s \in Strategies |-> n_bytes]
=============================================================================
