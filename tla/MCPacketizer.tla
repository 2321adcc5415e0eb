---------------------------- MODULE MCPacketizer ----------------------------
(* Packetizer for TLC. *)
EXTENDS Packetizer

Params(sources, flit, index, max_packet, stores, sizes, packets) ==
    [sources |-> sources, flit_payload_bit_count |-> flit, source_index_bit_count |-> index,
     max_packet_bit_count |-> max_packet, max_outstanding_packets |-> stores, sizes |-> sizes,
     max_packets |-> packets]

\* Packets of one flit from two sources; packets of up to three flits from one
\* source; three sources that compete for one store, and two sources that use one
\* or two stores in turn or at the same time.
MCNetworks ==
    {Params({0, 2}, 2, 1, 2, 1, {1, 2}, 2),
     Params({1}, 3, 1, 6, 2, {0, 1, 2, 3, 4, 6}, 3),
     Params({0, 1, 2}, 3, 2, 4, 1, {1, 3}, 1),
     Params({0, 2}, 3, 2, 4, 1, {1, 2}, 3),
     Params({0, 1}, 3, 1, 4, 2, {2, 4}, 2)}
=============================================================================
