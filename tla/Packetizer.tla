----------------------------- MODULE Packetizer -----------------------------
(***************************************************************************)
(* Packets on the way through the NoC simulator: at each source a          *)
(* DePacketizer cuts the packets into flits, the network delivers the      *)
(* flits of one source in order and interleaves those of different         *)
(* sources, and the Packetizer of the sink puts the packets together in    *)
(* one of its partial packet stores.  Packet data is a sequence of bits,   *)
(* each named after its packet and place, so that Slice and the            *)
(* concatenation of BitsRope are what they are on bits.                    *)
(***************************************************************************)
EXTENDS Integers, Sequences, FiniteSets, SequencesExt

CONSTANT
    Networks                    \* the parameters of the networks considered: the
                                \* source indices that send to this sink, the bit
                                \* counts of a flit, of a source index and of the
                                \* largest packet, the number of stores, and the
                                \* bit counts of the packets that are sent and
                                \* a bound on how many each source sends

VARIABLES
    network_params,             \* fixed when the simulator is initialized
    packet,                     \* DePacketizer::packet_, its data
    bits_left_to_send,          \* DePacketizer::bits_left_to_send_
    network,                    \* the flits on their way from each source
    partial_packets,            \* Packetizer::partial_packets_
    partial_packet_index_map,   \* Packetizer::partial_packet_index_map_
    received_packets,           \* Packetizer::received_packets_
    failed,                     \* AcceptNewFlit has returned an error
    sent,                       \* history: the packets each source has accepted
    arriving,                   \* history: the sources whose last flit was no tail
    interleaved                 \* history: a flit has arrived between those of
                                \* another source's packet

vars == <<network_params, packet, bits_left_to_send, network, partial_packets,
          partial_packet_index_map, received_packets, failed, sent, arriving,
          interleaved>>

Sources == network_params.sources
flit_payload_bit_count == network_params.flit_payload_bit_count
source_index_bit_count == network_params.source_index_bit_count
max_packet_bit_count == network_params.max_packet_bit_count
max_outstanding_packets == network_params.max_outstanding_packets
Sizes == network_params.sizes
MaxPackets == network_params.max_packets

Stores == 0..(max_outstanding_packets - 1)

\* GetReservedFlitPayloadBitCount
ReservedBits ==
    IF flit_payload_bit_count >= max_packet_bit_count THEN 0 ELSE source_index_bit_count

\* max_bits_to_send
BitsPerFlit == flit_payload_bit_count - ReservedBits

\* A flit has room for data, and packets are not larger than announced.
ASSUME NetworksAssumption ==
    \A n \in Networks :
        /\ n.sources \subseteq Nat /\ n.max_outstanding_packets \in Nat \ {0}
        /\ n.source_index_bit_count \in Nat
        /\ n.flit_payload_bit_count \in Nat \ 0..n.source_index_bit_count
        /\ n.sizes \subseteq 0..n.max_packet_bit_count

Init ==
    /\ network_params \in Networks
    /\ packet = [s \in Sources |-> <<>>]
    /\ bits_left_to_send = [s \in Sources |-> 0]
    /\ network = [s \in Sources |-> <<>>]
    /\ partial_packets = [i \in Stores |-> <<>>]
    /\ partial_packet_index_map = <<>>
    /\ received_packets = <<>>
    /\ failed = FALSE
    /\ sent = [s \in Sources |-> <<>>]
    /\ arriving = {}
    /\ interleaved = FALSE

------------------------------------------------------------------------------
(* DePacketizer *)

IsIdle(s) == bits_left_to_send[s] = 0

\* AcceptNewPacket; while a packet is being sent it only returns an error.
AcceptNewPacket(s, size) ==
    LET data == [k \in 1..size |-> <<s, Len(sent[s]) + 1, k>>]
    IN  /\ IsIdle(s) /\ Len(sent[s]) < MaxPackets
        /\ packet' = [packet EXCEPT ![s] = data]
        /\ bits_left_to_send' = [bits_left_to_send EXCEPT ![s] = size]
        /\ sent' = [sent EXCEPT ![s] = Append(@, data)]
        /\ UNCHANGED <<network_params, network, partial_packets, partial_packet_index_map,
                       received_packets, failed, arriving, interleaved>>

\* Fault: the flit that exactly fills up is not the tail.
IsTailStrict(s) == bits_left_to_send[s] < BitsPerFlit

\* What is left fits into this flit.
IsTail(s) == bits_left_to_send[s] <= BitsPerFlit

\* ComputeNextFlit for a packet in progress, and the flit's entry to the network.
ComputeNextFlit(s) ==
    LET already_sent == Len(packet[s]) - bits_left_to_send[s]
        count == IF IsTail(s) THEN bits_left_to_send[s] ELSE BitsPerFlit
        type == IF IsTail(s) THEN "kTail" ELSE IF already_sent = 0 THEN "kHead" ELSE "kBody"
    IN  /\ ~IsIdle(s)
        /\ network' = [network EXCEPT ![s] = Append(@,
              [type |-> type, source_index |-> s,
               data |-> SubSeq(packet[s], already_sent + 1, already_sent + count)])]
        /\ bits_left_to_send' = [bits_left_to_send EXCEPT ![s] = @ - count]
        /\ UNCHANGED <<network_params, packet, partial_packets, partial_packet_index_map,
                       received_packets, failed, sent, arriving, interleaved>>

------------------------------------------------------------------------------
(* Packetizer *)

\* The first empty store, of those there are.
FirstEmpty == {i \in Stores : partial_packets[i] = <<>> /\
                              \A j \in 0..(i - 1) : partial_packets[j] # <<>>}



\* AllocateOrRetrievePartialPacketStore: the stores it may return, at most one.
StoreOf(s) ==
    IF s \in DOMAIN partial_packet_index_map THEN {partial_packet_index_map[s]}
    ELSE FirstEmpty

Without(map, key) == [k \in DOMAIN map \ {key} |-> map[k]]

\* Fault: the entry is erased, the store is not cleared.
DeallocateUncleared(s, map) ==
    /\ UNCHANGED partial_packets
    /\ partial_packet_index_map' = Without(map, map[s])

\* DeallocatePartialPacketStore; what it erases from the map is the entry whose
\* key is the index of the store.
DeallocatePartialPacketStore(s, map) ==
    /\ partial_packets' = [partial_packets EXCEPT ![map[s]] = <<>>]
    /\ partial_packet_index_map' = Without(map, map[s])

\* AcceptNewFlit, of the next flit that arrives from s.  Its callers stop at an
\* error.
AcceptNewFlit(s) ==
    LET flit == Head(network[s])
    IN  /\ ~failed /\ network[s] # <<>>
        /\ network' = [network EXCEPT ![s] = Tail(@)]
        /\ arriving' = IF flit.type = "kTail" THEN arriving \ {s} ELSE arriving \cup {s}
        /\ interleaved' = (interleaved \/ arriving \ {s} # {})
        /\ \/ /\ StoreOf(s) = {}
              /\ failed' = TRUE
              /\ UNCHANGED <<partial_packets, partial_packet_index_map, received_packets>>
           \/ \E i \in StoreOf(s) :
                LET map == [k \in DOMAIN partial_packet_index_map \cup {s} |->
                               IF k = s THEN i ELSE partial_packet_index_map[k]]
                    flits == Append(partial_packets[i], flit.data)
                IN  /\ IF flit.type = "kTail"
                       THEN /\ DeallocatePartialPacketStore(s, map)
                            /\ received_packets' = Append(received_packets,
                                  [source_index |-> s, data |-> FlattenSeq(flits)])
                       ELSE /\ partial_packets' = [partial_packets EXCEPT ![i] = flits]
                            /\ partial_packet_index_map' = map
                            /\ UNCHANGED received_packets
                    /\ UNCHANGED failed
        /\ UNCHANGED <<network_params, packet, bits_left_to_send, sent>>

Next ==
    \E s \in Sources :
        \/ \E size \in Sizes : AcceptNewPacket(s, size)
        \/ ComputeNextFlit(s)
        \/ AcceptNewFlit(s)

\* The injector computes flits until the packet is sent, and every flit arrives.
AllSources == UNION {n.sources : n \in Networks}
Fairness ==
    \A s \in AllSources :
        /\ WF_vars(s \in Sources /\ ComputeNextFlit(s))
        /\ WF_vars(s \in Sources /\ AcceptNewFlit(s))

Spec == Init /\ [][Next]_vars /\ Fairness

------------------------------------------------------------------------------
(* Properties *)

From(s, packets) == SelectSeq(packets, LAMBDA p : p.source_index = s)

\* The packets that consist of at least one flit.
NonEmpty(packets) == SelectSeq(packets, LAMBDA data : data # <<>>)

\* As long as the flits of different packets have not met at the sink, the packets
\* it has received from a source are the first ones the source has sent, in order,
\* each with exactly its own data (a packet without data is never sent), whichever
\* entries DeallocatePartialPacketStore has left behind and whoever has used the
\* store in between.  Once they have met, the entries lead a source to the store of
\* another, or another's tail erases the entry of a packet in progress, and packets
\* are mixed or cut, against packetizer.h:316-320; but no bit is received twice.
PacketsIntact ==
    /\ ~interleaved =>
         \A s \in Sources :
            /\ Len(From(s, received_packets)) <= Len(NonEmpty(sent[s]))
            /\ \A i \in 1..Len(From(s, received_packets)) :
                  From(s, received_packets)[i].data = NonEmpty(sent[s])[i]
    /\ IsInjective(FlattenSeq([i \in DOMAIN received_packets |-> received_packets[i].data]))

\* Every packet with data arrives, unless the Packetizer has run out of stores:
\* AcceptNewFlit gives every store back with the tail of its packet, so that it
\* only runs out once packets of several flits from several sources have met.
PacketsArrive ==
    \A s \in AllSources : \A n \in UNION {1..w.max_packets : w \in Networks} :
        s \in Sources /\ Len(NonEmpty(sent[s])) = n
            ~> (failed /\ interleaved) \/ Len(From(s, received_packets)) >= n
=============================================================================
