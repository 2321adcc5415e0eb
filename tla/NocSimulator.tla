---------------------------- MODULE NocSimulator ----------------------------
(***************************************************************************)
(* NocSimulator: sources, links, input-buffered virtual-channel routers    *)
(* and sinks, joined by connections.  A cycle is a number of ticks; in a   *)
(* tick every component in turn tries its forward and its reverse          *)
(* propagation, each of which succeeds at most once per cycle and only     *)
(* when the connections it reads are up to date; the cycle is over when    *)
(* all have succeeded.  Flits move forward, credits in reverse.            *)
(*                                                                         *)
(* The code compares time stamps with the current cycle and nothing else,  *)
(* so the model keeps the set of the stamps that equal it.  A forward      *)
(* channel holds a flit or none (kInvalid), a reverse channel a number of  *)
(* credits (0 for kInvalid).                                               *)
(***************************************************************************)
EXTENDS Integers, Sequences, FiniteSetsExt

CONSTANTS
    Srcs, Links, Routers, Sinks,    \* sequences: the order of Tick
    Connections, VCs,
    Egress,                         \* the connection a source sends on
    LinkFrom, LinkTo,               \* the two connections of a link
    ForwardStages, ReverseStages,   \* the pipeline stages of a link
    InPorts, OutPorts,              \* the connections of a router, by port index
    Ingress,                        \* the connection a sink receives from
    Depth,                          \* max_queue_size behind a connection, by vc
    Route(_, _, _, _),              \* output port and vc of a flit in a router
    Destinations,                   \* where each source sends to
    MaxTicks,                       \* max_ticks of RunCycle
    MaxFlits                        \* bound: flits sent by each source

VARIABLES
    at,              \* the component whose turn it is and which propagation
    converged, nticks, cycle0,      \* of RunCycle; the cycle number is 0
    current,         \* the time stamps that equal the current cycle
    forward, reverse,               \* SimConnectionState
    forward_data_stages, reverse_credit_stages,   \* SimLink
    data_to_send,                   \* SimNetworkInterfaceSrc
    credit, credit_update,          \* of sources and of router outputs
    input_buffers, input_credit_to_send,          \* of router inputs
    received_traffic,               \* SimNetworkInterfaceSink
    sent             \* history: the flits given to each source

run == <<at, converged, nticks, cycle0>>
links == <<forward_data_stages, reverse_credit_stages>>
traffic == <<data_to_send, received_traffic, sent>>
credits == <<credit, credit_update>>
buffers == <<input_buffers, input_credit_to_send>>
vars == <<run, current, forward, reverse, links, traffic, credits, buffers>>

Order == Srcs \o Links \o Routers \o Sinks
Inputs(r) == Range(InPorts[r])
Outputs(r) == Range(OutPorts[r])
AllInputs == UNION {Inputs(r) : r \in Range(Routers)}
AllOutputs == {Egress[s] : s \in Range(Srcs)} \cup UNION {Outputs(r) : r \in Range(Routers)}

Dests == UNION {Destinations[s] : s \in Range(Srcs)}

\* The components that drive and that read a connection in the forward direction.
Drivers(c) ==
    {s \in Range(Srcs) : Egress[s] = c} \cup {l \in Range(Links) : LinkTo[l] = c}
      \cup {r \in Range(Routers) : c \in Outputs(r)}
Readers(c) ==
    {l \in Range(Links) : LinkFrom[l] = c} \cup {r \in Range(Routers) : c \in Inputs(r)}
      \cup {k \in Range(Sinks) : Ingress[k] = c}

\* A connection joins one output port to one input port (network_graph.h), a link
\* leads from a source or router to a router or sink, and a route to a port of a
\* router names one of its virtual channels.
ASSUME NetworkAssumption ==
    LET ss == Range(Srcs)
        ls == Range(Links)
        rs == Range(Routers)
        ks == Range(Sinks)
    IN  /\ Srcs \in Seq(ss) /\ Links \in Seq(ls) /\ Routers \in Seq(rs) /\ Sinks \in Seq(ks)
        /\ ss \cap (ls \cup rs \cup ks) = {} /\ ls \cap (rs \cup ks) = {} /\ rs \cap ks = {}
        /\ Egress \in [ss -> Connections] /\ Ingress \in [ks -> Connections]
        /\ LinkFrom \in [ls -> Connections] /\ LinkTo \in [ls -> Connections]
        /\ \A r \in rs : InPorts[r] \in Seq(Connections) /\ OutPorts[r] \in Seq(Connections)
        /\ \A c \in Connections : \E n, m \in Range(Order) : Drivers(c) = {n} /\ Readers(c) = {m}
        /\ \A l \in ls : /\ LinkFrom[l] \in AllOutputs
                          /\ LinkTo[l] \in AllInputs \cup {Ingress[k] : k \in ks}
        /\ ForwardStages \in [ls -> Nat] /\ ReverseStages \in [ls -> Nat]
        /\ VCs \subseteq Nat /\ Depth \in [Connections -> [VCs -> Nat]]
        /\ \A r \in rs, vc \in VCs, dest \in Dests : \A i \in DOMAIN InPorts[r] :
              Route(r, i, vc, dest)[1] \in DOMAIN OutPorts[r] => Route(r, i, vc, dest)[2] \in VCs

\* The time stamps: of the channels, of credit_update_ and of the propagations.
Fwd(c) == <<"forward channel", c>>
Rev(c, vc) == <<"reverse channel", c, vc>>
Update(c, vc) == <<"credit update", c, vc>>
ForwardDone(n) == <<"forward", n>>
ReverseDone(n) == <<"reverse", n>>
VcDone(l, vc) == <<"reverse of vc", l, vc>>
CreditsAdded(r) == <<"credits added", r>>

PerVc(x) == [vc \in VCs |-> x]

Init ==
    /\ at = [phase |-> "idle", n |-> 0]
    /\ converged = FALSE /\ nticks = 0 /\ cycle0 = TRUE
    /\ current = {}
    /\ forward = [c \in Connections |-> <<>>]
    /\ reverse = [c \in Connections |-> PerVc(0)]
    /\ forward_data_stages = [l \in Range(Links) |-> <<>>]
    /\ reverse_credit_stages = [l \in Range(Links) |-> PerVc(<<>>)]
    /\ data_to_send = [s \in Range(Srcs) |-> PerVc(<<>>)]
    /\ credit = [c \in AllOutputs |-> PerVc(0)]
    /\ credit_update = [c \in AllOutputs |-> PerVc(0)]
    /\ input_buffers = [c \in AllInputs |-> PerVc(<<>>)]
    /\ input_credit_to_send = [c \in AllInputs |-> PerVc(0)]
    /\ received_traffic = [k \in Range(Sinks) |-> <<>>]
    /\ sent = [s \in Range(Srcs) |-> <<>>]

------------------------------------------------------------------------------
(* NocSimulator::RunCycle and Tick *)

Goto(phase, n) == at' = [phase |-> phase, n |-> n]

\* SendFlitAtTime, before a cycle begins; a flit for a later time is one that is
\* given later, since the front of the queue holds up the others.
SendFlitAtTime(s, vc, dest) ==
    LET flit == [src |-> s, dest |-> dest, no |-> Len(sent[s]) + 1, lane |-> vc, vc |-> vc]
    IN  /\ at.phase = "idle" /\ Len(sent[s]) < MaxFlits[s]
        /\ data_to_send' = [data_to_send EXCEPT ![s][vc] = Append(@, flit)]
        /\ sent' = [sent EXCEPT ![s] = Append(@, flit)]
        /\ UNCHANGED <<run, current, forward, reverse, links, received_traffic,
                       credits, buffers>>

\* RunCycle is called.
RunCycle ==
    /\ at.phase = "idle"
    /\ Goto("forward", 1)
    /\ converged' = TRUE /\ nticks' = 0
    /\ current' = {}
    /\ UNCHANGED <<cycle0, forward, reverse, links, traffic, credits, buffers>>

\* Every component had its turn: the cycle fails, ends or needs another tick.
EndTick ==
    /\ at = [phase |-> "forward", n |-> Len(Order) + 1]
    /\ nticks' = nticks + 1
    /\ \/ /\ nticks' >= MaxTicks
          /\ Goto("failed", 0)
          /\ UNCHANGED <<converged, cycle0>>
       \/ /\ nticks' < MaxTicks /\ converged
          /\ Goto("idle", 0)
          /\ cycle0' = FALSE
          /\ UNCHANGED converged
       \/ /\ nticks' < MaxTicks /\ ~converged
          /\ Goto("forward", 1)
          /\ converged' = TRUE
          /\ UNCHANGED cycle0
    /\ UNCHANGED <<current, forward, reverse, links, traffic, credits, buffers>>

\* Fault: the last component decides whether the tick has converged.
TriedLast(n, done, ok, stamps) ==
    /\ current' = current \cup stamps \cup (IF ok THEN {done} ELSE {})
    /\ converged' = ok

\* SimNetworkComponentBase::Tick: the propagation of component n that succeeds
\* (ok), or not, sets these stamps.
Tried(n, done, ok, stamps) ==
    /\ current' = current \cup stamps \cup (IF ok THEN {done} ELSE {})
    /\ converged' = (converged /\ ok)

Turn(n, phase) == at.phase = phase /\ at.n \in DOMAIN Order /\ Order[at.n] = n

TryForward(n) ==
    /\ Turn(n, "forward") /\ ForwardDone(n) \notin current
    /\ Goto("reverse", at.n)
    /\ UNCHANGED <<nticks, cycle0>>

TryReverse(n) ==
    /\ Turn(n, "reverse") /\ ReverseDone(n) \notin current
    /\ Goto("forward", at.n + 1)
    /\ UNCHANGED <<nticks, cycle0>>

\* What has succeeded in this cycle is not tried again.
AlreadyDone(n) ==
    /\ \/ Turn(n, "forward") /\ ForwardDone(n) \in current /\ Goto("reverse", at.n)
       \/ Turn(n, "reverse") /\ ReverseDone(n) \in current /\ Goto("forward", at.n + 1)
    /\ UNCHANGED <<converged, nticks, cycle0, current, forward, reverse, links,
                   traffic, credits, buffers>>

------------------------------------------------------------------------------
(* SimLink: SimplePipelineImpl::TryPropagation on each channel *)

\* What the pipeline shows at its end, and what is left in it.
Shown(stages, state, bubble) == IF Len(state) >= stages THEN Head(state) ELSE bubble
Left(stages, state) == IF Len(state) >= stages THEN Tail(state) ELSE state

LinkForward(l) ==
    LET from == LinkFrom[l]
        to == LinkTo[l]
        stages == ForwardStages[l]
        ready == Fwd(from) \in current
        update == IF stages = 0 THEN ready ELSE Fwd(to) \notin current
        rest == IF stages > 0 /\ update THEN Left(stages, forward_data_stages[l])
                ELSE forward_data_stages[l]
    IN  /\ TryForward(l)
        /\ forward' = IF ~update THEN forward
                      ELSE [forward EXCEPT ![to] =
                              IF stages = 0 THEN forward[from]
                              ELSE Shown(stages, forward_data_stages[l], <<>>)]
        /\ forward_data_stages' = [forward_data_stages EXCEPT ![l] =
                              IF stages > 0 /\ ready THEN Append(rest, forward[from]) ELSE rest]
        /\ Tried(l, ForwardDone(l), ready, IF update THEN {Fwd(to)} ELSE {})
        /\ UNCHANGED <<reverse, reverse_credit_stages, traffic, credits, buffers>>

LinkReverse(l) ==
    LET from == LinkTo[l]
        to == LinkFrom[l]
        stages == ReverseStages[l]
        state == reverse_credit_stages[l]
        todo == {vc \in VCs : VcDone(l, vc) \notin current}
        ready == {vc \in todo : Rev(from, vc) \in current}
        update == {vc \in todo : IF stages = 0 THEN vc \in ready ELSE Rev(to, vc) \notin current}
        rest(vc) == IF stages > 0 /\ vc \in update THEN Left(stages, state[vc]) ELSE state[vc]
    IN  /\ TryReverse(l)
        /\ reverse' = [reverse EXCEPT ![to] = [vc \in VCs |->
              IF vc \notin update THEN @[vc]
              ELSE IF stages = 0 THEN reverse[from][vc] ELSE Shown(stages, state[vc], 0)]]
        /\ reverse_credit_stages' = [reverse_credit_stages EXCEPT ![l] = [vc \in VCs |->
              IF stages > 0 /\ vc \in ready THEN Append(rest(vc), reverse[from][vc]) ELSE rest(vc)]]
        /\ Tried(l, ReverseDone(l), ready = todo,
                 {Rev(to, vc) : vc \in update} \cup {VcDone(l, vc) : vc \in ready})
        /\ UNCHANGED <<forward, forward_data_stages, traffic, credits, buffers>>

------------------------------------------------------------------------------
(* Credits received by sources and router outputs *)

\* The credit count after the update received in the previous cycle is added.
WithUpdate(c) == [vc \in VCs |-> credit[c][vc] + credit_update[c][vc]]

\* Reading the reverse channels of the connections cs, as far as they are ready.
Ready(c) == {vc \in VCs : Rev(c, vc) \in current}

\* Fault: an update without credits leaves the previous one in place.
NewCreditsSticky(cs) ==
    credit_update' = [c \in AllOutputs |-> [vc \in VCs |->
        IF c \in cs /\ vc \in Ready(c) /\ Update(c, vc) \notin current /\ reverse[c][vc] > 0
        THEN reverse[c][vc] ELSE credit_update[c][vc]]]

NewCredits(cs) ==
    credit_update' = [c \in AllOutputs |-> [vc \in VCs |->
        IF c \in cs /\ vc \in Ready(c) /\ Update(c, vc) \notin current
        THEN reverse[c][vc] ELSE credit_update[c][vc]]]
NewStamps(cs) == UNION {{Update(c, vc) : vc \in Ready(c)} : c \in cs}

------------------------------------------------------------------------------
(* SimNetworkInterfaceSrc *)

\* There is a flit for vc and room for it at the other end.
CanSend(s, vc) == data_to_send[s][vc] # <<>> /\ WithUpdate(Egress[s])[vc] > 0

\* The first virtual channel that can send does.
SrcForward(s) ==
    LET c == Egress[s]
        able == {vc \in VCs : CanSend(s, vc)}
    IN  /\ TryForward(s)
        /\ \/ /\ able = {}
              /\ forward' = [forward EXCEPT ![c] = <<>>]
              /\ credit' = [credit EXCEPT ![c] = WithUpdate(c)]
              /\ UNCHANGED data_to_send
           \/ /\ able # {}
              /\ LET vc == Min(able)
                 IN  /\ forward' = [forward EXCEPT ![c] = <<Head(data_to_send[s][vc])>>]
                     /\ credit' = [credit EXCEPT ![c] = [WithUpdate(c) EXCEPT ![vc] = @ - 1]]
                     /\ data_to_send' = [data_to_send EXCEPT ![s][vc] = Tail(@)]
        /\ Tried(s, ForwardDone(s), TRUE, {Fwd(c)})
        /\ UNCHANGED <<reverse, links, credit_update, received_traffic, sent, buffers>>

SrcReverse(s) ==
    LET c == Egress[s]
    IN  /\ TryReverse(s)
        /\ NewCredits({c})
        /\ Tried(s, ReverseDone(s), Ready(c) = VCs, NewStamps({c}))
        /\ UNCHANGED <<forward, reverse, links, traffic, credit, buffers>>

------------------------------------------------------------------------------
(* SimInputBufferedVCRouter *)

\* The input buffer behind connection c with the flit that arrives.
Arrived(c, vc) ==
    IF forward[c] # <<>> /\ forward[c][1].vc = vc
    THEN Append(input_buffers[c][vc], forward[c][1]) ELSE input_buffers[c][vc]

\* credit_ of an output, once per cycle increased by the update.
OutputCredit(r, c) == IF CreditsAdded(r) \in current THEN credit[c] ELSE WithUpdate(c)

\* Where the flit at the front of input port i, vc goes: output port and vc.
Target(r, i, vc) == Route(r, i, vc, Head(Arrived(InPorts[r][i], vc)).dest)

\* Fault: the last credit is not used.
RequestsSparing(r, o) ==
    {x \in VCs \X DOMAIN InPorts[r] :
        /\ Arrived(InPorts[r][x[2]], x[1]) # <<>>
        /\ Target(r, x[2], x[1])[1] = o
        /\ OutputCredit(r, OutPorts[r][o])[Target(r, x[2], x[1])[2]] > 1}

\* The inputs <<vc, i>> with a flit for output port o that has credit.
Requests(r, o) ==
    {x \in VCs \X DOMAIN InPorts[r] :
        /\ Arrived(InPorts[r][x[2]], x[1]) # <<>>
        /\ Target(r, x[2], x[1])[1] = o
        /\ OutputCredit(r, OutPorts[r][o])[Target(r, x[2], x[1])[2]] > 0}

\* Fault: an output takes a flit from every input that has one for it.
GrantedAll(r) == UNION {Requests(r, o) : o \in DOMAIN OutPorts[r]}

\* Fixed priority: the least vc, then the least port index; one flit per output.
Granted(r) ==
    {x \in VCs \X DOMAIN InPorts[r] :
        \E o \in DOMAIN OutPorts[r] :
            /\ x \in Requests(r, o)
            /\ \A y \in Requests(r, o) : x[1] < y[1] \/ (x[1] = y[1] /\ x[2] <= y[2])}

\* The flit that input x gets to output port o, if any.
Sent(r, o) ==
    LET winners == {x \in Granted(r) : Target(r, x[2], x[1])[1] = o}
    IN  IF winners = {} THEN <<>>
        ELSE LET x == CHOOSE x \in winners : TRUE
             IN  <<[Head(Arrived(InPorts[r][x[2]], x[1])) EXCEPT !.vc = Target(r, x[2], x[1])[2]]>>

PortOf(ports, c) == CHOOSE i \in DOMAIN ports : ports[i] = c

\* can_propagate_forward: all input ports are ready.
CanPropagate(r) == \A c \in Inputs(r) : Fwd(c) \in current

RouterForward(r) ==
    LET ready == CanPropagate(r)
        won(c, vc) == ready /\ <<vc, PortOf(InPorts[r], c)>> \in Granted(r)
        out(c) == Sent(r, PortOf(OutPorts[r], c))
        used(c, vc) == ready /\ out(c) # <<>> /\ out(c)[1].vc = vc
    IN  /\ TryForward(r)
        /\ credit' = [c \in AllOutputs |->
              IF c \notin Outputs(r) THEN credit[c]
              ELSE [vc \in VCs |-> OutputCredit(r, c)[vc] - (IF used(c, vc) THEN 1 ELSE 0)]]
        /\ forward' = [c \in Connections |->
              IF ready /\ c \in Outputs(r) THEN out(c) ELSE forward[c]]
        /\ input_buffers' = [c \in AllInputs |->
              IF ~ready \/ c \notin Inputs(r) THEN input_buffers[c]
              ELSE [vc \in VCs |-> IF won(c, vc) THEN Tail(Arrived(c, vc)) ELSE Arrived(c, vc)]]
        /\ input_credit_to_send' = [c \in AllInputs |->
              IF ~ready \/ c \notin Inputs(r) THEN input_credit_to_send[c]
              ELSE [vc \in VCs |-> IF won(c, vc) THEN 1 ELSE 0]]
        /\ Tried(r, ForwardDone(r), ready,
                 {CreditsAdded(r)} \cup (IF ready THEN {Fwd(c) : c \in Outputs(r)} ELSE {}))
        /\ UNCHANGED <<reverse, links, traffic, credit_update>>

\* Reverse propagation occurs only after forward propagation.
MayReverse(r) == ForwardDone(r) \in current

RouterReverse(r) ==
    /\ TryReverse(r)
    /\ \/ /\ ~MayReverse(r)
          /\ Tried(r, ReverseDone(r), FALSE, {})
          /\ UNCHANGED <<reverse, credit_update>>
       \/ /\ MayReverse(r)
          /\ reverse' = [c \in Connections |->
                IF c \notin Inputs(r) THEN reverse[c]
                ELSE IF cycle0 THEN Depth[c] ELSE input_credit_to_send[c]]
          /\ NewCredits(Outputs(r))
          /\ Tried(r, ReverseDone(r), \A c \in Outputs(r) : Ready(c) = VCs,
                   NewStamps(Outputs(r)) \cup {Rev(c, vc) : c \in Inputs(r), vc \in VCs})
    /\ UNCHANGED <<forward, links, traffic, credit, buffers>>

------------------------------------------------------------------------------
(* SimNetworkInterfaceSink *)

SinkForward(k) ==
    LET c == Ingress[k]
        arrived(vc) == forward[c] # <<>> /\ forward[c][1].vc = vc
    IN  /\ TryForward(k)
        /\ \/ /\ Fwd(c) \notin current
              /\ Tried(k, ForwardDone(k), FALSE, {})
              /\ UNCHANGED <<received_traffic, reverse>>
           \/ /\ Fwd(c) \in current
              /\ received_traffic' = [received_traffic EXCEPT ![k] = @ \o forward[c]]
              /\ reverse' = [reverse EXCEPT ![c] =
                    IF cycle0 THEN Depth[c]
                    ELSE [vc \in VCs |-> IF arrived(vc) THEN 1 ELSE 0]]
              /\ Tried(k, ForwardDone(k), TRUE, {Rev(c, vc) : vc \in VCs})
        /\ UNCHANGED <<forward, links, data_to_send, sent, credits, buffers>>

SinkReverse(k) ==
    /\ TryReverse(k)
    /\ Tried(k, ReverseDone(k), TRUE, {})
    /\ UNCHANGED <<forward, reverse, links, traffic, credits, buffers>>

------------------------------------------------------------------------------

Step ==
    \/ EndTick
    \/ \E n \in Range(Order) : AlreadyDone(n)
    \/ \E s \in Range(Srcs) : SrcForward(s) \/ SrcReverse(s)
    \/ \E l \in Range(Links) : LinkForward(l) \/ LinkReverse(l)
    \/ \E r \in Range(Routers) : RouterForward(r) \/ RouterReverse(r)
    \/ \E k \in Range(Sinks) : SinkForward(k) \/ SinkReverse(k)

Next ==
    \/ \E s \in Range(Srcs), vc \in VCs : \E dest \in Destinations[s] : SendFlitAtTime(s, vc, dest)
    \/ RunCycle
    \/ Step

\* The simulation is run cycle after cycle.
Spec == Init /\ [][Next]_vars /\ WF_vars(Step) /\ WF_vars(RunCycle)

------------------------------------------------------------------------------
(* Properties *)

\* Flits of vc in the pipeline of a link and in the buffer at its end, and credits
\* in the pipeline back, counted as pairs of a stage and a number.
OfVc(wire, vc) == wire # <<>> /\ wire[1].vc = vc
Flits(stages, vc) == Cardinality({i \in DOMAIN stages : OfVc(stages[i], vc)})
Total(stages) == Cardinality(UNION {{i} \X (1..stages[i]) : i \in DOMAIN stages})

InFlight(l, vc) == Flits(forward_data_stages[l], vc)
Occupancy(c, vc) == IF c \in AllInputs THEN Len(input_buffers[c][vc]) ELSE 0
Returning(l, vc) == Total(reverse_credit_stages[l][vc])

\* The credit protocol neither loses nor invents a credit: between two cycles, the
\* credits the sender has or has just received, the flits in the link and in the
\* buffer behind it and the credits on their way back add up to the size of the
\* buffer, on every link and virtual channel.  So no buffer overflows, though
\* RouterForward pushes without looking at max_queue_size.
CreditsConserved ==
    at.phase = "idle" /\ ~cycle0 =>
        \A l \in Range(Links), vc \in VCs :
            credit[LinkFrom[l]][vc] + credit_update[LinkFrom[l]][vc] + InFlight(l, vc)
              + Occupancy(LinkTo[l], vc) + Returning(l, vc) = Depth[LinkTo[l]][vc]

\* The flits of source s for sink k on virtual channel vc.
Flow(seq, s, k, vc) == SelectSeq(seq, LAMBDA x : x.src = s /\ x.dest = k /\ x.lane = vc)
Numbers(seq) == [i \in DOMAIN seq |-> seq[i].no]

\* No flit is lost, duplicated, reordered within its flow or delivered to the
\* wrong sink.
FlitsInOrder ==
    \A k \in Range(Sinks) :
        /\ \A i \in DOMAIN received_traffic[k] : received_traffic[k][i].dest = k
        /\ \A s \in Range(Srcs), vc \in VCs :
              LET there == Numbers(Flow(received_traffic[k], s, k, vc))
                  given == Numbers(Flow(sent[s], s, k, vc))
              IN  Len(there) <= Len(given) /\ there = SubSeq(given, 1, Len(there))

\* Every flit arrives: no credit deadlock, no lost wake-up between the two
\* directions of propagation (traffic is finite, so priority starves nobody).
FlitsArrive ==
    \A s \in Range(Srcs) : \A n \in 1..MaxFlits[s] :
        Len(sent[s]) >= n ~>
            \E k \in Range(Sinks) : \E i \in DOMAIN received_traffic[k] :
                received_traffic[k][i].src = s /\ received_traffic[k][i].no = n

\* A cycle that ends has brought every channel of every connection up to date.
ConvergedUpToDate ==
    at.phase = "idle" /\ ~cycle0 =>
        \A c \in Connections : Fwd(c) \in current /\ Ready(c) = VCs

\* Every cycle converges within MaxTicks, and then "all SimConnectionState objects
\* attached to this component have state associated with the current cycle"
\* (SimNetworkComponentBase::Tick).
CyclesConverge == at.phase # "failed" /\ ConvergedUpToDate
=============================================================================
