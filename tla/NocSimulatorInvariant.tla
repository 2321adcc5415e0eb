----------------------- MODULE NocSimulatorInvariant -----------------------
(***************************************************************************)
(* The inductive invariant of the NocSimulator on every network, and the   *)
(* proof that every step keeps it.                                         *)
(*                                                                         *)
(* Between two cycles the balance of credits is simple; the invariant says *)
(* what it is in the middle of a cycle, where which of the two ends of a   *)
(* channel has been served is told by the time stamps alone.  What the     *)
(* proof needs of the counts of flits and credits in the pipelines is the  *)
(* formula Counting, which NocSimulatorProofs proves.                      *)
(***************************************************************************)
EXTENDS NocSimulator, TLAPS

SrcSet == Range(Srcs)
LinkSet == Range(Links)
RouterSet == Range(Routers)
SinkSet == Range(Sinks)

Flit == [src : SrcSet, dest : Dests, no : Nat, lane : VCs, vc : VCs]
Wire == {<<>>} \cup {<<f>> : f \in Flit}

Types ==
    /\ at \in [phase : {"idle", "forward", "reverse", "failed"}, n : Nat]
    /\ converged \in BOOLEAN /\ cycle0 \in BOOLEAN
    /\ forward \in [Connections -> Wire]
    /\ reverse \in [Connections -> [VCs -> Nat]]
    /\ forward_data_stages \in [LinkSet -> Seq(Wire)]
    /\ reverse_credit_stages \in [LinkSet -> [VCs -> Seq(Nat)]]
    /\ data_to_send \in [SrcSet -> [VCs -> Seq(Flit)]]
    /\ \A s \in SrcSet, vc \in VCs : data_to_send[s][vc] \in Seq({f \in Flit : f.vc = vc})
    /\ credit \in [AllOutputs -> [VCs -> Nat]]
    /\ credit_update \in [AllOutputs -> [VCs -> Nat]]
    /\ input_buffers \in [AllInputs -> [VCs -> Seq(Flit)]]
    /\ input_credit_to_send \in [AllInputs -> [VCs -> Nat]]
    /\ sent \in [SrcSet -> Seq(Flit)]

\* The sender on connection c has added the update of the last cycle to its credit,
\* and the receiver behind c has taken what arrived in this cycle.
SenderAdded(c) ==
    \/ \E s \in SrcSet : Egress[s] = c /\ ForwardDone(s) \in current
    \/ \E r \in RouterSet : c \in Outputs(r) /\ CreditsAdded(r) \in current
ReaderDone(c) ==
    \/ \E r \in RouterSet : c \in Inputs(r) /\ ForwardDone(r) \in current
    \/ \E k \in SinkSet : Ingress[k] = c /\ ForwardDone(k) \in current

\* What the stamps of each kind of component imply of one another.
SrcStamps ==
    \A s \in SrcSet :
        /\ Fwd(Egress[s]) \in current <=> ForwardDone(s) \in current
        /\ ReverseDone(s) \in current => \A vc \in VCs : Update(Egress[s], vc) \in current
LinkStamps ==
    \A l \in LinkSet :
        /\ ForwardDone(l) \in current => Fwd(LinkFrom[l]) \in current /\ Fwd(LinkTo[l]) \in current
        /\ ForwardStages[l] = 0 /\ Fwd(LinkTo[l]) \in current => ForwardDone(l) \in current
        /\ \A vc \in VCs :
              /\ VcDone(l, vc) \in current =>
                    Rev(LinkTo[l], vc) \in current /\ Rev(LinkFrom[l], vc) \in current
              /\ ReverseStages[l] = 0 /\ Rev(LinkFrom[l], vc) \in current => VcDone(l, vc) \in current
              /\ ReverseDone(l) \in current => VcDone(l, vc) \in current
RouterStamps ==
    \A r \in RouterSet :
        /\ ForwardDone(r) \in current => CreditsAdded(r) \in current
        /\ \A c \in Outputs(r) :
              /\ Fwd(c) \in current <=> ForwardDone(r) \in current
              /\ ReverseDone(r) \in current => \A vc \in VCs : Update(c, vc) \in current
        /\ \A c \in Inputs(r) :
              /\ ForwardDone(r) \in current => Fwd(c) \in current
              /\ \A vc \in VCs : /\ Rev(c, vc) \in current => ForwardDone(r) \in current
                                 /\ ReverseDone(r) \in current => Rev(c, vc) \in current
SinkStamps ==
    \A k \in SinkSet :
        /\ ForwardDone(k) \in current => Fwd(Ingress[k]) \in current
        /\ \A vc \in VCs : Rev(Ingress[k], vc) \in current <=> ForwardDone(k) \in current
UpdateStamps ==
    \A c \in AllOutputs, vc \in VCs :
        Update(c, vc) \in current => Rev(c, vc) \in current /\ SenderAdded(c)
Stamps == SrcStamps /\ LinkStamps /\ RouterStamps /\ SinkStamps /\ UpdateStamps

\* While converged holds, the components that had their turn have succeeded; a cycle
\* that has ended leaves no component behind.
Served(i) == ForwardDone(Order[i]) \in current /\ ReverseDone(Order[i]) \in current
Turns ==
    /\ at.phase = "reverse" =>
          /\ at.n \in DOMAIN Order
          /\ Order[at.n] \in SrcSet \/ converged => ForwardDone(Order[at.n]) \in current
    /\ at.phase \in {"forward", "reverse"} /\ converged =>
          \A i \in DOMAIN Order : i < at.n => Served(i)
    /\ at.phase = "idle" =>
          IF cycle0 THEN current = {} ELSE \A i \in DOMAIN Order : Served(i)

\* Until the cycle ends a router that sends its credits again sends the same.
SameCredits ==
    at.phase \in {"forward", "reverse"} =>
        \A c \in AllInputs, vc \in VCs : Rev(c, vc) \in current =>
            reverse[c][vc] = IF cycle0 THEN Depth[c][vc] ELSE input_credit_to_send[c][vc]

\* Where the credits of a link are, in the order in which they travel: with the
\* sender, as a flit on the channel before, in and behind the link and in the
\* buffer, to be sent back, and on the channel before, in and behind the link.
Held(c, vc) ==
    credit[c][vc] + (IF SenderAdded(c) /\ Update(c, vc) \notin current THEN 0 ELSE credit_update[c][vc])
Leaving(l, vc) ==
    IF /\ Fwd(LinkFrom[l]) \in current /\ ForwardDone(l) \notin current
       /\ OfVc(forward[LinkFrom[l]], vc)
    THEN 1 ELSE 0
Arriving(c, vc) ==
    IF Fwd(c) \in current /\ ~ReaderDone(c) /\ OfVc(forward[c], vc) THEN 1 ELSE 0
ToSend(c, vc) ==
    IF c \in AllInputs /\ ~cycle0 /\ ReaderDone(c) /\ Rev(c, vc) \notin current
    THEN input_credit_to_send[c][vc] ELSE 0
Entering(l, vc) ==
    IF Rev(LinkTo[l], vc) \in current /\ VcDone(l, vc) \notin current THEN reverse[LinkTo[l]][vc] ELSE 0
Exiting(c, vc) ==
    IF Rev(c, vc) \in current /\ Update(c, vc) \notin current THEN reverse[c][vc] ELSE 0

\* Before the receiver has sent its first credits there are none.
Issued(c, vc) == IF cycle0 /\ Rev(c, vc) \notin current THEN 0 ELSE Depth[c][vc]

Balance(l, vc) ==
    Held(LinkFrom[l], vc) + Leaving(l, vc) + InFlight(l, vc) + Arriving(LinkTo[l], vc)
      + Occupancy(LinkTo[l], vc) + ToSend(LinkTo[l], vc) + Entering(l, vc) + Returning(l, vc)
      + Exiting(LinkFrom[l], vc)
Balanced == \A l \in LinkSet, vc \in VCs : Balance(l, vc) = Issued(LinkTo[l], vc)

IInv == Types /\ Stamps /\ Turns /\ SameCredits /\ Balanced

\* What the balance needs of the two counts of a pipeline: the flits of a virtual
\* channel in the data stages of a link, and the credits in its credit stages. And a
\* set of virtual channels has a least one. The lemmas below assume it, and
\* NocSimulatorProofs proves it.
Counting ==
    /\ \A st \in Seq(Wire) : \A vc : Flits(st, vc) \in Nat
    /\ \A st \in Seq(Wire), w \in Wire : \A vc :
          Flits(Append(st, w), vc) = Flits(st, vc) + (IF OfVc(w, vc) THEN 1 ELSE 0)
    /\ \A st \in Seq(Wire) : st # <<>> => \A vc :
          Flits(st, vc) = Flits(Tail(st), vc) + (IF OfVc(Head(st), vc) THEN 1 ELSE 0)
    /\ \A st \in Seq(Nat) : Total(st) \in Nat
    /\ \A st \in Seq(Nat), n \in Nat : Total(Append(st, n)) = Total(st) + n
    /\ \A st \in Seq(Nat) : st # <<>> => Total(st) = Total(Tail(st)) + Head(st)
    /\ \A vc : Flits(<<>>, vc) = 0
    /\ Total(<<>>) = 0
    /\ \A T \in SUBSET Nat : T # {} => Min(T) \in T

------------------------------------------------------------------------------
(* Sequences *)

\* A sequence is a function from its positions.
LEMMA SeqLen ==
  ASSUME NEW S, NEW q \in Seq(S)
  PROVE  Len(q) \in Nat /\ DOMAIN q = 1..Len(q) /\ \A i \in 1..Len(q) : q[i] \in S
OBVIOUS

\* The empty sequence is a sequence over any set.
LEMMA SeqEmpty ==
  ASSUME NEW S
  PROVE  <<>> \in Seq(S) /\ \A q \in Seq(S) : q # <<>> => Len(q) \in Nat \ {0}
OBVIOUS

\* A sequence over a set is one over every larger set.
LEMMA SeqWider ==
  ASSUME NEW S, NEW T, S \subseteq T, NEW q \in Seq(S)
  PROVE  q \in Seq(T)
OBVIOUS

\* An element appended comes last.
LEMMA SeqAppend ==
  ASSUME NEW S, NEW q \in Seq(S), NEW e \in S
  PROVE  /\ Append(q, e) \in Seq(S) /\ Len(Append(q, e)) = Len(q) + 1
         /\ Append(q, e)[Len(q) + 1] = e /\ \A i \in 1..Len(q) : Append(q, e)[i] = q[i]
OBVIOUS

\* A sequence that is not empty has a first element; the others move up one place.
LEMMA SeqHeadTail ==
  ASSUME NEW S, NEW q \in Seq(S), q # <<>>
  PROVE  /\ Head(q) \in S /\ Tail(q) \in Seq(S) /\ Len(Tail(q)) = Len(q) - 1
         /\ \A i \in 1..Len(Tail(q)) : Tail(q)[i] = q[i + 1]
OBVIOUS

\* Two sequences one after the other.
LEMMA SeqConcat ==
  ASSUME NEW S, NEW p \in Seq(S), NEW q \in Seq(S)
  PROVE  /\ p \o q \in Seq(S) /\ Len(p \o q) = Len(p) + Len(q)
         /\ \A i \in 1..(Len(p) + Len(q)) : (p \o q)[i] = IF i <= Len(p) THEN p[i] ELSE q[i - Len(p)]
OBVIOUS

------------------------------------------------------------------------------
(* The network *)

Disjoint ==
    /\ SrcSet \cap (LinkSet \cup RouterSet \cup SinkSet) = {}
    /\ LinkSet \cap (RouterSet \cup SinkSet) = {} /\ RouterSet \cap SinkSet = {}

OneDriver ==
    /\ \A s, s2 \in SrcSet : Egress[s] = Egress[s2] => s = s2
    /\ \A l, l2 \in LinkSet : LinkTo[l] = LinkTo[l2] => l = l2
    /\ \A r, r2 \in RouterSet : \A c \in Outputs(r) : c \in Outputs(r2) => r = r2
    /\ \A s \in SrcSet, r \in RouterSet : Egress[s] \notin Outputs(r)
    /\ \A l \in LinkSet : LinkTo[l] \notin AllOutputs

OneReader ==
    /\ \A k, k2 \in SinkSet : Ingress[k] = Ingress[k2] => k = k2
    /\ \A l, l2 \in LinkSet : LinkFrom[l] = LinkFrom[l2] => l = l2
    /\ \A r, r2 \in RouterSet : \A c \in Inputs(r) : c \in Inputs(r2) => r = r2
    /\ \A k \in SinkSet : Ingress[k] \notin AllInputs
    /\ \A l \in LinkSet : LinkFrom[l] \notin AllInputs
    /\ \A l \in LinkSet, k \in SinkSet : LinkFrom[l] # Ingress[k]

Ends ==
    /\ \A s \in SrcSet : Egress[s] \in AllOutputs
    /\ \A r \in RouterSet : Outputs(r) \subseteq AllOutputs /\ Inputs(r) \subseteq AllInputs
    /\ AllOutputs \subseteq Connections /\ AllInputs \subseteq Connections
    /\ \A k \in SinkSet : Ingress[k] \in Connections
    /\ \A l \in LinkSet : /\ LinkFrom[l] \in AllOutputs /\ LinkTo[l] \in Connections
                          /\ LinkTo[l] \in AllInputs \/ \E k \in SinkSet : LinkTo[l] = Ingress[k]
    /\ \A c \in AllInputs : \E r \in RouterSet : c \in Inputs(r)
    /\ \A c \in AllOutputs : \/ \E s \in SrcSet : c = Egress[s]
                             \/ \E r \in RouterSet : c \in Outputs(r)

\* A connection has one driver and one reader; none is both before and behind links.
LEMMA Topology == Disjoint /\ OneDriver /\ OneReader /\ Ends
<1> USE NetworkAssumption DEF SrcSet, LinkSet, RouterSet, SinkSet
<1>1. Disjoint
  BY Zenon DEF Disjoint
<1>2. Ends
  <2>1. \A r \in RouterSet : Outputs(r) \subseteq Connections /\ Inputs(r) \subseteq Connections
    <3>1. \A seq \in Seq(Connections) : Range(seq) \subseteq Connections
      <4> SUFFICES ASSUME NEW seq \in Seq(Connections) PROVE \A i \in DOMAIN seq : seq[i] \in Connections
        BY DEF Range
      <4> QED BY SeqLen
    <3> QED BY <3>1, Zenon DEF Outputs, Inputs
  <2>2. \A s \in SrcSet : Egress[s] \in AllOutputs /\ Egress[s] \in Connections
    BY Zenon DEF AllOutputs
  <2>3. /\ \A r \in RouterSet : Outputs(r) \subseteq AllOutputs /\ Inputs(r) \subseteq AllInputs
        /\ \A c \in AllInputs : \E r \in RouterSet : c \in Inputs(r)
    BY ZenonT(60) DEF AllOutputs, AllInputs
  <2>4. \A c \in AllOutputs : (\E s \in SrcSet : c = Egress[s]) \/ \E r \in RouterSet : c \in Outputs(r)
    BY DEF AllOutputs
  <2>5. /\ \A k \in SinkSet : Ingress[k] \in Connections
        /\ \A l \in LinkSet : /\ LinkFrom[l] \in AllOutputs /\ LinkTo[l] \in Connections
                              /\ LinkTo[l] \in AllInputs \/ \E k \in SinkSet : LinkTo[l] = Ingress[k]
    BY Zenon
  <2> HIDE NetworkAssumption
  <2> HIDE DEF SrcSet, LinkSet, RouterSet, SinkSet
  <2> QED BY <2>1, <2>2, <2>3, <2>4, <2>5, Zenon DEF Ends
<1>3. \A c \in Connections : \A x, y \in Drivers(c) : x = y
  BY Zenon
<1>4. \A c \in Connections : \A x, y \in Readers(c) : x = y
  BY Zenon
<1>5. OneDriver
  <2>1. \A c \in Connections : /\ \A s \in SrcSet : Egress[s] = c => s \in Drivers(c)
                               /\ \A l \in LinkSet : LinkTo[l] = c => l \in Drivers(c)
                               /\ \A r \in RouterSet : c \in Outputs(r) => r \in Drivers(c)
    BY Zenon DEF Drivers
  <2> HIDE NetworkAssumption
  <2> HIDE DEF SrcSet, LinkSet, RouterSet, SinkSet
  <2> QED BY <1>1, <1>2, <1>3, <2>1 DEF OneDriver, Ends, Disjoint
<1>6. OneReader
  <2>1. \A c \in Connections : /\ \A k \in SinkSet : Ingress[k] = c => k \in Readers(c)
                               /\ \A l \in LinkSet : LinkFrom[l] = c => l \in Readers(c)
                               /\ \A r \in RouterSet : c \in Inputs(r) => r \in Readers(c)
    BY Zenon DEF Readers
  <2> HIDE NetworkAssumption
  <2> HIDE DEF SrcSet, LinkSet, RouterSet, SinkSet
  <2> QED BY <1>1, <1>2, <1>4, <2>1, SMTT(60) DEF OneReader, Ends, Disjoint
<1> QED BY <1>1, <1>2, <1>5, <1>6, Zenon

\* Tick visits every component.
LEMMA OrderVisits ==
    /\ DOMAIN Order = 1..Len(Order) /\ Len(Order) \in Nat
    /\ \A n \in SrcSet \cup LinkSet \cup RouterSet \cup SinkSet : \E i \in DOMAIN Order : Order[i] = n
<1> DEFINE All == SrcSet \cup LinkSet \cup RouterSet \cup SinkSet
           A == Srcs \o Links
           B == A \o Routers
<1>1. Srcs \in Seq(All) /\ Links \in Seq(All) /\ Routers \in Seq(All) /\ Sinks \in Seq(All)
  BY NetworkAssumption, SeqWider DEF SrcSet, LinkSet, RouterSet, SinkSet
<1> HIDE DEF All
<1>2. /\ Order = B \o Sinks
      /\ A \in Seq(All) /\ B \in Seq(All) /\ B \o Sinks \in Seq(All)
  BY <1>1, SeqConcat, Zenon DEF Order
<1>3. \A s1, s2 \in Seq(All) : Range(s1) \cup Range(s2) \subseteq Range(s1 \o s2)
  <2> SUFFICES ASSUME NEW s1 \in Seq(All), NEW s2 \in Seq(All)
               PROVE  Range(s1) \cup Range(s2) \subseteq Range(s1 \o s2)
    BY Zenon
  <2>1. /\ Len(s1) \in Nat /\ Len(s2) \in Nat /\ DOMAIN s1 = 1..Len(s1) /\ DOMAIN s2 = 1..Len(s2)
        /\ DOMAIN (s1 \o s2) = 1..(Len(s1) + Len(s2))
        /\ \A i \in 1..(Len(s1) + Len(s2)) :
              (s1 \o s2)[i] = IF i <= Len(s1) THEN s1[i] ELSE s2[i - Len(s1)]
    BY SeqConcat, SeqLen
  <2>2. ASSUME NEW i \in DOMAIN s2
        PROVE  \E j \in DOMAIN (s1 \o s2) : (s1 \o s2)[j] = s2[i]
    <3>1. /\ Len(s1) + i \in 1..(Len(s1) + Len(s2)) /\ ~(Len(s1) + i <= Len(s1))
          /\ (Len(s1) + i) - Len(s1) = i
      BY <2>1
    <3> QED BY <2>1, <3>1, Zenon
  <2>3. \A i \in DOMAIN s1 : \E j \in DOMAIN (s1 \o s2) : (s1 \o s2)[j] = s1[i]
    BY <2>1
  <2> QED BY <2>2, <2>3, ZenonT(60) DEF Range
<1>4. SrcSet \cup LinkSet \subseteq Range(A)
  BY <1>1, <1>3, Zenon DEF SrcSet, LinkSet
<1>5. Range(A) \cup RouterSet \subseteq Range(B)
  BY <1>1, <1>2, <1>3, Zenon DEF RouterSet
<1>6. Range(B) \cup SinkSet \subseteq Range(Order)
  BY <1>1, <1>2, <1>3, Zenon DEF SinkSet
<1>7. All \subseteq Range(Order)
  BY <1>4, <1>5, <1>6, Zenon DEF All
<1>8. DOMAIN Order = 1..Len(Order) /\ Len(Order) \in Nat
  BY <1>2, SeqLen, Zenon
<1>9. \A n \in All : \E i \in DOMAIN Order : Order[i] = n
  BY <1>7, Zenon DEF Range
<1> QED BY <1>8, <1>9, Zenon DEF All

------------------------------------------------------------------------------
(* The turns *)

\* A forward propagation that is tried keeps Turns; that of a source succeeds.
LEMMA ForwardTurns ==
  ASSUME NEW n, NEW ok \in BOOLEAN, NEW stamps, Types, Turns,
         TryForward(n), Tried(n, ForwardDone(n), ok, stamps), n \in SrcSet => ok
  PROVE  Turns'
<1>1. /\ at.phase = "forward" /\ at.n \in DOMAIN Order /\ Order[at.n] = n
      /\ at'.phase = "reverse" /\ at'.n = at.n /\ cycle0' = cycle0
  BY Zenon DEF TryForward, Turn, Goto
<1>2. /\ \A x \in current : x \in current'
      /\ ok => ForwardDone(n) \in current'
      /\ converged' => converged /\ ok
  BY Zenon DEF Tried, Types
<1>3. \A i \in DOMAIN Order : converged' /\ i < at.n => Served(i)'
  BY <1>1, <1>2, Zenon DEF Turns, Served
<1> QED BY <1>1, <1>2, <1>3, Zenon DEF Turns

\* A reverse propagation that is tried keeps Turns.
LEMMA ReverseTurns ==
  ASSUME NEW n, NEW ok \in BOOLEAN, NEW stamps, Types, Turns,
         TryReverse(n), Tried(n, ReverseDone(n), ok, stamps)
  PROVE  Turns'
<1>1. /\ at.phase = "reverse" /\ at.n \in DOMAIN Order /\ Order[at.n] = n
      /\ at'.phase = "forward" /\ at'.n = at.n + 1 /\ cycle0' = cycle0
  BY Zenon DEF TryReverse, Turn, Goto
<1>2. /\ \A x \in current : x \in current'
      /\ ok => ReverseDone(n) \in current'
      /\ converged' => converged /\ ok
  BY Zenon DEF Tried, Types
<1>3. ASSUME NEW i \in DOMAIN Order, converged', i < at.n + 1
      PROVE  Served(i)'
  <2>1. i < at.n \/ i = at.n
    BY <1>1, <1>3, OrderVisits
  <2>2. converged /\ ok
    BY <1>2, <1>3, Zenon
  <2>3. ForwardDone(Order[at.n]) \in current
    BY <1>1, <2>2, Zenon DEF Turns
  <2>4. i < at.n => Served(i)
    BY <1>1, <2>2, Zenon DEF Turns
  <2> QED BY <1>1, <1>2, <2>1, <2>2, <2>3, <2>4, Zenon DEF Served
<1> QED BY <1>1, <1>2, <1>3, Zenon DEF Turns

\* At the end of a cycle every component has succeeded.
LEMMA EndTurns ==
  ASSUME Types, Turns, EndTick
  PROVE  /\ Turns'
         /\ at'.phase = "idle" => \A i \in DOMAIN Order : Served(i)
<1>1. /\ at.phase = "forward" /\ at.n = Len(Order) + 1 /\ current' = current
  BY Zenon DEF EndTick
<1>2. converged => \A i \in DOMAIN Order : Served(i)
  BY <1>1, OrderVisits DEF Turns
<1>3. CASE at'.phase = "failed"
  BY <1>3, Zenon DEF Turns
<1>4. CASE at'.phase = "idle" /\ converged /\ ~cycle0'
  BY <1>1, <1>2, <1>4, Zenon DEF Turns, Served
<1>5. CASE at'.phase = "forward" /\ at'.n = 1
  BY <1>5, OrderVisits DEF Turns
<1>6. \/ at'.phase = "failed"
      \/ at'.phase = "idle" /\ converged /\ ~cycle0'
      \/ at'.phase = "forward" /\ at'.n = 1
  BY DEF EndTick, Goto
<1>7. at'.phase = "idle" => converged
  BY <1>6, Zenon
<1> QED BY <1>2, <1>3, <1>4, <1>5, <1>6, <1>7, Zenon

\* A turn that is skipped keeps Turns.
LEMMA AlreadyTurns ==
  ASSUME NEW n, Types, Turns, AlreadyDone(n)
  PROVE  Turns'
<1>1. current' = current /\ converged' = converged /\ cycle0' = cycle0
  BY Zenon DEF AlreadyDone
<1>2. CASE Turn(n, "forward") /\ ForwardDone(n) \in current /\ Goto("reverse", at.n)
  BY <1>1, <1>2, Zenon DEF Turns, Turn, Goto, Served
<1>3. CASE Turn(n, "reverse") /\ ReverseDone(n) \in current /\ Goto("forward", at.n + 1)
  <2>1. /\ at.phase = "reverse" /\ at.n \in DOMAIN Order /\ Order[at.n] = n
        /\ at'.phase = "forward" /\ at'.n = at.n + 1
    BY <1>3, Zenon DEF Turn, Goto
  <2>2. ASSUME NEW i \in DOMAIN Order, converged, i < at.n + 1
        PROVE  Served(i)
    <3>1. i < at.n \/ i = at.n
      BY <2>1, <2>2, OrderVisits
    <3> QED BY <1>3, <2>1, <2>2, <3>1, Zenon DEF Turns, Served
  <2> QED BY <1>1, <2>1, <2>2, Zenon DEF Turns, Served
<1> QED BY <1>2, <1>3, Zenon DEF AlreadyDone

------------------------------------------------------------------------------
(* The stamps an action sets *)

SameFwd == \A c : Fwd(c) \in current' <=> Fwd(c) \in current
SameRev == \A c, vc : Rev(c, vc) \in current' <=> Rev(c, vc) \in current
SameUpdate == \A c, vc : Update(c, vc) \in current' <=> Update(c, vc) \in current
SameForwardDone == \A n : ForwardDone(n) \in current' <=> ForwardDone(n) \in current
SameReverseDone == \A n : ReverseDone(n) \in current' <=> ReverseDone(n) \in current
SameVcDone == \A l, vc : VcDone(l, vc) \in current' <=> VcDone(l, vc) \in current
SameCreditsAdded == \A r : CreditsAdded(r) \in current' <=> CreditsAdded(r) \in current

\* The source stamps its egress.
LEMMA SrcForwardStamps ==
  ASSUME NEW s, SrcForward(s)
  PROVE  /\ \A c : Fwd(c) \in current' <=> Fwd(c) \in current \/ c = Egress[s]
         /\ \A n : ForwardDone(n) \in current' <=> ForwardDone(n) \in current \/ n = s
         /\ SameRev /\ SameUpdate /\ SameReverseDone /\ SameVcDone /\ SameCreditsAdded
<1>1. current' = (current \cup {Fwd(Egress[s])}) \cup {ForwardDone(s)}
  BY Zenon DEF SrcForward, Tried
<1> QED BY <1>1, Zenon
           DEF SameRev, SameUpdate, SameReverseDone, SameVcDone, SameCreditsAdded,
       Fwd, Rev, Update, ForwardDone, ReverseDone, VcDone, CreditsAdded

\* The source stamps the updates it has read.
LEMMA SrcReverseStamps ==
  ASSUME NEW s, SrcReverse(s)
  PROVE  /\ \A c, vc : Update(c, vc) \in current' <=>
                \/ Update(c, vc) \in current
                \/ c = Egress[s] /\ vc \in VCs /\ Rev(c, vc) \in current
         /\ \A n : ReverseDone(n) \in current' =>
                \/ ReverseDone(n) \in current
                \/ n = s /\ \A vc \in VCs : Rev(Egress[s], vc) \in current
         /\ SameFwd /\ SameRev /\ SameForwardDone /\ SameVcDone /\ SameCreditsAdded
<1>1. current' = (current \cup {Update(Egress[s], vc) : vc \in Ready(Egress[s])})
                    \cup (IF Ready(Egress[s]) = VCs THEN {ReverseDone(s)} ELSE {})
  BY ZenonT(60) DEF SrcReverse, Tried, NewStamps
<1>2. \A vc : vc \in Ready(Egress[s]) <=> vc \in VCs /\ Rev(Egress[s], vc) \in current
  BY Zenon DEF Ready
<1>3. \A c, vc : Update(c, vc) \in current' <=>
                \/ Update(c, vc) \in current
                \/ c = Egress[s] /\ vc \in Ready(Egress[s])
  BY <1>1, Zenon DEF Update, ReverseDone
<1>4. \A n : ReverseDone(n) \in current' =>
                ReverseDone(n) \in current \/ (n = s /\ Ready(Egress[s]) = VCs)
  BY <1>1, Zenon DEF Update, ReverseDone
<1>5. SameFwd /\ SameRev /\ SameForwardDone /\ SameVcDone /\ SameCreditsAdded
  BY <1>1, Zenon DEF SameFwd, SameRev, SameForwardDone, SameVcDone, SameCreditsAdded,
       Fwd, Rev, Update, ForwardDone, ReverseDone, VcDone, CreditsAdded
<1> QED BY <1>2, <1>3, <1>4, <1>5, Zenon

\* The link stamps the connection behind it, and itself once it has read the other.
LEMMA LinkForwardStamps ==
  ASSUME NEW l, LinkForward(l)
  PROVE  /\ \A c : Fwd(c) \in current' <=>
                \/ Fwd(c) \in current
                \/ c = LinkTo[l] /\ (ForwardStages[l] = 0 => Fwd(LinkFrom[l]) \in current)
         /\ \A n : ForwardDone(n) \in current' <=>
                ForwardDone(n) \in current \/ (n = l /\ Fwd(LinkFrom[l]) \in current)
         /\ SameRev /\ SameUpdate /\ SameReverseDone /\ SameVcDone /\ SameCreditsAdded
<1> DEFINE ready == Fwd(LinkFrom[l]) \in current
           update == IF ForwardStages[l] = 0 THEN ready ELSE Fwd(LinkTo[l]) \notin current
<1>1. current' = (current \cup (IF update THEN {Fwd(LinkTo[l])} ELSE {}))
                    \cup (IF ready THEN {ForwardDone(l)} ELSE {})
  BY Zenon DEF LinkForward, Tried
<1> HIDE DEF ready, update
<1>2. /\ \A c : Fwd(c) \in current' <=> Fwd(c) \in current \/ (c = LinkTo[l] /\ update)
      /\ \A n : ForwardDone(n) \in current' <=> ForwardDone(n) \in current \/ (n = l /\ ready)
      /\ SameRev /\ SameUpdate /\ SameReverseDone /\ SameVcDone /\ SameCreditsAdded
  BY <1>1, Zenon DEF SameRev, SameUpdate, SameReverseDone, SameVcDone, SameCreditsAdded,
       Fwd, Rev, Update, ForwardDone, ReverseDone, VcDone, CreditsAdded
<1> QED BY <1>2, Zenon DEF ready, update

\* The link stamps each virtual channel of the connection before it, and its own
\* progress on it once it has read the other.
LEMMA LinkReverseStamps ==
  ASSUME NEW l, LinkReverse(l)
  PROVE  /\ \A c, vc : Rev(c, vc) \in current' <=>
                \/ Rev(c, vc) \in current
                \/ /\ c = LinkFrom[l] /\ vc \in VCs /\ VcDone(l, vc) \notin current
                   /\ ReverseStages[l] = 0 => Rev(LinkTo[l], vc) \in current
         /\ \A n, vc : VcDone(n, vc) \in current' <=>
                VcDone(n, vc) \in current \/ (n = l /\ vc \in VCs /\ Rev(LinkTo[l], vc) \in current)
         /\ \A n : ReverseDone(n) \in current' =>
                \/ ReverseDone(n) \in current
                \/ n = l /\ \A vc \in VCs : VcDone(l, vc) \in current'
         /\ SameFwd /\ SameUpdate /\ SameForwardDone /\ SameCreditsAdded
<1> DEFINE todo == {vc \in VCs : VcDone(l, vc) \notin current}
           ready == {vc \in todo : Rev(LinkTo[l], vc) \in current}
           update == {vc \in todo : IF ReverseStages[l] = 0 THEN vc \in ready
                                    ELSE Rev(LinkFrom[l], vc) \notin current}
<1>1. current' = (current \cup ({Rev(LinkFrom[l], vc) : vc \in update} \cup {VcDone(l, vc) : vc \in ready}))
                    \cup (IF ready = todo THEN {ReverseDone(l)} ELSE {})
  BY Zenon DEF LinkReverse, Tried
<1>2. /\ \A vc : vc \in ready <=> vc \in VCs /\ VcDone(l, vc) \notin current /\ Rev(LinkTo[l], vc) \in current
      /\ \A vc : vc \in update <=> /\ vc \in VCs /\ VcDone(l, vc) \notin current
                                   /\ IF ReverseStages[l] = 0 THEN Rev(LinkTo[l], vc) \in current
                                      ELSE Rev(LinkFrom[l], vc) \notin current
      /\ ready = todo => \A vc \in VCs : VcDone(l, vc) \notin current => vc \in ready
  BY Zenon
<1> HIDE DEF todo, ready, update
<1>3. \A c, vc : Rev(c, vc) \in current' <=> Rev(c, vc) \in current \/ (c = LinkFrom[l] /\ vc \in update)
  BY <1>1, Zenon DEF Rev, VcDone, ReverseDone
<1>4. \A n, vc : VcDone(n, vc) \in current' <=> VcDone(n, vc) \in current \/ (n = l /\ vc \in ready)
  BY <1>1, Zenon DEF Rev, VcDone, ReverseDone
<1>5. \A n : ReverseDone(n) \in current' => ReverseDone(n) \in current \/ (n = l /\ ready = todo)
  BY <1>1, Zenon DEF Rev, VcDone, ReverseDone
<1>6. SameFwd /\ SameUpdate /\ SameForwardDone /\ SameCreditsAdded
  BY <1>1, Zenon DEF SameFwd, SameUpdate, SameForwardDone, SameCreditsAdded,
       Fwd, Rev, Update, ForwardDone, ReverseDone, VcDone, CreditsAdded
<1>7. \A c, vc : Rev(c, vc) \in current' <=>
                \/ Rev(c, vc) \in current
                \/ /\ c = LinkFrom[l] /\ vc \in VCs /\ VcDone(l, vc) \notin current
                   /\ ReverseStages[l] = 0 => Rev(LinkTo[l], vc) \in current
  BY <1>2, <1>3, Zenon
<1>8. \A n, vc : VcDone(n, vc) \in current' <=>
                VcDone(n, vc) \in current \/ (n = l /\ vc \in VCs /\ Rev(LinkTo[l], vc) \in current)
  BY <1>2, <1>4, Zenon
<1>9. ready = todo => \A vc \in VCs : VcDone(l, vc) \in current'
  BY <1>2, <1>4, Zenon
<1> QED BY <1>5, <1>6, <1>7, <1>8, <1>9, Zenon

\* The router stamps that it has added its credits and, when its inputs are ready,
\* its outputs and itself.
LEMMA RouterForwardStamps ==
  ASSUME NEW r, RouterForward(r)
  PROVE  /\ \A c : Fwd(c) \in current' <=> Fwd(c) \in current \/ (CanPropagate(r) /\ c \in Outputs(r))
         /\ \A n : ForwardDone(n) \in current' <=> ForwardDone(n) \in current \/ (n = r /\ CanPropagate(r))
         /\ \A n : CreditsAdded(n) \in current' <=> CreditsAdded(n) \in current \/ n = r
         /\ SameRev /\ SameUpdate /\ SameReverseDone /\ SameVcDone
<1> DEFINE ready == CanPropagate(r)
<1>1. current' = (current \cup ({CreditsAdded(r)} \cup (IF ready THEN {Fwd(c) : c \in Outputs(r)} ELSE {})))
                    \cup (IF ready THEN {ForwardDone(r)} ELSE {})
  BY Zenon DEF RouterForward, Tried
<1> HIDE DEF ready
<1>2. \A c : Fwd(c) \in current' <=> Fwd(c) \in current \/ (ready /\ c \in Outputs(r))
  BY <1>1, Zenon DEF Fwd, CreditsAdded, ForwardDone
<1>3. \A n : ForwardDone(n) \in current' <=> ForwardDone(n) \in current \/ (n = r /\ ready)
  BY <1>1, Zenon DEF Fwd, CreditsAdded, ForwardDone
<1>4. \A n : CreditsAdded(n) \in current' <=> CreditsAdded(n) \in current \/ n = r
  BY <1>1, Zenon DEF Fwd, CreditsAdded, ForwardDone
<1>5. SameRev /\ SameUpdate /\ SameReverseDone /\ SameVcDone
  BY <1>1, Zenon DEF SameRev, SameUpdate, SameReverseDone, SameVcDone,
       Fwd, Rev, Update, ForwardDone, ReverseDone, VcDone, CreditsAdded
<1> QED BY <1>2, <1>3, <1>4, <1>5, Zenon DEF ready

\* The router stamps its inputs, and the updates of its outputs that it has read.
LEMMA RouterReverseStamps ==
  ASSUME NEW r, RouterReverse(r)
  PROVE  /\ \A c, vc : Rev(c, vc) \in current' <=>
                Rev(c, vc) \in current \/ (MayReverse(r) /\ c \in Inputs(r) /\ vc \in VCs)
         /\ \A c, vc : Update(c, vc) \in current' <=>
                \/ Update(c, vc) \in current
                \/ MayReverse(r) /\ c \in Outputs(r) /\ vc \in VCs /\ Rev(c, vc) \in current
         /\ \A n : ReverseDone(n) \in current' =>
                \/ ReverseDone(n) \in current
                \/ n = r /\ MayReverse(r) /\ \A c \in Outputs(r), vc \in VCs : Rev(c, vc) \in current
         /\ SameFwd /\ SameForwardDone /\ SameVcDone /\ SameCreditsAdded
<1> DEFINE may == MayReverse(r)
           ups == NewStamps(Outputs(r))
           ins == {Rev(c, vc) : c \in Inputs(r), vc \in VCs}
           ok == \A c \in Outputs(r) : Ready(c) = VCs
<1>1. CASE ~may
  <2>1. current' = current
    BY <1>1 DEF RouterReverse, Tried
  <2> QED BY <1>1, <2>1, Zenon DEF SameFwd, SameForwardDone, SameVcDone, SameCreditsAdded
<1>2. CASE may
  <2>1. current' = (current \cup (ups \cup ins)) \cup (IF ok THEN {ReverseDone(r)} ELSE {})
    BY <1>2 DEF RouterReverse, Tried
  <2>2. \A x : x \in ups <=> \E c \in Outputs(r), vc \in VCs : x = Update(c, vc) /\ Rev(c, vc) \in current
    BY DEF NewStamps, Ready
  <2>3. ok => \A c \in Outputs(r), vc \in VCs : Rev(c, vc) \in current
    BY Zenon DEF Ready
  <2>9. \A x : x \in ins <=> \E c \in Inputs(r), vc \in VCs : x = Rev(c, vc)
    OBVIOUS
  <2> HIDE DEF may, ups, ins, ok
  <2>10. \A x : x \in current' <=> x \in current \/ x \in ups \/ x \in ins \/ (ok /\ x = ReverseDone(r))
    BY <2>1, Zenon
  <2>4. \A c, vc : Rev(c, vc) \in current' <=> Rev(c, vc) \in current \/ (c \in Inputs(r) /\ vc \in VCs)
    <3>1. \A c, vc, d, w : /\ Rev(c, vc) = Rev(d, w) <=> c = d /\ vc = w
                           /\ Rev(c, vc) # Update(d, w)
      BY Zenon DEF Rev, Update
    <3>2. \A c, vc : Rev(c, vc) # ReverseDone(r)
      BY Zenon DEF Rev, ReverseDone
    <3>3. \A c, vc : Rev(c, vc) \notin ups /\ (Rev(c, vc) \in ins <=> c \in Inputs(r) /\ vc \in VCs)
      BY <2>2, <2>9, <3>1
    <3> QED BY <2>10, <3>2, <3>3
  <2>5. \A c, vc : Update(c, vc) \in current' <=>
                \/ Update(c, vc) \in current
                \/ c \in Outputs(r) /\ vc \in VCs /\ Rev(c, vc) \in current
    <3>1. \A c, vc : Update(c, vc) \in current' <=> Update(c, vc) \in current \/ Update(c, vc) \in ups
      <4>1. \A c, vc, d, w : Update(c, vc) # Rev(d, w)
        BY Zenon DEF Rev, Update
      <4>2. \A c, vc : Update(c, vc) # ReverseDone(r)
        BY Zenon DEF Update, ReverseDone
      <4>3. \A c, vc : Update(c, vc) \notin ins
        BY <2>9, <4>1
      <4> QED BY <2>10, <4>2, <4>3
    <3>2. \A c, vc : Update(c, vc) \in ups <=> c \in Outputs(r) /\ vc \in VCs /\ Rev(c, vc) \in current
      <4>1. \A c, vc, d, w : Update(c, vc) = Update(d, w) <=> c = d /\ vc = w
        BY Zenon DEF Update
      <4> QED BY <2>2, <4>1
    <3> QED BY <3>1, <3>2, Zenon
  <2>6. \A n : ReverseDone(n) \in current' => ReverseDone(n) \in current \/ (n = r /\ ok)
    <3>1. \A n, d, w : ReverseDone(n) # Rev(d, w) /\ ReverseDone(n) # Update(d, w)
      BY Zenon DEF Rev, Update, ReverseDone
    <3>2. \A n : ReverseDone(n) = ReverseDone(r) => n = r
      BY Zenon DEF ReverseDone
    <3> QED BY <2>2, <2>9, <2>10, <3>1, <3>2, SMTT(60)
  <2>7. SameFwd /\ SameForwardDone /\ SameVcDone /\ SameCreditsAdded
    <3>1. \A n, v, d, w : /\ Fwd(n) # Rev(d, w) /\ Fwd(n) # Update(d, w) /\ Fwd(n) # ReverseDone(d)
                          /\ ForwardDone(n) # Rev(d, w) /\ ForwardDone(n) # Update(d, w)
                          /\ ForwardDone(n) # ReverseDone(d)
                          /\ VcDone(n, v) # Rev(d, w) /\ VcDone(n, v) # Update(d, w)
                          /\ VcDone(n, v) # ReverseDone(d)
                          /\ CreditsAdded(n) # Rev(d, w) /\ CreditsAdded(n) # Update(d, w)
                          /\ CreditsAdded(n) # ReverseDone(d)
      BY DEF Fwd, Rev, Update, ForwardDone, ReverseDone, VcDone, CreditsAdded
    <3> QED BY <2>2, <2>9, <2>10, <3>1, SMTT(60)
               DEF SameFwd, SameForwardDone, SameVcDone, SameCreditsAdded
  <2>8. MayReverse(r)
    BY <1>2, Zenon DEF may
  <2> QED BY <2>3, <2>4, <2>5, <2>6, <2>7, <2>8, ZenonT(60)
<1> QED BY <1>1, <1>2, Zenon

\* The sink stamps the credits it sends back, once a connection is ready.
LEMMA SinkForwardStamps ==
  ASSUME NEW k, SinkForward(k)
  PROVE  /\ \A c, vc : Rev(c, vc) \in current' <=>
                \/ Rev(c, vc) \in current
                \/ c = Ingress[k] /\ vc \in VCs /\ Fwd(Ingress[k]) \in current
         /\ \A n : ForwardDone(n) \in current' <=>
                ForwardDone(n) \in current \/ (n = k /\ Fwd(Ingress[k]) \in current)
         /\ SameFwd /\ SameUpdate /\ SameReverseDone /\ SameVcDone /\ SameCreditsAdded
<1> DEFINE ready == Fwd(Ingress[k]) \in current
<1>1. CASE ~ready
  <2>1. current' = current
    BY <1>1, Zenon DEF SinkForward, Tried
  <2> QED BY <1>1, <2>1, Zenon
             DEF SameFwd, SameUpdate, SameReverseDone, SameVcDone, SameCreditsAdded
<1>2. CASE ready
  <2>1. current' = (current \cup {Rev(Ingress[k], vc) : vc \in VCs}) \cup {ForwardDone(k)}
    BY <1>2, Zenon DEF SinkForward, Tried
  <2> HIDE DEF ready
  <2>2. \A c, vc : Rev(c, vc) \in current' <=> Rev(c, vc) \in current \/ (c = Ingress[k] /\ vc \in VCs)
    BY <2>1, Zenon DEF Rev, ForwardDone
  <2>3. \A n : ForwardDone(n) \in current' <=> ForwardDone(n) \in current \/ n = k
    BY <2>1, Zenon DEF Rev, ForwardDone
  <2>4. SameFwd /\ SameUpdate /\ SameReverseDone /\ SameVcDone /\ SameCreditsAdded
    BY <2>1, Zenon DEF SameFwd, SameUpdate, SameReverseDone, SameVcDone, SameCreditsAdded,
       Fwd, Rev, Update, ForwardDone, ReverseDone, VcDone, CreditsAdded
  <2> QED BY <1>2, <2>2, <2>3, <2>4, Zenon DEF ready
<1> QED BY <1>1, <1>2, Zenon

\* The sink has nothing to do in the reverse direction but to be done.
LEMMA SinkReverseStamps ==
  ASSUME NEW k, SinkReverse(k)
  PROVE  /\ \A n : ReverseDone(n) \in current' => ReverseDone(n) \in current \/ n = k
         /\ SameFwd /\ SameRev /\ SameUpdate /\ SameForwardDone /\ SameVcDone /\ SameCreditsAdded
<1>1. current' = current \cup {ReverseDone(k)}
  BY Zenon DEF SinkReverse, Tried
<1> QED BY <1>1, Zenon
           DEF SameFwd, SameRev, SameUpdate, SameForwardDone, SameVcDone, SameCreditsAdded,
       Fwd, Rev, Update, ForwardDone, ReverseDone, VcDone, CreditsAdded

------------------------------------------------------------------------------
(* Every action keeps the relations between the stamps *)

\* No component is of two kinds, and none drives or reads the connection of another.
LEMMA Apart ==
  /\ \A s \in SrcSet, l \in LinkSet : s # l /\ Egress[s] # LinkTo[l]
  /\ \A s \in SrcSet, r \in RouterSet : s # r /\ Egress[s] \notin Outputs(r)
  /\ \A s \in SrcSet, k \in SinkSet : s # k
  /\ \A l \in LinkSet, r \in RouterSet : l # r /\ LinkTo[l] \notin Outputs(r) /\ LinkFrom[l] \notin Inputs(r)
  /\ \A l \in LinkSet, k \in SinkSet : l # k /\ LinkFrom[l] # Ingress[k]
  /\ \A r \in RouterSet, k \in SinkSet : r # k /\ Ingress[k] \notin Inputs(r)
<1>1. /\ \A s \in SrcSet, l \in LinkSet : s # l
      /\ \A s \in SrcSet, r \in RouterSet : s # r
      /\ \A s \in SrcSet, k \in SinkSet : s # k
      /\ \A l \in LinkSet, r \in RouterSet : l # r
      /\ \A l \in LinkSet, k \in SinkSet : l # k
      /\ \A r \in RouterSet, k \in SinkSet : r # k
  BY Topology DEF Disjoint
<1>2. /\ \A s \in SrcSet, l \in LinkSet : Egress[s] # LinkTo[l]
      /\ \A s \in SrcSet, r \in RouterSet : Egress[s] \notin Outputs(r)
      /\ \A l \in LinkSet, r \in RouterSet : LinkTo[l] \notin Outputs(r)
  BY Topology, Zenon DEF OneDriver, Ends
<1>3. /\ \A l \in LinkSet, r \in RouterSet : LinkFrom[l] \notin Inputs(r)
      /\ \A l \in LinkSet, k \in SinkSet : LinkFrom[l] # Ingress[k]
      /\ \A r \in RouterSet, k \in SinkSet : Ingress[k] \notin Inputs(r)
  BY Topology, Zenon DEF OneReader, Ends
<1> QED BY <1>1, <1>2, <1>3, Zenon

\* The stamps a step leaves alone, or at most adds to.
Kept(x) == x \in current' <=> x \in current
Grows == \A x \in current : x \in current'

SrcKept == \A s \in SrcSet : Kept(Fwd(Egress[s])) /\ Kept(ForwardDone(s)) /\ Kept(ReverseDone(s))
LinkKept ==
    \A l \in LinkSet :
        /\ Kept(Fwd(LinkTo[l])) /\ Kept(ForwardDone(l)) /\ Kept(ReverseDone(l))
        /\ \A vc \in VCs : Kept(Rev(LinkFrom[l], vc)) /\ Kept(VcDone(l, vc))
RouterKept ==
    \A r \in RouterSet :
        /\ Kept(ForwardDone(r)) /\ Kept(ReverseDone(r))
        /\ \A c \in Outputs(r) : Kept(Fwd(c))
        /\ \A c \in Inputs(r), vc \in VCs : Kept(Rev(c, vc))
SinkKept == \A k \in SinkSet : Kept(ForwardDone(k)) /\ \A vc \in VCs : Kept(Rev(Ingress[k], vc))

\* A step that sets none of the stamps of a kind of component keeps what those imply.
LEMMA Frame ==
  ASSUME Stamps, Grows
  PROVE  /\ SrcKept => SrcStamps'
         /\ LinkKept => LinkStamps'
         /\ RouterKept => RouterStamps'
         /\ SinkKept => SinkStamps'
<1> USE DEF Stamps, Kept, Grows
<1>1. SrcKept => SrcStamps'
  BY Zenon DEF SrcKept, SrcStamps
<1>2. LinkKept => LinkStamps'
  BY Zenon DEF LinkKept, LinkStamps
<1>3. RouterKept => RouterStamps'
  BY Zenon DEF RouterKept, RouterStamps
<1>4. SinkKept => SinkStamps'
  BY Zenon DEF SinkKept, SinkStamps
<1> QED BY <1>1, <1>2, <1>3, <1>4, Zenon

\* SrcForward keeps what the stamps imply of one another.
LEMMA SrcForwardKeeps ==
  ASSUME NEW s \in SrcSet, Stamps, SrcForward(s)
  PROVE  Stamps'
<1>1. /\ \A c : Fwd(c) \in current' <=> Fwd(c) \in current \/ c = Egress[s]
      /\ \A n : ForwardDone(n) \in current' <=> ForwardDone(n) \in current \/ n = s
      /\ SameRev /\ SameUpdate /\ SameReverseDone /\ SameVcDone /\ SameCreditsAdded
  BY SrcForwardStamps, Zenon
<1>2. Grows
  BY Zenon DEF SrcForward, Tried, Grows
<1>3. \A c : c # Egress[s] => Kept(Fwd(c))
  BY <1>1, Zenon DEF Kept
<1>4. \A c, vc : Kept(Rev(c, vc))
  BY <1>1, Zenon DEF Kept, SameRev
<1>5. \A n : n # s => Kept(ForwardDone(n)) /\ Kept(ReverseDone(n)) /\ \A vc : Kept(VcDone(n, vc))
  <2>1. \A n : n # s => Kept(ForwardDone(n))
    BY <1>1, Zenon DEF Kept
  <2>2. \A n : n # s => Kept(ReverseDone(n))
    BY <1>1, <1>2, Zenon DEF Kept, Grows, SameReverseDone
  <2>3. \A n, vc : n # s => Kept(VcDone(n, vc))
    BY <1>1, Zenon DEF Kept, SameVcDone
  <2> QED BY <2>1, <2>2, <2>3, Zenon
<1>6. LinkKept /\ RouterKept /\ SinkKept
  <2>1. LinkKept
    BY <1>3, <1>4, <1>5, Apart, Zenon DEF LinkKept
  <2>2. RouterKept
    BY <1>3, <1>4, <1>5, Apart, Zenon DEF RouterKept
  <2>3. SinkKept
    BY <1>3, <1>4, <1>5, Apart, Zenon DEF SinkKept
  <2> QED BY <2>1, <2>2, <2>3, Zenon
<1>7. SrcStamps'
  BY <1>1, <1>2, Topology, Zenon
     DEF Stamps, SrcStamps, Grows, OneDriver, SameReverseDone, SameUpdate
<1>8. UpdateStamps'
  BY <1>1, Zenon
     DEF Stamps, UpdateStamps, SenderAdded, SameUpdate, SameRev, SameCreditsAdded
<1> QED BY <1>2, <1>6, <1>7, <1>8, Frame, Zenon DEF Stamps

\* SrcReverse keeps what the stamps imply of one another.
LEMMA SrcReverseKeeps ==
  ASSUME NEW s \in SrcSet, Stamps, Turns, SrcReverse(s)
  PROVE  Stamps'
<1>1. /\ \A c, vc : Update(c, vc) \in current' <=>
             \/ Update(c, vc) \in current
             \/ c = Egress[s] /\ vc \in VCs /\ Rev(c, vc) \in current
      /\ \A n : ReverseDone(n) \in current' =>
             \/ ReverseDone(n) \in current
             \/ n = s /\ \A vc \in VCs : Rev(Egress[s], vc) \in current
      /\ SameFwd /\ SameRev /\ SameForwardDone /\ SameVcDone /\ SameCreditsAdded
  BY SrcReverseStamps, Zenon
<1>2. Grows
  BY Zenon DEF SrcReverse, Tried, Grows
<1>3. \A c : Kept(Fwd(c))
  BY <1>1, Zenon DEF Kept, SameFwd
<1>4. \A c, vc : Kept(Rev(c, vc))
  BY <1>1, Zenon DEF Kept, SameRev
<1>5. \A n : n # s => Kept(ForwardDone(n)) /\ Kept(ReverseDone(n)) /\ \A vc : Kept(VcDone(n, vc))
  <2>1. \A n : n # s => Kept(ForwardDone(n))
    BY <1>1, Zenon DEF Kept, SameForwardDone
  <2>2. \A n : n # s => Kept(ReverseDone(n))
    BY <1>1, <1>2, Zenon DEF Kept, Grows
  <2>3. \A n, vc : n # s => Kept(VcDone(n, vc))
    BY <1>1, Zenon DEF Kept, SameVcDone
  <2> QED BY <2>1, <2>2, <2>3, Zenon
<1>6. LinkKept /\ RouterKept /\ SinkKept
  <2>1. LinkKept
    BY <1>3, <1>4, <1>5, Apart, Zenon DEF LinkKept
  <2>2. RouterKept
    BY <1>3, <1>4, <1>5, Apart, Zenon DEF RouterKept
  <2>3. SinkKept
    BY <1>3, <1>4, <1>5, Apart, Zenon DEF SinkKept
  <2> QED BY <2>1, <2>2, <2>3, Zenon
<1>7. SrcStamps'
  BY <1>1, <1>2, Topology, Zenon DEF Stamps, SrcStamps, Grows, SameFwd, SameForwardDone
<1>8. UpdateStamps'
  <2>1. ForwardDone(s) \in current
    BY Zenon DEF SrcReverse, TryReverse, Turn, Turns
  <2> QED BY <1>1, <2>1, Zenon
             DEF Stamps, UpdateStamps, SenderAdded, SameRev, SameForwardDone, SameCreditsAdded
<1> QED BY <1>2, <1>6, <1>7, <1>8, Frame, Zenon DEF Stamps

\* LinkForward keeps what the stamps imply of one another.
LEMMA LinkForwardKeeps ==
  ASSUME NEW l \in LinkSet, Stamps, LinkForward(l)
  PROVE  Stamps'
<1>1. /\ \A c : Fwd(c) \in current' <=>
             \/ Fwd(c) \in current
             \/ c = LinkTo[l] /\ (ForwardStages[l] = 0 => Fwd(LinkFrom[l]) \in current)
      /\ \A n : ForwardDone(n) \in current' <=>
             ForwardDone(n) \in current \/ (n = l /\ Fwd(LinkFrom[l]) \in current)
      /\ SameRev /\ SameUpdate /\ SameReverseDone /\ SameVcDone /\ SameCreditsAdded
  BY LinkForwardStamps, Zenon
<1>2. Grows
  BY Zenon DEF LinkForward, Tried, Grows
<1>3. \A c : c # LinkTo[l] => Kept(Fwd(c))
  BY <1>1, Zenon DEF Kept
<1>4. \A c, vc : Kept(Rev(c, vc))
  BY <1>1, Zenon DEF Kept, SameRev
<1>5. \A n : n # l => Kept(ForwardDone(n)) /\ Kept(ReverseDone(n)) /\ \A vc : Kept(VcDone(n, vc))
  <2>1. \A n : n # l => Kept(ForwardDone(n))
    BY <1>1, Zenon DEF Kept
  <2>2. \A n : n # l => Kept(ReverseDone(n))
    BY <1>1, <1>2, Zenon DEF Kept, Grows, SameReverseDone
  <2>3. \A n, vc : n # l => Kept(VcDone(n, vc))
    BY <1>1, Zenon DEF Kept, SameVcDone
  <2> QED BY <2>1, <2>2, <2>3, Zenon
<1>6. SrcKept /\ RouterKept /\ SinkKept
  <2>1. SrcKept
    BY <1>3, <1>4, <1>5, Apart, Zenon DEF SrcKept
  <2>2. RouterKept
    BY <1>3, <1>4, <1>5, Apart, Zenon DEF RouterKept
  <2>3. SinkKept
    BY <1>3, <1>4, <1>5, Apart, Zenon DEF SinkKept
  <2> QED BY <2>1, <2>2, <2>3, Zenon
<1>7. LinkStamps'
  BY <1>1, <1>2, Topology
     DEF Stamps, LinkStamps, Grows, OneDriver, SameVcDone, SameRev, SameReverseDone
<1>8. UpdateStamps'
  BY <1>1, Zenon
     DEF Stamps, UpdateStamps, SenderAdded, SameUpdate, SameRev, SameCreditsAdded
<1> QED BY <1>2, <1>6, <1>7, <1>8, Frame, Zenon DEF Stamps

\* LinkReverse keeps what the stamps imply of one another.
LEMMA LinkReverseKeeps ==
  ASSUME NEW l \in LinkSet, Stamps, LinkReverse(l)
  PROVE  Stamps'
<1>1. /\ \A c, vc : Rev(c, vc) \in current' <=>
             \/ Rev(c, vc) \in current
             \/ /\ c = LinkFrom[l] /\ vc \in VCs /\ VcDone(l, vc) \notin current
                /\ ReverseStages[l] = 0 => Rev(LinkTo[l], vc) \in current
      /\ \A n, vc : VcDone(n, vc) \in current' <=>
             VcDone(n, vc) \in current \/ (n = l /\ vc \in VCs /\ Rev(LinkTo[l], vc) \in current)
      /\ \A n : ReverseDone(n) \in current' =>
             \/ ReverseDone(n) \in current
             \/ n = l /\ \A vc \in VCs : VcDone(l, vc) \in current'
      /\ SameFwd /\ SameUpdate /\ SameForwardDone /\ SameCreditsAdded
  BY LinkReverseStamps, Zenon
<1>2. Grows
  BY Zenon DEF LinkReverse, Tried, Grows
<1>3. \A c : Kept(Fwd(c))
  BY <1>1, Zenon DEF Kept, SameFwd
<1>4. \A c, vc : c # LinkFrom[l] => Kept(Rev(c, vc))
  BY <1>1, Zenon DEF Kept
<1>5. \A n : n # l => Kept(ForwardDone(n)) /\ Kept(ReverseDone(n)) /\ \A vc : Kept(VcDone(n, vc))
  <2>1. \A n : n # l => Kept(ForwardDone(n))
    BY <1>1, Zenon DEF Kept, SameForwardDone
  <2>2. \A n : n # l => Kept(ReverseDone(n))
    BY <1>1, <1>2, Zenon DEF Kept, Grows
  <2>3. \A n, vc : n # l => Kept(VcDone(n, vc))
    BY <1>1, Zenon DEF Kept
  <2> QED BY <2>1, <2>2, <2>3, Zenon
<1>6. SrcKept /\ RouterKept /\ SinkKept
  <2>1. SrcKept
    BY <1>3, <1>4, <1>5, Apart, Zenon DEF SrcKept
  <2>2. RouterKept
    BY <1>3, <1>4, <1>5, Apart, Zenon DEF RouterKept
  <2>3. SinkKept
    BY <1>3, <1>4, <1>5, Apart, Zenon DEF SinkKept
  <2> QED BY <2>1, <2>2, <2>3, Zenon
<1>7. LinkStamps'
  BY <1>1, <1>2, Topology
     DEF Stamps, LinkStamps, Grows, OneReader, SameForwardDone, SameFwd
<1>8. UpdateStamps'
  BY <1>1, Zenon
     DEF Stamps, UpdateStamps, SenderAdded, SameUpdate, SameForwardDone, SameCreditsAdded
<1> QED BY <1>2, <1>6, <1>7, <1>8, Frame, Zenon DEF Stamps

\* RouterForward keeps what the stamps imply of one another.
LEMMA RouterForwardKeeps ==
  ASSUME NEW r \in RouterSet, Stamps, RouterForward(r)
  PROVE  Stamps'
<1>1. /\ \A c : Fwd(c) \in current' <=> Fwd(c) \in current \/ (CanPropagate(r) /\ c \in Outputs(r))
      /\ \A n : ForwardDone(n) \in current' <=> ForwardDone(n) \in current \/ (n = r /\ CanPropagate(r))
      /\ \A n : CreditsAdded(n) \in current' <=> CreditsAdded(n) \in current \/ n = r
      /\ SameRev /\ SameUpdate /\ SameReverseDone /\ SameVcDone
  BY RouterForwardStamps, Zenon
<1>2. Grows
  BY Zenon DEF RouterForward, Tried, Grows
<1>3. \A c : c \notin Outputs(r) => Kept(Fwd(c))
  BY <1>1, Zenon DEF Kept
<1>4. \A c, vc : Kept(Rev(c, vc))
  BY <1>1, Zenon DEF Kept, SameRev
<1>5. \A n : n # r => Kept(ForwardDone(n)) /\ Kept(ReverseDone(n)) /\ \A vc : Kept(VcDone(n, vc))
  <2>1. \A n : n # r => Kept(ForwardDone(n))
    BY <1>1, Zenon DEF Kept
  <2>2. \A n : n # r => Kept(ReverseDone(n))
    BY <1>1, <1>2, Zenon DEF Kept, Grows, SameReverseDone
  <2>3. \A n, vc : n # r => Kept(VcDone(n, vc))
    BY <1>1, Zenon DEF Kept, SameVcDone
  <2> QED BY <2>1, <2>2, <2>3, Zenon
<1>6. SrcKept /\ LinkKept /\ SinkKept
  <2>1. SrcKept
    BY <1>3, <1>4, <1>5, Apart, Zenon DEF SrcKept
  <2>2. LinkKept
    BY <1>3, <1>4, <1>5, Apart, Zenon DEF LinkKept
  <2>3. SinkKept
    BY <1>3, <1>4, <1>5, Apart, Zenon DEF SinkKept
  <2> QED BY <2>1, <2>2, <2>3, Zenon
<1>7. RouterStamps'
  BY <1>1, <1>2, Topology, Zenon
     DEF Stamps, RouterStamps, Grows, OneDriver, CanPropagate, SameReverseDone, SameUpdate, SameRev
<1>8. UpdateStamps'
  BY <1>1, Zenon DEF Stamps, UpdateStamps, SenderAdded, SameUpdate, SameRev
<1> QED BY <1>2, <1>6, <1>7, <1>8, Frame, Zenon DEF Stamps

\* RouterReverse keeps what the stamps imply of one another.
LEMMA RouterReverseKeeps ==
  ASSUME NEW r \in RouterSet, Stamps, RouterReverse(r)
  PROVE  Stamps'
<1>1. /\ \A c, vc : Rev(c, vc) \in current' <=>
             Rev(c, vc) \in current \/ (MayReverse(r) /\ c \in Inputs(r) /\ vc \in VCs)
      /\ \A c, vc : Update(c, vc) \in current' <=>
             \/ Update(c, vc) \in current
             \/ MayReverse(r) /\ c \in Outputs(r) /\ vc \in VCs /\ Rev(c, vc) \in current
      /\ \A n : ReverseDone(n) \in current' =>
             \/ ReverseDone(n) \in current
             \/ n = r /\ MayReverse(r) /\ \A c \in Outputs(r), vc \in VCs : Rev(c, vc) \in current
      /\ SameFwd /\ SameForwardDone /\ SameVcDone /\ SameCreditsAdded
  BY RouterReverseStamps, Zenon
<1>2. Grows
  BY DEF RouterReverse, Tried, Grows
<1>3. \A c : Kept(Fwd(c))
  BY <1>1, Zenon DEF Kept, SameFwd
<1>4. \A c, vc : c \notin Inputs(r) => Kept(Rev(c, vc))
  BY <1>1, Zenon DEF Kept
<1>5. \A n : n # r => Kept(ForwardDone(n)) /\ Kept(ReverseDone(n)) /\ \A vc : Kept(VcDone(n, vc))
  <2>1. \A n : n # r => Kept(ForwardDone(n))
    BY <1>1, Zenon DEF Kept, SameForwardDone
  <2>2. \A n : n # r => Kept(ReverseDone(n))
    BY <1>1, <1>2, Zenon DEF Kept, Grows
  <2>3. \A n, vc : n # r => Kept(VcDone(n, vc))
    BY <1>1, Zenon DEF Kept, SameVcDone
  <2> QED BY <2>1, <2>2, <2>3, Zenon
<1>6. SrcKept /\ LinkKept /\ SinkKept
  <2>1. SrcKept
    BY <1>3, <1>4, <1>5, Apart, Zenon DEF SrcKept
  <2>2. LinkKept
    BY <1>3, <1>4, <1>5, Apart, Zenon DEF LinkKept
  <2>3. SinkKept
    BY <1>3, <1>4, <1>5, Apart, Zenon DEF SinkKept
  <2> QED BY <2>1, <2>2, <2>3, Zenon
<1>7. RouterStamps'
  BY <1>1, <1>2, Topology, Zenon
     DEF Stamps, RouterStamps, Grows, OneReader, MayReverse, SameForwardDone, SameCreditsAdded, SameFwd
<1>8. UpdateStamps'
  BY <1>1, Zenon
     DEF Stamps, UpdateStamps, SenderAdded, SameForwardDone, SameCreditsAdded, RouterStamps, MayReverse
<1> QED BY <1>2, <1>6, <1>7, <1>8, Frame, Zenon DEF Stamps

\* SinkForward keeps what the stamps imply of one another.
LEMMA SinkForwardKeeps ==
  ASSUME NEW k \in SinkSet, Stamps, SinkForward(k)
  PROVE  Stamps'
<1>1. /\ \A c, vc : Rev(c, vc) \in current' <=>
             \/ Rev(c, vc) \in current
             \/ c = Ingress[k] /\ vc \in VCs /\ Fwd(Ingress[k]) \in current
      /\ \A n : ForwardDone(n) \in current' <=>
             ForwardDone(n) \in current \/ (n = k /\ Fwd(Ingress[k]) \in current)
      /\ SameFwd /\ SameUpdate /\ SameReverseDone /\ SameVcDone /\ SameCreditsAdded
  BY SinkForwardStamps, Zenon
<1>2. Grows
  BY Zenon DEF SinkForward, Tried, Grows
<1>3. \A c : Kept(Fwd(c))
  BY <1>1, Zenon DEF Kept, SameFwd
<1>4. \A c, vc : c # Ingress[k] => Kept(Rev(c, vc))
  BY <1>1, Zenon DEF Kept
<1>5. \A n : n # k => Kept(ForwardDone(n)) /\ Kept(ReverseDone(n)) /\ \A vc : Kept(VcDone(n, vc))
  <2>1. \A n : n # k => Kept(ForwardDone(n))
    BY <1>1, Zenon DEF Kept
  <2>2. \A n : n # k => Kept(ReverseDone(n))
    BY <1>1, <1>2, Zenon DEF Kept, Grows, SameReverseDone
  <2>3. \A n, vc : n # k => Kept(VcDone(n, vc))
    BY <1>1, Zenon DEF Kept, SameVcDone
  <2> QED BY <2>1, <2>2, <2>3, Zenon
<1>6. SrcKept /\ LinkKept /\ RouterKept
  <2>1. SrcKept
    BY <1>3, <1>4, <1>5, Apart, Zenon DEF SrcKept
  <2>2. LinkKept
    BY <1>3, <1>4, <1>5, Apart, Zenon DEF LinkKept
  <2>3. RouterKept
    BY <1>3, <1>4, <1>5, Apart, Zenon DEF RouterKept
  <2> QED BY <2>1, <2>2, <2>3, Zenon
<1>7. SinkStamps'
  BY <1>1, <1>2, Topology, ZenonT(60) DEF Stamps, SinkStamps, Grows, OneReader, SameFwd
<1>8. UpdateStamps'
  BY <1>1, Zenon DEF Stamps, UpdateStamps, SenderAdded, SameUpdate, SameCreditsAdded
<1> QED BY <1>2, <1>6, <1>7, <1>8, Frame, Zenon DEF Stamps

\* SinkReverse keeps what the stamps imply of one another.
LEMMA SinkReverseKeeps ==
  ASSUME NEW k \in SinkSet, Stamps, SinkReverse(k)
  PROVE  Stamps'
<1>1. /\ \A n : ReverseDone(n) \in current' => ReverseDone(n) \in current \/ n = k
      /\ SameFwd /\ SameRev /\ SameUpdate /\ SameForwardDone /\ SameVcDone /\ SameCreditsAdded
  BY SinkReverseStamps, Zenon
<1>2. Grows
  BY Zenon DEF SinkReverse, Tried, Grows
<1>3. \A c : Kept(Fwd(c))
  BY <1>1, Zenon DEF Kept, SameFwd
<1>4. \A c, vc : Kept(Rev(c, vc))
  BY <1>1, Zenon DEF Kept, SameRev
<1>5. \A n : n # k => Kept(ForwardDone(n)) /\ Kept(ReverseDone(n)) /\ \A vc : Kept(VcDone(n, vc))
  <2>1. \A n : n # k => Kept(ForwardDone(n))
    BY <1>1, Zenon DEF Kept, SameForwardDone
  <2>2. \A n : n # k => Kept(ReverseDone(n))
    BY <1>1, <1>2, Zenon DEF Kept, Grows
  <2>3. \A n, vc : n # k => Kept(VcDone(n, vc))
    BY <1>1, Zenon DEF Kept, SameVcDone
  <2> QED BY <2>1, <2>2, <2>3, Zenon
<1>6. SrcKept /\ LinkKept /\ RouterKept
  <2>1. SrcKept
    BY <1>3, <1>4, <1>5, Apart, Zenon DEF SrcKept
  <2>2. LinkKept
    BY <1>3, <1>4, <1>5, Apart, Zenon DEF LinkKept
  <2>3. RouterKept
    BY <1>3, <1>4, <1>5, Apart, Zenon DEF RouterKept
  <2> QED BY <2>1, <2>2, <2>3, Zenon
<1>7. SinkStamps'
  BY <1>1, <1>2, Topology, Zenon
     DEF Stamps, SinkStamps, Grows, SameForwardDone, SameFwd, SameRev
<1>8. UpdateStamps'
  BY <1>1, Zenon
     DEF Stamps, UpdateStamps, SenderAdded, SameUpdate, SameRev, SameForwardDone, SameCreditsAdded
<1> QED BY <1>2, <1>6, <1>7, <1>8, Frame, Zenon DEF Stamps

------------------------------------------------------------------------------
(* Every action keeps the balance of every link *)

\* The terms of the balance are numbers.
LEMMA Numbers0 ==
  ASSUME Counting, Types, NEW l \in LinkSet, NEW vc \in VCs
  PROVE  /\ Held(LinkFrom[l], vc) \in Nat /\ Leaving(l, vc) \in Nat /\ InFlight(l, vc) \in Nat
         /\ Arriving(LinkTo[l], vc) \in Nat /\ Occupancy(LinkTo[l], vc) \in Nat
         /\ ToSend(LinkTo[l], vc) \in Nat /\ Entering(l, vc) \in Nat /\ Returning(l, vc) \in Nat
         /\ Exiting(LinkFrom[l], vc) \in Nat /\ Issued(LinkTo[l], vc) \in Nat
<1>1. LinkFrom[l] \in AllOutputs /\ LinkFrom[l] \in Connections /\ LinkTo[l] \in Connections
  BY Topology, Zenon DEF Ends
<1>2. InFlight(l, vc) \in Nat
  <2>1. forward_data_stages[l] \in Seq(Wire) /\ <<>> \in Wire
    BY Zenon DEF Types, Wire
  <2> QED BY <2>1, Zenon DEF Counting, InFlight
<1>3. Returning(l, vc) \in Nat
  <2>1. reverse_credit_stages[l][vc] \in Seq(Nat)
    BY DEF Types
  <2> QED BY <2>1, Zenon DEF Counting, Returning
<1>4. Held(LinkFrom[l], vc) \in Nat
  BY <1>1 DEF Held, Types
<1>5. Leaving(l, vc) \in Nat /\ Arriving(LinkTo[l], vc) \in Nat
  BY Zenon DEF Leaving, Arriving
<1>6. Occupancy(LinkTo[l], vc) \in Nat
  BY DEF Occupancy, Types
<1>7. ToSend(LinkTo[l], vc) \in Nat
  BY DEF ToSend, Types
<1>8. Entering(l, vc) \in Nat /\ Exiting(LinkFrom[l], vc) \in Nat
  BY <1>1 DEF Entering, Exiting, Types
<1>9. Issued(LinkTo[l], vc) \in Nat
  BY <1>1, NetworkAssumption DEF Issued
<1> QED BY <1>2, <1>3, <1>4, <1>5, <1>6, <1>7, <1>8, <1>9, Zenon

\* Arithmetic: equal parts make equal sums.
LEMMA EqualSums ==
  ASSUME NEW a \in Nat, NEW b \in Nat, NEW c \in Nat, NEW d \in Nat,
         NEW b2 \in Nat, NEW c2 \in Nat, NEW d2 \in Nat, b2 + c2 + d2 = b + c + d
  PROVE  a + b2 + c2 + d2 = a + b + c + d
OBVIOUS

\* A link without credits has no flit.
LEMMA NothingYet ==
  ASSUME Counting, Types, NEW l \in LinkSet, NEW vc \in VCs, Balance(l, vc) = 0
  PROVE  Arriving(LinkTo[l], vc) = 0 /\ Occupancy(LinkTo[l], vc) = 0
<1>1. Held(LinkFrom[l], vc) + Leaving(l, vc) + InFlight(l, vc) + Arriving(LinkTo[l], vc)
        + Occupancy(LinkTo[l], vc) + ToSend(LinkTo[l], vc) + Entering(l, vc) + Returning(l, vc)
        + Exiting(LinkFrom[l], vc) = 0
  BY Zenon DEF Balance
<1>2. /\ Held(LinkFrom[l], vc) \in Nat /\ Leaving(l, vc) \in Nat /\ InFlight(l, vc) \in Nat
      /\ Arriving(LinkTo[l], vc) \in Nat /\ Occupancy(LinkTo[l], vc) \in Nat
      /\ ToSend(LinkTo[l], vc) \in Nat /\ Entering(l, vc) \in Nat /\ Returning(l, vc) \in Nat
      /\ Exiting(LinkFrom[l], vc) \in Nat
  BY Numbers0, Zenon
<1> DEFINE a == Held(LinkFrom[l], vc)
           b == Leaving(l, vc)
           c == InFlight(l, vc)
           d == Arriving(LinkTo[l], vc)
           e == Occupancy(LinkTo[l], vc)
           f == ToSend(LinkTo[l], vc)
           g == Entering(l, vc)
           h == Returning(l, vc)
           i == Exiting(LinkFrom[l], vc)
<1> HIDE DEF a, b, c, d, e, f, g, h, i
<1>3. /\ a \in Nat /\ b \in Nat /\ c \in Nat /\ d \in Nat /\ e \in Nat /\ f \in Nat /\ g \in Nat
      /\ h \in Nat /\ i \in Nat
      /\ a + b + c + d + e + f + g + h + i = 0
  BY <1>1, <1>2, Zenon DEF a, b, c, d, e, f, g, h, i
<1>4. d = 0 /\ e = 0
  BY <1>3
<1> QED BY <1>4, Zenon DEF d, e

\* What a source sends: the credit it has is spent on the flit on its egress.
LEMMA SrcSends ==
  ASSUME Counting, NEW s \in SrcSet, Types, SrcForward(s)
  PROVE  /\ forward' \in [Connections -> Wire] /\ credit' \in [AllOutputs -> [VCs -> Nat]]
         /\ data_to_send' \in [SrcSet -> [VCs -> Seq(Flit)]]
         /\ \A x \in SrcSet, vc \in VCs : data_to_send'[x][vc] \in Seq({f \in Flit : f.vc = vc})
         /\ \A c \in Connections : c # Egress[s] => forward'[c] = forward[c]
         /\ \A c \in AllOutputs : c # Egress[s] => credit'[c] = credit[c]
         /\ \A vc \in VCs : credit'[Egress[s]][vc] + (IF OfVc(forward'[Egress[s]], vc) THEN 1 ELSE 0)
                              = credit[Egress[s]][vc] + credit_update[Egress[s]][vc]
<1> DEFINE c == Egress[s]
           able == {vc \in VCs : CanSend(s, vc)}
           W == WithUpdate(c)
<1>0. c \in AllOutputs /\ c \in Connections
  BY Topology, Zenon DEF Ends
<1>1. W \in [VCs -> Nat] /\ \A vc \in VCs : W[vc] = credit[c][vc] + credit_update[c][vc]
  BY <1>0, SMTT(60) DEF WithUpdate, Types
<1>2. CASE able = {}
  <2>1. /\ forward' = [forward EXCEPT ![c] = <<>>] /\ credit' = [credit EXCEPT ![c] = W]
        /\ data_to_send' = data_to_send
    BY <1>2, Zenon DEF SrcForward
  <2>2. \A vc \in VCs : ~OfVc(<<>>, vc)
    BY Zenon DEF OfVc
  <2> QED BY <1>0, <1>1, <2>1, <2>2 DEF Types, Wire
<1>3. CASE able # {}
  <2> DEFINE v == Min(able)
             f == Head(data_to_send[s][v])
  <2>1. /\ forward' = [forward EXCEPT ![c] = <<f>>] /\ credit' = [credit EXCEPT ![c] = [W EXCEPT ![v] = @ - 1]]
        /\ data_to_send' = [data_to_send EXCEPT ![s][v] = Tail(@)]
    BY <1>3, Zenon DEF SrcForward
  <2>2. v \in able
    BY <1>3, NetworkAssumption, ZenonT(60) DEF Counting
  <2> HIDE DEF v
  <2>3. v \in VCs /\ data_to_send[s][v] # <<>> /\ W[v] > 0
    BY <2>2, Zenon DEF CanSend
  <2>4. data_to_send[s][v] \in Seq({x \in Flit : x.vc = v}) /\ data_to_send[s][v] \in Seq(Flit)
    BY <2>3 DEF Types
  <2>5. /\ f \in Flit /\ f.vc = v /\ Tail(data_to_send[s][v]) \in Seq({x \in Flit : x.vc = v})
        /\ Tail(data_to_send[s][v]) \in Seq(Flit)
    BY <2>3, <2>4, SeqHeadTail
  <2> HIDE DEF f
  <2>6. <<f>> \in Wire /\ \A vc : OfVc(<<f>>, vc) <=> vc = v
    BY <2>5, Zenon DEF Wire, OfVc
  <2>7. /\ forward' \in [Connections -> Wire] /\ forward'[c] = <<f>>
        /\ \A d \in Connections : d # c => forward'[d] = forward[d]
    BY <1>0, <2>1, <2>6, ZenonT(60) DEF Types
  <2>8. /\ credit' \in [AllOutputs -> [VCs -> Nat]]
        /\ \A d \in AllOutputs : d # c => credit'[d] = credit[d]
        /\ \A vc \in VCs : credit'[c][vc] = IF vc = v THEN W[vc] - 1 ELSE W[vc]
    <3>1. credit \in [AllOutputs -> [VCs -> Nat]]
      BY Zenon DEF Types
    <3> HIDE DEF W, c
    <3>2. [W EXCEPT ![v] = @ - 1] \in [VCs -> Nat]
      BY <1>1, <2>3
    <3> QED BY <1>0, <1>1, <2>1, <3>1, <3>2, Zenon
  <2>9. data_to_send' \in [SrcSet -> [VCs -> Seq(Flit)]]
    BY <2>1, <2>3, <2>5, Zenon DEF Types
  <2>10. \A x \in SrcSet, vc \in VCs : data_to_send'[x][vc] \in Seq({y \in Flit : y.vc = vc})
    BY <2>1, <2>3, <2>5, Zenon DEF Types
  <2>11. ASSUME NEW vc \in VCs
         PROVE  credit'[c][vc] + (IF OfVc(forward'[c], vc) THEN 1 ELSE 0) = credit[c][vc] + credit_update[c][vc]
    <3> DEFINE w == W[vc]
    <3>1. w \in Nat /\ w = credit[c][vc] + credit_update[c][vc]
      BY <1>1, Zenon
    <3>2. credit'[c][vc] = (IF vc = v THEN w - 1 ELSE w) /\ (OfVc(forward'[c], vc) <=> vc = v)
      BY <2>6, <2>7, <2>8, Zenon
    <3> HIDE DEF w
    <3> QED BY <3>1, <3>2
  <2> QED BY <2>7, <2>8, <2>9, <2>10, <2>11, Zenon
<1> QED BY <1>2, <1>3, Zenon

\* SrcForward keeps the balance: a credit spent is a flit leaving.
LEMMA SrcForwardBalance ==
  ASSUME Counting, NEW s \in SrcSet, Types, Stamps, SrcForward(s),
         NEW l \in LinkSet, NEW vc \in VCs, Balance(l, vc) = Issued(LinkTo[l], vc)
  PROVE  (Balance(l, vc) = Issued(LinkTo[l], vc))'
<1> DEFINE F == LinkFrom[l]
           T == LinkTo[l]
<1>1. /\ F \in AllOutputs /\ F \in Connections /\ T \in Connections /\ T \notin AllOutputs
      /\ T # Egress[s] /\ l # s /\ s \notin RouterSet /\ s \notin SinkSet
  BY Topology, Zenon DEF Disjoint, OneDriver, Ends
<1>2. /\ \A c : Fwd(c) \in current' <=> Fwd(c) \in current \/ c = Egress[s]
      /\ \A n : ForwardDone(n) \in current' <=> ForwardDone(n) \in current \/ n = s
      /\ SameRev /\ SameUpdate /\ SameReverseDone /\ SameVcDone /\ SameCreditsAdded
  BY SrcForwardStamps, Zenon
<1>3. /\ reverse' = reverse /\ forward_data_stages' = forward_data_stages
      /\ reverse_credit_stages' = reverse_credit_stages /\ credit_update' = credit_update
      /\ input_buffers' = input_buffers /\ input_credit_to_send' = input_credit_to_send
      /\ cycle0' = cycle0 /\ ForwardDone(s) \notin current
  BY Zenon DEF SrcForward, TryForward, links, buffers
<1>4. /\ InFlight(l, vc)' = InFlight(l, vc) /\ Occupancy(T, vc)' = Occupancy(T, vc)
      /\ Returning(l, vc)' = Returning(l, vc)
  BY <1>3, Zenon DEF InFlight, Occupancy, Returning
<1>5. /\ Entering(l, vc)' = Entering(l, vc) /\ Exiting(F, vc)' = Exiting(F, vc)
      /\ Issued(T, vc)' = Issued(T, vc)
  BY <1>2, <1>3, Zenon DEF Entering, Exiting, Issued, SameRev, SameUpdate, SameVcDone
<1>6. ReaderDone(T)' <=> ReaderDone(T)
  BY <1>1, <1>2, Zenon DEF ReaderDone
<1>7. ToSend(T, vc)' = ToSend(T, vc)
  BY <1>2, <1>3, <1>6, Zenon DEF ToSend, SameRev
<1>8. Arriving(T, vc)' = Arriving(T, vc)
  BY <1>1, <1>2, <1>6, SrcSends, Zenon DEF Arriving
<1>9. Held(F, vc)' + Leaving(l, vc)' = Held(F, vc) + Leaving(l, vc)
  <2>1. CASE F # Egress[s]
    <3>1. SenderAdded(F)' <=> SenderAdded(F)
      BY <1>2, <2>1, ZenonT(60) DEF SenderAdded, SameCreditsAdded
    <3>2. Held(F, vc)' = Held(F, vc)
      BY <1>1, <1>2, <1>3, <2>1, <3>1, SrcSends, SMTT(60) DEF Held, SameUpdate
    <3>3. Leaving(l, vc)' = Leaving(l, vc)
      BY <1>1, <1>2, <2>1, SrcSends, ZenonT(60) DEF Leaving
    <3> QED BY <3>2, <3>3, Zenon
  <2>2. CASE F = Egress[s]
    <3>1. ~SenderAdded(F) /\ SenderAdded(F)'
      BY <1>2, <1>3, <2>2, Topology, Zenon DEF SenderAdded, OneDriver
    <3>2. Update(F, vc) \notin current /\ Update(F, vc) \notin current'
      BY <1>1, <1>2, <3>1, Zenon DEF Stamps, UpdateStamps, SameUpdate
    <3>3. /\ Fwd(F) \notin current /\ Fwd(F) \in current'
          /\ ForwardDone(l) \notin current'
      BY <1>1, <1>2, <1>3, <2>2, Zenon DEF Stamps, SrcStamps, LinkStamps
    <3>4. Held(F, vc) = credit[F][vc] + credit_update[F][vc] /\ Held(F, vc)' = credit'[F][vc] + 0
      BY <3>1, <3>2, Zenon DEF Held
    <3>5. Leaving(l, vc) = 0 /\ Leaving(l, vc)' = IF OfVc(forward'[F], vc) THEN 1 ELSE 0
      BY <3>3, ZenonT(60) DEF Leaving, OfVc
    <3>6. credit'[F][vc] \in Nat /\ credit[F][vc] \in Nat /\ credit_update[F][vc] \in Nat
      <4>1. credit' \in [AllOutputs -> [VCs -> Nat]]
        BY SrcSends, Zenon
      <4> QED BY <1>1, <4>1 DEF Types
    <3> QED BY <2>2, <3>4, <3>5, <3>6, SrcSends
  <2> QED BY <2>1, <2>2, Zenon
<1> QED BY <1>4, <1>5, <1>7, <1>8, <1>9, Numbers0, Zenon DEF Balance

\* Credits read by a sender move from the channel to its update.
LEMMA NewCreditsBalance ==
  ASSUME Types, Stamps, NEW cs \in SUBSET AllOutputs, NEW F \in AllOutputs, NEW vc \in VCs,
         NewCredits(cs), SameCreditsAdded, SameForwardDone,
         F \in cs => SenderAdded(F),
         Rev(F, vc) \in current' <=> Rev(F, vc) \in current,
         Update(F, vc) \in current' <=>
            Update(F, vc) \in current \/ (F \in cs /\ Rev(F, vc) \in current),
         credit' = credit, reverse'[F] = reverse[F]
  PROVE  /\ Held(F, vc)' \in Nat /\ Exiting(F, vc)' \in Nat
         /\ Held(F, vc)' + Exiting(F, vc)' = Held(F, vc) + Exiting(F, vc)
<1>0. F \in Connections
  BY Topology, Zenon DEF Ends
<1>1. credit[F][vc] \in Nat /\ credit_update[F][vc] \in Nat /\ reverse[F][vc] \in Nat
  BY <1>0 DEF Types
<1>2. SenderAdded(F)' <=> SenderAdded(F)
  BY Zenon DEF SenderAdded, SameCreditsAdded, SameForwardDone
<1>3. credit_update'[F][vc] = IF F \in cs /\ Rev(F, vc) \in current /\ Update(F, vc) \notin current
                              THEN reverse[F][vc] ELSE credit_update[F][vc]
  BY Zenon DEF NewCredits, Ready
<1>4. CASE F \in cs /\ Rev(F, vc) \in current /\ Update(F, vc) \notin current
  <2>1. Held(F, vc) = credit[F][vc] + 0 /\ Held(F, vc)' = credit[F][vc] + reverse[F][vc]
    BY <1>2, <1>3, <1>4, Zenon DEF Held
  <2>2. Exiting(F, vc) = reverse[F][vc] /\ Exiting(F, vc)' = 0
    BY <1>4, Zenon DEF Exiting
  <2> QED BY <1>1, <2>1, <2>2
<1>5. CASE ~(F \in cs /\ Rev(F, vc) \in current /\ Update(F, vc) \notin current)
  <2>1. Held(F, vc)' = Held(F, vc)
    BY <1>2, <1>3, <1>5, Zenon DEF Held
  <2>2. Exiting(F, vc)' = Exiting(F, vc)
    BY <1>5, ZenonT(60) DEF Exiting
  <2>3. Held(F, vc) \in Nat /\ Exiting(F, vc) \in Nat
    BY <1>1 DEF Held, Exiting
  <2> QED BY <2>1, <2>2, <2>3, Zenon
<1> QED BY <1>4, <1>5, Zenon

\* NewCredits keeps the type of the updates.
LEMMA NewCreditsType ==
  ASSUME Types, NEW cs, NewCredits(cs)
  PROVE  credit_update' \in [AllOutputs -> [VCs -> Nat]]
<1>1. AllOutputs \subseteq Connections
  BY Topology, Zenon DEF Ends
<1>2. \A c \in AllOutputs, vc \in VCs : reverse[c][vc] \in Nat /\ credit_update[c][vc] \in Nat
  BY <1>1, SMTT(60) DEF Types
<1> QED BY <1>2, Zenon DEF NewCredits

\* SrcReverse keeps the balance: credits that arrive become an update.
LEMMA SrcReverseBalance ==
  ASSUME Counting, NEW s \in SrcSet, Types, Stamps, Turns, SrcReverse(s),
         NEW l \in LinkSet, NEW vc \in VCs, Balance(l, vc) = Issued(LinkTo[l], vc)
  PROVE  (Balance(l, vc) = Issued(LinkTo[l], vc))'
<1> DEFINE F == LinkFrom[l]
           T == LinkTo[l]
<1>1. F \in AllOutputs /\ Egress[s] \in AllOutputs
  BY Topology, Zenon DEF Ends
<1>2. /\ \A c, v : Update(c, v) \in current' <=>
            Update(c, v) \in current \/ (c = Egress[s] /\ v \in VCs /\ Rev(c, v) \in current)
      /\ SameFwd /\ SameRev /\ SameForwardDone /\ SameVcDone /\ SameCreditsAdded
  BY SrcReverseStamps, Zenon
<1>3. /\ forward' = forward /\ reverse' = reverse /\ forward_data_stages' = forward_data_stages
      /\ reverse_credit_stages' = reverse_credit_stages /\ credit' = credit
      /\ input_buffers' = input_buffers /\ input_credit_to_send' = input_credit_to_send
      /\ cycle0' = cycle0 /\ NewCredits({Egress[s]})
  BY Zenon DEF SrcReverse, TryReverse, links, buffers
<1>4. /\ InFlight(l, vc)' = InFlight(l, vc) /\ Occupancy(T, vc)' = Occupancy(T, vc)
      /\ Returning(l, vc)' = Returning(l, vc)
  BY <1>3, Zenon DEF InFlight, Occupancy, Returning
<1>5. ReaderDone(T)' <=> ReaderDone(T)
  BY <1>2, Zenon DEF ReaderDone, SameForwardDone
<1>6. /\ Entering(l, vc)' = Entering(l, vc) /\ Issued(T, vc)' = Issued(T, vc)
      /\ Leaving(l, vc)' = Leaving(l, vc) /\ Arriving(T, vc)' = Arriving(T, vc)
      /\ ToSend(T, vc)' = ToSend(T, vc)
  BY <1>2, <1>3, <1>5, Zenon
     DEF Entering, Issued, Leaving, Arriving, ToSend, SameFwd, SameRev, SameVcDone,
     SameForwardDone
<1>7. SenderAdded(Egress[s])
  BY Zenon DEF SrcReverse, TryReverse, Turn, Turns, SenderAdded
<1>8. /\ Held(F, vc)' \in Nat /\ Exiting(F, vc)' \in Nat
      /\ Held(F, vc)' + Exiting(F, vc)' = Held(F, vc) + Exiting(F, vc)
  <2>1. /\ Rev(F, vc) \in current' <=> Rev(F, vc) \in current
        /\ Update(F, vc) \in current' <=>
              Update(F, vc) \in current \/ (F \in {Egress[s]} /\ Rev(F, vc) \in current)
    BY <1>2, Zenon DEF SameRev
  <2> QED BY <1>1, <1>2, <1>3, <1>7, <2>1, NewCreditsBalance, Zenon
<1> QED BY <1>4, <1>6, <1>8, Numbers0 DEF Balance

\* An action that only marks propagations keeps the balance.
LEMMA SameBalance ==
  ASSUME NEW l, NEW vc,
         SameFwd, SameRev, SameUpdate, SameForwardDone, SameVcDone, SameCreditsAdded,
         cycle0' = cycle0, UNCHANGED <<forward, reverse, links, credits, buffers>>
  PROVE  /\ Balance(l, vc)' = Balance(l, vc)
         /\ Issued(LinkTo[l], vc)' = Issued(LinkTo[l], vc)
<1> DEFINE F == LinkFrom[l]
           T == LinkTo[l]
<1> USE DEF links, credits, buffers, SameFwd, SameRev, SameUpdate, SameForwardDone, SameVcDone,
            SameCreditsAdded
<1>1. /\ InFlight(l, vc)' = InFlight(l, vc) /\ Occupancy(T, vc)' = Occupancy(T, vc)
      /\ Returning(l, vc)' = Returning(l, vc)
  BY Zenon DEF InFlight, Occupancy, Returning
<1>2. (ReaderDone(T)' <=> ReaderDone(T)) /\ (SenderAdded(F)' <=> SenderAdded(F))
  BY Zenon DEF ReaderDone, SenderAdded
<1>3. Held(F, vc)' = Held(F, vc) /\ Exiting(F, vc)' = Exiting(F, vc)
  BY <1>2, Zenon DEF Held, Exiting
<1>4. /\ Entering(l, vc)' = Entering(l, vc) /\ Issued(T, vc)' = Issued(T, vc)
      /\ Leaving(l, vc)' = Leaving(l, vc) /\ Arriving(T, vc)' = Arriving(T, vc)
      /\ ToSend(T, vc)' = ToSend(T, vc)
  BY <1>2, Zenon DEF Entering, Issued, Leaving, Arriving, ToSend
<1> QED BY <1>1, <1>3, <1>4, Zenon DEF Balance

\* A pipeline of flits keeps them: what it shows is what it no longer holds.
LEMMA FlitsLeft ==
  ASSUME Counting, NEW st \in Seq(Wire), NEW n \in Nat \ {0}, NEW vc
  PROVE  /\ Shown(n, st, <<>>) \in Wire /\ Left(n, st) \in Seq(Wire)
         /\ Flits(Left(n, st), vc) \in Nat
         /\ Flits(st, vc) = Flits(Left(n, st), vc) + (IF OfVc(Shown(n, st, <<>>), vc) THEN 1 ELSE 0)
<1>1. <<>> \in Wire /\ ~OfVc(<<>>, vc) /\ Len(st) \in Nat
  BY DEF Wire, OfVc
<1>2. CASE Len(st) >= n
  <2>1. st # <<>> /\ Shown(n, st, <<>>) = Head(st) /\ Left(n, st) = Tail(st)
    BY <1>2 DEF Shown, Left
  <2>2. Head(st) \in Wire /\ Tail(st) \in Seq(Wire)
    BY <2>1, SeqHeadTail, Zenon
  <2>3. /\ Flits(Tail(st), vc) \in Nat
        /\ Flits(st, vc) = Flits(Tail(st), vc) + (IF OfVc(Head(st), vc) THEN 1 ELSE 0)
    BY <2>1, <2>2, Zenon DEF Counting
  <2> QED BY <2>1, <2>2, <2>3, Zenon
<1>3. CASE ~(Len(st) >= n)
  <2>1. Shown(n, st, <<>>) = <<>> /\ Left(n, st) = st
    BY <1>3, Zenon DEF Shown, Left
  <2>2. Flits(st, vc) \in Nat
    BY <1>1, Zenon DEF Counting
  <2> QED BY <1>1, <2>1, <2>2
<1> QED BY <1>2, <1>3, Zenon

\* The same for a pipeline of credits.
LEMMA TotalLeft ==
  ASSUME Counting, NEW st \in Seq(Nat), NEW n \in Nat \ {0}
  PROVE  /\ Shown(n, st, 0) \in Nat /\ Left(n, st) \in Seq(Nat)
         /\ Total(Left(n, st)) \in Nat
         /\ Total(st) = Total(Left(n, st)) + Shown(n, st, 0)
<1>1. Len(st) \in Nat
  OBVIOUS
<1>2. CASE Len(st) >= n
  <2>1. st # <<>> /\ Shown(n, st, 0) = Head(st) /\ Left(n, st) = Tail(st)
    BY <1>2 DEF Shown, Left
  <2>2. Head(st) \in Nat /\ Tail(st) \in Seq(Nat)
    BY <2>1, SeqHeadTail, Zenon
  <2>3. Total(Tail(st)) \in Nat /\ Total(st) = Total(Tail(st)) + Head(st)
    BY <2>1, <2>2, Zenon DEF Counting
  <2> QED BY <2>1, <2>2, <2>3, Zenon
<1>3. CASE ~(Len(st) >= n)
  <2>1. Shown(n, st, 0) = 0 /\ Left(n, st) = st
    BY <1>3, Zenon DEF Shown, Left
  <2>2. Total(st) \in Nat
    BY ZenonT(60) DEF Counting
  <2> QED BY <2>1, <2>2
<1> QED BY <1>2, <1>3, Zenon

\* What a link does with the flits: a link without stages passes the flit on, one
\* with stages shows one and takes one, in the same try or in two.
LEMMA LinkMoves ==
  ASSUME Counting, NEW l \in LinkSet, Types, LinkForward(l)
  PROVE  LET F == LinkFrom[l]
             T == LinkTo[l]
         IN  /\ forward' \in [Connections -> Wire] /\ forward_data_stages' \in [LinkSet -> Seq(Wire)]
             /\ \A c \in Connections : c # T => forward'[c] = forward[c]
             /\ \A m \in LinkSet : m # l => forward_data_stages'[m] = forward_data_stages[m]
             /\ ForwardStages[l] = 0 =>
                  /\ forward_data_stages'[l] = forward_data_stages[l]
                  /\ forward'[T] = IF Fwd(F) \in current THEN forward[F] ELSE forward[T]
             /\ ForwardStages[l] # 0 =>
                  /\ Fwd(T) \in current => forward'[T] = forward[T]
                  /\ \A vc : /\ Flits(forward_data_stages'[l], vc) \in Nat
                             /\ Flits(forward_data_stages'[l], vc)
                                  + (IF Fwd(T) \notin current /\ OfVc(forward'[T], vc) THEN 1 ELSE 0)
                                = Flits(forward_data_stages[l], vc)
                                  + (IF Fwd(F) \in current /\ OfVc(forward[F], vc) THEN 1 ELSE 0)
<1> DEFINE F == LinkFrom[l]
           T == LinkTo[l]
           n == ForwardStages[l]
           st == forward_data_stages[l]
           ready == Fwd(F) \in current
           update == IF n = 0 THEN ready ELSE Fwd(T) \notin current
           rest == IF n > 0 /\ update THEN Left(n, st) ELSE st
           shown == IF n = 0 THEN forward[F] ELSE Shown(n, st, <<>>)
           new == IF n > 0 /\ ready THEN Append(rest, forward[F]) ELSE rest
<1>1. /\ forward' = IF ~update THEN forward ELSE [forward EXCEPT ![T] = shown]
      /\ forward_data_stages' = [forward_data_stages EXCEPT ![l] = new]
  BY Zenon DEF LinkForward
<1>2. /\ F \in Connections /\ T \in Connections /\ n \in Nat
      /\ st \in Seq(Wire) /\ forward[F] \in Wire /\ forward \in [Connections -> Wire]
      /\ forward_data_stages \in [LinkSet -> Seq(Wire)]
  BY Topology, NetworkAssumption, Zenon DEF Ends, Types, LinkSet
<1>3. shown \in Wire
  BY <1>2, FlitsLeft, Zenon
<1>4. rest \in Seq(Wire)
  <2>1. n > 0 => Left(n, st) \in Seq(Wire) /\ Flits(Left(n, st), 0) \in Nat
    BY <1>2, FlitsLeft
  <2> HIDE DEF update, st
  <2> QED BY <1>2, <2>1, Zenon
<1>5. new \in Seq(Wire)
  BY <1>2, <1>4, SeqAppend, Zenon
<1>6. forward' \in [Connections -> Wire] /\ forward_data_stages' \in [LinkSet -> Seq(Wire)]
  <2> HIDE DEF shown, new, st, update
  <2> QED BY <1>1, <1>2, <1>3, <1>5, Zenon
<1>7. /\ \A c \in Connections : c # T => forward'[c] = forward[c]
      /\ forward'[T] = IF update THEN shown ELSE forward[T]
      /\ \A m \in LinkSet : m # l => forward_data_stages'[m] = forward_data_stages[m]
      /\ forward_data_stages'[l] = new
  <2> HIDE DEF shown, new, st, update
  <2> QED BY <1>1, <1>2, Zenon
<1>8. ASSUME n # 0, NEW vc
      PROVE  /\ Flits(new, vc) \in Nat
             /\ Flits(new, vc) + (IF update /\ OfVc(shown, vc) THEN 1 ELSE 0)
                  = Flits(st, vc) + (IF ready /\ OfVc(forward[F], vc) THEN 1 ELSE 0)
  <2>0. n > 0 /\ n \in Nat \ {0}
    BY <1>2, <1>8
  <2>1. /\ Flits(rest, vc) \in Nat /\ Flits(st, vc) \in Nat
        /\ Flits(st, vc) = Flits(rest, vc) + (IF update /\ OfVc(shown, vc) THEN 1 ELSE 0)
    <3>1. /\ Flits(Left(n, st), vc) \in Nat
          /\ Flits(st, vc) = Flits(Left(n, st), vc) + (IF OfVc(Shown(n, st, <<>>), vc) THEN 1 ELSE 0)
      BY <1>2, <2>0, FlitsLeft, Zenon
    <3>2. Flits(st, vc) \in Nat
      BY <3>1
    <3>3. shown = Shown(n, st, <<>>) /\ rest = IF update THEN Left(n, st) ELSE st
      BY <2>0, Zenon
    <3> HIDE DEF shown, rest, update, st
    <3> QED BY <3>1, <3>2, <3>3, SMTT(60)
  <2>2. Flits(new, vc) = Flits(rest, vc) + (IF ready /\ OfVc(forward[F], vc) THEN 1 ELSE 0)
    <3>1. new = IF ready THEN Append(rest, forward[F]) ELSE rest
      BY <2>0, Zenon
    <3> HIDE DEF rest, new, ready
    <3>2. CASE ready
      BY <1>2, <1>4, <2>1, <3>1, <3>2, Zenon DEF Counting
    <3>3. CASE ~ready
      BY <3>1, <2>1, <3>3
    <3> QED BY <3>2, <3>3, Zenon
  <2> HIDE DEF new, rest, shown, update, ready, st
  <2> QED BY <2>1, <2>2, SMTT(60)
<1>9. n # 0 => (update <=> Fwd(T) \notin current)
  BY Zenon
<1>10. n = 0 => new = st /\ (update <=> ready) /\ shown = forward[F]
  OBVIOUS
<1>11. n = 0 => /\ forward_data_stages'[l] = st
                /\ forward'[T] = IF ready THEN forward[F] ELSE forward[T]
  BY <1>7, <1>10, Zenon
<1>12. ASSUME n # 0 
       PROVE  /\ Fwd(T) \in current => forward'[T] = forward[T]
              /\ \A vc : /\ Flits(forward_data_stages'[l], vc) \in Nat
                         /\ Flits(forward_data_stages'[l], vc)
                              + (IF Fwd(T) \notin current /\ OfVc(forward'[T], vc) THEN 1 ELSE 0)
                            = Flits(st, vc) + (IF ready /\ OfVc(forward[F], vc) THEN 1 ELSE 0)
  <2>1. \A vc : /\ Flits(new, vc) \in Nat
                /\ Flits(new, vc) + (IF update /\ OfVc(shown, vc) THEN 1 ELSE 0)
                     = Flits(st, vc) + (IF ready /\ OfVc(forward[F], vc) THEN 1 ELSE 0)
    BY <1>8, <1>12, Zenon
  <2>2. update <=> Fwd(T) \notin current
    BY <1>9, <1>12, ZenonT(60)
  <2> HIDE DEF new, shown, update, ready, st
  <2> QED BY <1>7, <2>1, <2>2, Zenon
<1> QED BY <1>6, <1>7, <1>11, <1>12, ZenonT(60)

\* LinkForward keeps the balance: flits leaving, in flight and arriving are the same.
LEMMA LinkForwardBalance ==
  ASSUME Counting, NEW m \in LinkSet, Types, Stamps, LinkForward(m),
         NEW l \in LinkSet, NEW vc \in VCs, Balance(l, vc) = Issued(LinkTo[l], vc)
  PROVE  (Balance(l, vc) = Issued(LinkTo[l], vc))'
<1> DEFINE F == LinkFrom[l]
           T == LinkTo[l]
<1>1. /\ F \in AllOutputs /\ F \in Connections /\ T \in Connections /\ F # LinkTo[m]
      /\ m \notin RouterSet /\ m \notin SinkSet /\ m \notin SrcSet /\ (T = LinkTo[m] => l = m)
  BY Topology, Zenon DEF Disjoint, OneDriver, Ends
<1>2. /\ \A c : Fwd(c) \in current' <=>
                \/ Fwd(c) \in current
                \/ c = LinkTo[m] /\ (ForwardStages[m] = 0 => Fwd(LinkFrom[m]) \in current)
      /\ \A n : ForwardDone(n) \in current' <=>
                ForwardDone(n) \in current \/ (n = m /\ Fwd(LinkFrom[m]) \in current)
      /\ SameRev /\ SameUpdate /\ SameReverseDone /\ SameVcDone /\ SameCreditsAdded
  BY LinkForwardStamps, Zenon
<1>3. /\ reverse' = reverse /\ credit' = credit /\ credit_update' = credit_update
      /\ reverse_credit_stages' = reverse_credit_stages
      /\ input_buffers' = input_buffers /\ input_credit_to_send' = input_credit_to_send
      /\ cycle0' = cycle0 /\ ForwardDone(m) \notin current
  BY Zenon DEF LinkForward, TryForward, credits, buffers
<1>4. Occupancy(T, vc)' = Occupancy(T, vc) /\ Returning(l, vc)' = Returning(l, vc)
  BY <1>3, Zenon DEF Occupancy, Returning
<1>5. (ReaderDone(T)' <=> ReaderDone(T)) /\ (SenderAdded(F)' <=> SenderAdded(F))
  BY <1>1, <1>2, Zenon DEF ReaderDone, SenderAdded, SameCreditsAdded
<1>6. /\ Entering(l, vc)' = Entering(l, vc) /\ Exiting(F, vc)' = Exiting(F, vc)
      /\ Issued(T, vc)' = Issued(T, vc) /\ ToSend(T, vc)' = ToSend(T, vc)
      /\ Held(F, vc)' = Held(F, vc)
  BY <1>2, <1>3, <1>5, Zenon
     DEF Entering, Exiting, Issued, ToSend, Held, SameRev, SameUpdate, SameVcDone
<1>7. /\ InFlight(l, vc)' \in Nat /\ Leaving(l, vc)' \in Nat /\ Arriving(T, vc)' \in Nat
      /\ Leaving(l, vc)' + InFlight(l, vc)' + Arriving(T, vc)'
            = Leaving(l, vc) + InFlight(l, vc) + Arriving(T, vc)
  <2>0. InFlight(l, vc) \in Nat /\ Leaving(l, vc) \in Nat /\ Arriving(T, vc) \in Nat
    BY Numbers0, Zenon
  <2>1. CASE l # m
    <3>1. T # LinkTo[m]
      BY <1>1, <2>1, Zenon
    <3>2. InFlight(l, vc)' = InFlight(l, vc)
      BY <2>1, LinkMoves, ZenonT(60) DEF InFlight
    <3>3. forward'[F] = forward[F] /\ forward'[T] = forward[T]
      BY <1>1, <3>1, LinkMoves
    <3>4. Leaving(l, vc)' = Leaving(l, vc) /\ Arriving(T, vc)' = Arriving(T, vc)
      BY <1>1, <1>2, <1>5, <2>1, <3>1, <3>3, Zenon DEF Leaving, Arriving
    <3> QED BY <2>0, <3>2, <3>4, Zenon
  <2>2. CASE l = m
    <3>0. forward'[F] = forward[F]
      BY <1>1, LinkMoves, Zenon
    <3>1. ReaderDone(T) => Fwd(T) \in current
      BY ZenonT(60) DEF Stamps, RouterStamps, SinkStamps, ReaderDone
    <3>2. /\ Leaving(l, vc) = IF Fwd(F) \in current /\ OfVc(forward[F], vc) THEN 1 ELSE 0
          /\ Leaving(l, vc)' = 0
      BY <1>1, <1>2, <1>3, <2>2, <3>0, Zenon DEF Leaving
    <3>3. CASE ForwardStages[l] = 0
      <4>1. /\ forward_data_stages'[l] = forward_data_stages[l]
            /\ forward'[T] = IF Fwd(F) \in current THEN forward[F] ELSE forward[T]
        BY <2>2, <3>3, LinkMoves, Zenon
      <4>2. Fwd(T) \notin current
        BY <1>3, <2>2, <3>3, Zenon DEF Stamps, LinkStamps
      <4>3. InFlight(l, vc)' = InFlight(l, vc)
        BY <4>1, ZenonT(60) DEF InFlight
      <4>4. Arriving(T, vc) = 0 /\ Arriving(T, vc)' = Leaving(l, vc)
        <5>1. Arriving(T, vc) = 0
          BY <4>2, ZenonT(60) DEF Arriving
        <5>2. Fwd(T) \in current' <=> Fwd(F) \in current
          BY <1>2, <2>2, <3>3, <4>2
        <5>3. ~ReaderDone(T)'
          BY <1>5, <3>1, <4>2, Zenon
        <5> QED BY <3>2, <4>1, <5>1, <5>2, <5>3 DEF Arriving
      <4> QED BY <2>0, <3>2, <4>3, <4>4
    <3>4. CASE ForwardStages[l] # 0
      <4>1. /\ Fwd(T) \in current => forward'[T] = forward[T]
            /\ Flits(forward_data_stages'[l], vc) \in Nat
            /\ Flits(forward_data_stages'[l], vc)
                 + (IF Fwd(T) \notin current /\ OfVc(forward'[T], vc) THEN 1 ELSE 0)
               = Flits(forward_data_stages[l], vc)
                 + (IF Fwd(F) \in current /\ OfVc(forward[F], vc) THEN 1 ELSE 0)
        BY <2>2, <3>4, LinkMoves, Zenon
      <4>2. Fwd(T) \in current'
        BY <1>2, <2>2, <3>4, ZenonT(60)
      <4>3. CASE Fwd(T) \in current
        <5>1. Arriving(T, vc)' = Arriving(T, vc)
          BY <1>5, <4>1, <4>2, <4>3, ZenonT(60) DEF Arriving
        <5> QED BY <2>0, <3>2, <4>1, <4>3, <5>1, SMTT(60) DEF InFlight
      <4>4. CASE Fwd(T) \notin current
        <5>1. Arriving(T, vc) = 0 /\ Arriving(T, vc)' = IF OfVc(forward'[T], vc) THEN 1 ELSE 0
          BY <1>5, <3>1, <4>2, <4>4, Zenon DEF Arriving
        <5> QED BY <2>0, <3>2, <4>1, <4>4, <5>1, SMTT(60) DEF InFlight
      <4> QED BY <4>3, <4>4, Zenon
    <3> QED BY <3>3, <3>4, Zenon
  <2> QED BY <2>1, <2>2, Zenon
<1> QED BY <1>4, <1>6, <1>7, Numbers0 DEF Balance

\* What a link does with the credits, on each virtual channel that it has not done.
LEMMA LinkReturns ==
  ASSUME Counting, NEW l \in LinkSet, Types, LinkReverse(l)
  PROVE  LET F == LinkFrom[l]
             T == LinkTo[l]
             todo(vc) == VcDone(l, vc) \notin current
         IN  /\ reverse' \in [Connections -> [VCs -> Nat]]
             /\ reverse_credit_stages' \in [LinkSet -> [VCs -> Seq(Nat)]]
             /\ \A c \in Connections : c # F => reverse'[c] = reverse[c]
             /\ \A m \in LinkSet : m # l => reverse_credit_stages'[m] = reverse_credit_stages[m]
             /\ \A vc \in VCs : ~todo(vc) =>
                  /\ reverse'[F][vc] = reverse[F][vc]
                  /\ reverse_credit_stages'[l][vc] = reverse_credit_stages[l][vc]
             /\ ReverseStages[l] = 0 => \A vc \in VCs : todo(vc) =>
                  /\ reverse_credit_stages'[l][vc] = reverse_credit_stages[l][vc]
                  /\ reverse'[F][vc] = IF Rev(T, vc) \in current THEN reverse[T][vc] ELSE reverse[F][vc]
             /\ ReverseStages[l] # 0 => \A vc \in VCs : todo(vc) =>
                  /\ Rev(F, vc) \in current => reverse'[F][vc] = reverse[F][vc]
                  /\ Total(reverse_credit_stages'[l][vc])
                       + (IF Rev(F, vc) \notin current THEN reverse'[F][vc] ELSE 0)
                     = Total(reverse_credit_stages[l][vc])
                       + (IF Rev(T, vc) \in current THEN reverse[T][vc] ELSE 0)
<1> DEFINE F == LinkFrom[l]
           T == LinkTo[l]
           n == ReverseStages[l]
           st == reverse_credit_stages[l]
           todo(vc) == VcDone(l, vc) \notin current
           ready(vc) == todo(vc) /\ Rev(T, vc) \in current
           update(vc) == todo(vc) /\ IF n = 0 THEN Rev(T, vc) \in current ELSE Rev(F, vc) \notin current
           rest(vc) == IF n > 0 /\ update(vc) THEN Left(n, st[vc]) ELSE st[vc]
           shown(vc) == IF n = 0 THEN reverse[T][vc] ELSE Shown(n, st[vc], 0)
           new(vc) == IF n > 0 /\ ready(vc) THEN Append(rest(vc), reverse[T][vc]) ELSE rest(vc)
           col == [vc \in VCs |-> IF ~update(vc) THEN reverse[F][vc] ELSE shown(vc)]
<1>1. /\ reverse' = [reverse EXCEPT ![F] = col]
      /\ reverse_credit_stages' = [reverse_credit_stages EXCEPT ![l] = [vc \in VCs |-> new(vc)]]
  BY Zenon DEF LinkReverse
<1>2. /\ F \in Connections /\ T \in Connections /\ n \in Nat
      /\ st \in [VCs -> Seq(Nat)] /\ \A vc \in VCs : st[vc] \in Seq(Nat)
      /\ \A vc \in VCs : reverse[T][vc] \in Nat /\ reverse[F][vc] \in Nat
      /\ reverse \in [Connections -> [VCs -> Nat]]
      /\ reverse_credit_stages \in [LinkSet -> [VCs -> Seq(Nat)]]
  BY Topology, NetworkAssumption, SMTT(60) DEF Ends, Types, LinkSet
<1>3. ASSUME NEW vc \in VCs
      PROVE  /\ shown(vc) \in Nat /\ rest(vc) \in Seq(Nat) /\ new(vc) \in Seq(Nat)
             /\ n # 0 => /\ Total(new(vc)) \in Nat
                         /\ Total(new(vc)) + (IF update(vc) THEN shown(vc) ELSE 0)
                              = Total(st[vc]) + (IF ready(vc) THEN reverse[T][vc] ELSE 0)
  <2> DEFINE s0 == st[vc]
             rv == reverse[T][vc]
             up == update(vc)
             rd == ready(vc)
             rs == rest(vc)
             sh == shown(vc)
             nw == new(vc)
  <2>1. s0 \in Seq(Nat) /\ rv \in Nat /\ n \in Nat
    BY <1>2, ZenonT(60)
  <2>2. /\ n = 0 => sh = rv /\ rs = s0 /\ nw = s0
        /\ n # 0 => /\ sh = Shown(n, s0, 0) /\ rs = (IF up THEN Left(n, s0) ELSE s0)
                    /\ nw = IF rd THEN Append(rs, rv) ELSE rs
    <3>1. n > 0 <=> n # 0
      <4> HIDE DEF n
      <4> QED
        BY <2>1
    <3> QED
      BY <3>1, Zenon
  <2> SUFFICES /\ sh \in Nat /\ rs \in Seq(Nat) /\ nw \in Seq(Nat)
               /\ n # 0 => /\ Total(nw) \in Nat
                           /\ Total(nw) + (IF up THEN sh ELSE 0) = Total(s0) + (IF rd THEN rv ELSE 0)
    BY Zenon
  <2> HIDE DEF s0, rv, up, rd, rs, sh, nw, n
  <2>3. CASE n = 0
    BY <2>1, <2>2, <2>3, Zenon
  <2>4. CASE n # 0
    <3>1. /\ sh \in Nat /\ Left(n, s0) \in Seq(Nat) /\ Total(Left(n, s0)) \in Nat
          /\ Total(s0) = Total(Left(n, s0)) + sh
      BY <2>1, <2>2, <2>4, TotalLeft, Zenon
    <3>2. /\ rs \in Seq(Nat) /\ Total(rs) \in Nat /\ Total(s0) = Total(rs) + (IF up THEN sh ELSE 0)
      BY <2>1, <2>2, <2>4, <3>1
    <3>3. /\ nw \in Seq(Nat) /\ Total(nw) = Total(rs) + (IF rd THEN rv ELSE 0)
      <4>1. CASE rd
        <5>1. nw = Append(rs, rv)
          BY <2>2, <2>4, <4>1, Zenon
        <5>2. Append(rs, rv) \in Seq(Nat)
          BY <2>1, <3>2, SeqAppend, Zenon
        <5>3. Total(Append(rs, rv)) = Total(rs) + rv
          BY <2>1, <3>2, Zenon DEF Counting
        <5> QED BY <4>1, <5>1, <5>2, <5>3, Zenon
      <4>2. CASE ~rd
        BY <2>1, <2>2, <2>4, <3>2, <4>2, SMTT(60)
      <4> QED BY <4>1, <4>2, Zenon
    <3> QED BY <2>1, <3>1, <3>2, <3>3, SMTT(60)
  <2> QED BY <2>3, <2>4, Zenon
<1>4. col \in [VCs -> Nat] /\ [vc \in VCs |-> new(vc)] \in [VCs -> Seq(Nat)]
  <2>1. \A vc \in VCs : shown(vc) \in Nat /\ new(vc) \in Seq(Nat)
    BY <1>3, Zenon
  <2> HIDE DEF shown, new, update
  <2> QED BY <1>2, <2>1, Zenon
<1>5. /\ reverse' \in [Connections -> [VCs -> Nat]]
      /\ reverse_credit_stages' \in [LinkSet -> [VCs -> Seq(Nat)]]
      /\ \A c \in Connections : c # F => reverse'[c] = reverse[c]
      /\ \A m \in LinkSet : m # l => reverse_credit_stages'[m] = reverse_credit_stages[m]
      /\ reverse'[F] = col /\ reverse_credit_stages'[l] = [vc \in VCs |-> new(vc)]
  <2> HIDE DEF col, new
  <2> QED BY <1>1, <1>2, <1>4, Zenon
<1>6. \A vc \in VCs : /\ reverse'[F][vc] = IF update(vc) THEN shown(vc) ELSE reverse[F][vc]
                      /\ reverse_credit_stages'[l][vc] = new(vc)
  <2> HIDE DEF new, update, shown
  <2> QED BY <1>5, Zenon
<1>7. ASSUME NEW vc \in VCs, ~todo(vc)
      PROVE  reverse'[F][vc] = reverse[F][vc] /\ reverse_credit_stages'[l][vc] = st[vc]
  BY <1>6, <1>7, ZenonT(60)
<1>8. ASSUME n = 0, NEW vc \in VCs, todo(vc)
      PROVE  /\ reverse_credit_stages'[l][vc] = st[vc]
             /\ reverse'[F][vc] = IF Rev(T, vc) \in current THEN reverse[T][vc] ELSE reverse[F][vc]
  BY <1>6, <1>8
<1>9. ASSUME n # 0, NEW vc \in VCs, todo(vc)
      PROVE  /\ Rev(F, vc) \in current => reverse'[F][vc] = reverse[F][vc]
             /\ Total(reverse_credit_stages'[l][vc])
                  + (IF Rev(F, vc) \notin current THEN reverse'[F][vc] ELSE 0)
                = Total(st[vc]) + (IF Rev(T, vc) \in current THEN reverse[T][vc] ELSE 0)
  <2>1. /\ Total(new(vc)) + (IF update(vc) THEN shown(vc) ELSE 0)
             = Total(st[vc]) + (IF ready(vc) THEN reverse[T][vc] ELSE 0)
    BY <1>3, <1>9, Zenon
  <2>2. (update(vc) <=> Rev(F, vc) \notin current) /\ (ready(vc) <=> Rev(T, vc) \in current)
    BY <1>9, Zenon
  <2>3. /\ reverse'[F][vc] = IF update(vc) THEN shown(vc) ELSE reverse[F][vc]
        /\ reverse_credit_stages'[l][vc] = new(vc)
    BY <1>6, Zenon
  <2> HIDE DEF new, update, shown, ready
  <2> QED BY <2>1, <2>2, <2>3, Zenon
<1> QED BY <1>5, <1>7, <1>8, <1>9, Zenon

\* Credits that enter a link without stages have left it.
LEMMA PassedOn ==
    ASSUME NEW a \in Nat, NEW b \in Nat
    PROVE  0 + b + a = a + b + 0
OBVIOUS

\* LinkReverse keeps the balance: credits entering, returning and exiting are the same.
LEMMA LinkReverseBalance ==
  ASSUME Counting, NEW m \in LinkSet, Types, Stamps, LinkReverse(m),
         NEW l \in LinkSet, NEW vc \in VCs, Balance(l, vc) = Issued(LinkTo[l], vc)
  PROVE  (Balance(l, vc) = Issued(LinkTo[l], vc))'
<1> DEFINE F == LinkFrom[l]
           T == LinkTo[l]
<1>1. /\ F \in AllOutputs /\ F \in Connections /\ T \in Connections /\ T # LinkFrom[m]
      /\ T # F /\ (F = LinkFrom[m] => l = m)
  BY Topology, Zenon DEF OneDriver, OneReader, Ends
<1>2. /\ \A c, v : Rev(c, v) \in current' <=>
                \/ Rev(c, v) \in current
                \/ /\ c = LinkFrom[m] /\ v \in VCs /\ VcDone(m, v) \notin current
                   /\ ReverseStages[m] = 0 => Rev(LinkTo[m], v) \in current
      /\ \A n, v : VcDone(n, v) \in current' <=>
                VcDone(n, v) \in current \/ (n = m /\ v \in VCs /\ Rev(LinkTo[m], v) \in current)
      /\ SameFwd /\ SameUpdate /\ SameForwardDone /\ SameCreditsAdded
  BY LinkReverseStamps, Zenon
<1>3. /\ forward' = forward /\ credit' = credit /\ credit_update' = credit_update
      /\ forward_data_stages' = forward_data_stages
      /\ input_buffers' = input_buffers /\ input_credit_to_send' = input_credit_to_send
      /\ cycle0' = cycle0
  BY Zenon DEF LinkReverse, TryReverse, credits, buffers
<1>4. Occupancy(T, vc)' = Occupancy(T, vc) /\ InFlight(l, vc)' = InFlight(l, vc)
  BY <1>3, Zenon DEF Occupancy, InFlight
<1>5. (ReaderDone(T)' <=> ReaderDone(T)) /\ (SenderAdded(F)' <=> SenderAdded(F))
  BY <1>2, Zenon DEF ReaderDone, SenderAdded, SameForwardDone, SameCreditsAdded
<1>6. Rev(T, vc) \in current' <=> Rev(T, vc) \in current
  BY <1>1, <1>2, Zenon
<1>7. /\ Leaving(l, vc)' = Leaving(l, vc) /\ Arriving(T, vc)' = Arriving(T, vc)
      /\ Issued(T, vc)' = Issued(T, vc) /\ ToSend(T, vc)' = ToSend(T, vc)
      /\ Held(F, vc)' = Held(F, vc)
  BY <1>2, <1>3, <1>5, <1>6, ZenonT(60)
     DEF Leaving, Arriving, Issued, ToSend, Held, SameFwd, SameUpdate,
     SameForwardDone
<1>8. reverse'[T] = reverse[T] /\ reverse[T][vc] \in Nat /\ reverse[F][vc] \in Nat
  <2>1. reverse'[T] = reverse[T]
    BY <1>1, LinkReturns
  <2>2. reverse \in [Connections -> [VCs -> Nat]]
    BY Zenon DEF Types
  <2> QED BY <1>1, <2>1, <2>2
<1>9. reverse'[F][vc] \in Nat /\ Returning(l, vc)' \in Nat
  <2>1. reverse' \in [Connections -> [VCs -> Nat]] /\ reverse_credit_stages' \in [LinkSet -> [VCs -> Seq(Nat)]]
    BY LinkReturns, Zenon
  <2>2. reverse_credit_stages'[l][vc] \in Seq(Nat)
    BY <2>1, ZenonT(60)
  <2> QED BY <1>1, <2>1, <2>2, Zenon DEF Counting, Returning
<1>10. Entering(l, vc)' \in Nat /\ Exiting(F, vc)' \in Nat
  BY <1>8, <1>9 DEF Entering, Exiting
<1>11. Entering(l, vc)' + Returning(l, vc)' + Exiting(F, vc)'
            = Entering(l, vc) + Returning(l, vc) + Exiting(F, vc)
  <2>0. Entering(l, vc) \in Nat /\ Returning(l, vc) \in Nat /\ Exiting(F, vc) \in Nat
    BY Numbers0, Zenon
  <2>1. CASE l # m \/ VcDone(l, vc) \in current
    <3>1. Rev(F, vc) \in current' <=> Rev(F, vc) \in current
      BY <1>1, <1>2, <2>1, Zenon
    <3>2. VcDone(l, vc) \in current' <=> VcDone(l, vc) \in current
      BY <1>2, <2>1, ZenonT(60)
    <3>3. reverse'[F][vc] = reverse[F][vc] /\ reverse_credit_stages'[l][vc] = reverse_credit_stages[l][vc]
      BY <1>1, <2>1, LinkReturns
    <3>4. Entering(l, vc)' = Entering(l, vc)
      BY <1>6, <1>8, <3>2, Zenon DEF Entering
    <3>5. Exiting(F, vc)' = Exiting(F, vc)
      BY <1>2, <3>1, <3>3, Zenon DEF Exiting, SameUpdate
    <3>6. Returning(l, vc)' = Returning(l, vc)
      BY <3>3, Zenon DEF Returning
    <3> QED BY <2>0, <3>4, <3>5, <3>6, Zenon
  <2>2. CASE l = m /\ VcDone(l, vc) \notin current
    <3>1. /\ Entering(l, vc) = IF Rev(T, vc) \in current THEN reverse[T][vc] ELSE 0
          /\ Entering(l, vc)' = 0
      BY <1>2, <1>6, <2>2, ZenonT(60) DEF Entering
    <3>2. CASE ReverseStages[l] = 0
      <4>1. /\ reverse_credit_stages'[l][vc] = reverse_credit_stages[l][vc]
            /\ reverse'[F][vc] = IF Rev(T, vc) \in current THEN reverse[T][vc] ELSE reverse[F][vc]
        BY <2>2, <3>2, LinkReturns
      <4>2. Rev(F, vc) \notin current
        BY <2>2, <3>2, Zenon DEF Stamps, LinkStamps
      <4>3. Update(F, vc) \notin current /\ Update(F, vc) \notin current'
        BY <1>1, <1>2, <4>2, Zenon DEF Stamps, UpdateStamps, SameUpdate
      <4>4. Rev(F, vc) \in current' <=> Rev(T, vc) \in current
        BY <1>2, <2>2, <3>2, <4>2, Zenon
      <4>5. /\ Exiting(F, vc) = 0
            /\ Exiting(F, vc)' = IF Rev(T, vc) \in current THEN reverse[T][vc] ELSE 0
        BY <4>1, <4>2, <4>3, <4>4, Zenon DEF Exiting
      <4>6. Returning(l, vc)' = Returning(l, vc)
        BY <4>1, Zenon DEF Returning
      <4>7. Exiting(F, vc)' = Entering(l, vc)
        BY <3>1, <4>5, Zenon
      <4> QED BY <2>0, <3>1, <4>5, <4>6, <4>7, PassedOn, Zenon
    <3>3. CASE ReverseStages[l] # 0
      <4>1. /\ Rev(F, vc) \in current => reverse'[F][vc] = reverse[F][vc]
            /\ Total(reverse_credit_stages'[l][vc])
                  + (IF Rev(F, vc) \notin current THEN reverse'[F][vc] ELSE 0)
                = Total(reverse_credit_stages[l][vc])
                  + (IF Rev(T, vc) \in current THEN reverse[T][vc] ELSE 0)
        BY <2>2, <3>3, LinkReturns
      <4>2. Returning(l, vc)' + (IF Rev(F, vc) \notin current THEN reverse'[F][vc] ELSE 0)
              = Returning(l, vc) + (IF Rev(T, vc) \in current THEN reverse[T][vc] ELSE 0)
        BY <4>1, Zenon DEF Returning
      <4>3. Rev(F, vc) \in current'
        BY <1>2, <2>2, <3>3, ZenonT(60)
      <4>4. CASE Rev(F, vc) \in current
        <5>1. Exiting(F, vc)' = Exiting(F, vc)
          BY <1>2, <4>1, <4>3, <4>4, Zenon DEF Exiting, SameUpdate
        <5> QED BY <1>8, <1>9, <2>0, <3>1, <4>2, <4>4, <5>1, SMTT(60)
      <4>5. CASE Rev(F, vc) \notin current
        <5>1. Update(F, vc) \notin current /\ Update(F, vc) \notin current'
          BY <1>1, <1>2, <4>5, Zenon DEF Stamps, UpdateStamps, SameUpdate
        <5>2. Exiting(F, vc) = 0 /\ Exiting(F, vc)' = reverse'[F][vc]
          BY <4>3, <4>5, <5>1, Zenon DEF Exiting
        <5> QED BY <1>8, <1>9, <2>0, <3>1, <4>2, <4>5, <5>2, SMTT(60)
      <4> QED BY <4>4, <4>5, ZenonT(60)
    <3> QED BY <3>2, <3>3, Zenon
  <2> QED BY <2>1, <2>2, Zenon
<1>12. /\ Held(F, vc) \in Nat /\ Leaving(l, vc) \in Nat /\ InFlight(l, vc) \in Nat
       /\ Arriving(T, vc) \in Nat /\ Occupancy(T, vc) \in Nat /\ ToSend(T, vc) \in Nat
       /\ Entering(l, vc) \in Nat /\ Returning(l, vc) \in Nat /\ Exiting(F, vc) \in Nat
  BY Numbers0, Zenon
<1> DEFINE a == Held(F, vc) + Leaving(l, vc) + InFlight(l, vc) + Arriving(T, vc)
                  + Occupancy(T, vc) + ToSend(T, vc)
<1>13. a \in Nat
  BY <1>12
<1>14. /\ Balance(l, vc)' = a + Entering(l, vc)' + Returning(l, vc)' + Exiting(F, vc)'
       /\ Balance(l, vc) = a + Entering(l, vc) + Returning(l, vc) + Exiting(F, vc)
  BY <1>4, <1>7, Zenon DEF Balance
<1> HIDE DEF a
<1>15. Balance(l, vc)' = Balance(l, vc)
  <2> DEFINE b == Entering(l, vc)
             c == Returning(l, vc)
             d == Exiting(F, vc)
             b2 == Entering(l, vc)'
             c2 == Returning(l, vc)'
             d2 == Exiting(F, vc)'
  <2>1. /\ b \in Nat /\ c \in Nat /\ d \in Nat /\ b2 \in Nat /\ c2 \in Nat /\ d2 \in Nat
        /\ b2 + c2 + d2 = b + c + d
    BY <1>9, <1>10, <1>11, <1>12, Zenon
  <2>2. Balance(l, vc)' = a + b2 + c2 + d2 /\ Balance(l, vc) = a + b + c + d
    BY <1>14, Zenon
  <2> HIDE DEF b, c, d, b2, c2, d2
  <2>3. a + b2 + c2 + d2 = a + b + c + d
    BY <1>13, <2>1
  <2> QED BY <2>2, <2>3, Zenon
<1> QED BY <1>7, <1>15, Zenon

\* The input buffer with the flit that arrives.
LEMMA ArrivedLength ==
  ASSUME Types, NEW c \in AllInputs, NEW vc \in VCs
  PROVE  /\ Arrived(c, vc) \in Seq(Flit) /\ Len(input_buffers[c][vc]) \in Nat
         /\ Len(Arrived(c, vc)) = Len(input_buffers[c][vc]) + (IF OfVc(forward[c], vc) THEN 1 ELSE 0)
<1>1. c \in Connections
  BY Topology, Zenon DEF Ends
<1>2. forward[c] \in Wire /\ input_buffers[c][vc] \in Seq(Flit)
  BY <1>1 DEF Types
<1>3. CASE OfVc(forward[c], vc)
  <2>1. forward[c] # <<>> /\ forward[c][1].vc = vc
    BY <1>3, Zenon DEF OfVc
  <2>2. Arrived(c, vc) = Append(input_buffers[c][vc], forward[c][1])
    BY <2>1, Zenon DEF Arrived
  <2>3. forward[c][1] \in Flit
    BY <1>2, <2>1 DEF Wire
  <2> QED BY <1>2, <1>3, <2>2, <2>3, SeqAppend
<1>4. CASE ~OfVc(forward[c], vc)
  <2>1. Arrived(c, vc) = input_buffers[c][vc]
    BY <1>4, Zenon DEF Arrived, OfVc
  <2> QED BY <1>2, <1>4, <2>1
<1> QED BY <1>3, <1>4, Zenon

\* An input that is granted has a flit for an output with credit.
LEMMA GrantedRequests ==
  ASSUME NEW r \in RouterSet, Types, NEW x \in Granted(r)
  PROVE  /\ x[1] \in VCs /\ x[2] \in DOMAIN InPorts[r] /\ InPorts[r][x[2]] \in Inputs(r)
         /\ Arrived(InPorts[r][x[2]], x[1]) # <<>>
         /\ \E o \in DOMAIN OutPorts[r] :
              /\ Target(r, x[2], x[1])[1] = o
              /\ OutputCredit(r, OutPorts[r][o])[Target(r, x[2], x[1])[2]] > 0
<1>1. x \in VCs \X DOMAIN InPorts[r] /\ \E o \in DOMAIN OutPorts[r] : x \in Requests(r, o)
  BY Zenon DEF Granted
<1>2. InPorts[r][x[2]] \in Inputs(r)
  BY <1>1, Zenon DEF Inputs, Range
<1> QED BY <1>1, <1>2, Zenon DEF Requests

\* What a router sends on an output port is a flit of a virtual channel with credit.
LEMMA SentType ==
  ASSUME NEW r \in RouterSet, Types, NEW o \in DOMAIN OutPorts[r]
  PROVE  /\ Sent(r, o) \in Wire
         /\ \A vc \in VCs : OfVc(Sent(r, o), vc) => OutputCredit(r, OutPorts[r][o])[vc] > 0
<1> DEFINE winners == {x \in Granted(r) : Target(r, x[2], x[1])[1] = o}
           w == CHOOSE x \in winners : TRUE
           old == Head(Arrived(InPorts[r][w[2]], w[1]))
           to == Target(r, w[2], w[1])
<1>1. CASE winners = {}
  <2>1. Sent(r, o) = <<>>
    BY <1>1, Zenon DEF Sent
  <2> QED BY <2>1, Zenon DEF Wire, OfVc
<1>2. CASE winners # {}
  <2>1. Sent(r, o) = <<[old EXCEPT !.vc = to[2]]>>
    BY <1>2, Zenon DEF Sent
  <2>2. w \in winners
    BY <1>2, Zenon
  <2>3. w \in Granted(r) /\ to[1] = o
    BY <2>2, Zenon
  <2> HIDE DEF winners, w
  <2>4. /\ w[1] \in VCs /\ w[2] \in DOMAIN InPorts[r] /\ InPorts[r][w[2]] \in Inputs(r)
        /\ Arrived(InPorts[r][w[2]], w[1]) # <<>>
        /\ OutputCredit(r, OutPorts[r][o])[to[2]] > 0
    BY <2>3, GrantedRequests, Zenon
  <2>5. InPorts[r][w[2]] \in AllInputs
    BY <2>4, Topology, Zenon DEF Ends
  <2>6. old \in Flit
    BY <2>4, <2>5, ArrivedLength, SeqHeadTail, Zenon
  <2>7. to[2] \in VCs
    <3>1. to = Route(r, w[2], w[1], old.dest)
      BY Zenon DEF Target
    <3>2. old.dest \in Dests
      BY <2>6, Zenon DEF Flit
    <3> HIDE DEF to, old
    <3> QED BY <2>3, <2>4, <3>1, <3>2, NetworkAssumption, Zenon DEF RouterSet
  <2> HIDE DEF old, to
  <2>8. [old EXCEPT !.vc = to[2]] \in Flit /\ [old EXCEPT !.vc = to[2]].vc = to[2]
    BY <2>6, <2>7, Zenon DEF Flit
  <2> DEFINE f == [old EXCEPT !.vc = to[2]]
  <2>9. Sent(r, o) = <<f>> /\ f \in Flit /\ f.vc = to[2]
    BY <2>1, <2>8, Zenon
  <2> HIDE DEF f
  <2>10. Sent(r, o) \in Wire
    BY <2>9, Zenon DEF Wire
  <2>11. \A vc : OfVc(Sent(r, o), vc) => vc = to[2]
    BY <2>9 DEF OfVc
  <2> QED BY <2>4, <2>10, <2>11, Zenon
<1> QED BY <1>1, <1>2, Zenon

\* A port index of a connection is one of its ports.
LEMMA PortOfConnection ==
  ASSUME NEW ports, NEW c \in Range(ports)
  PROVE  PortOf(ports, c) \in DOMAIN ports /\ ports[PortOf(ports, c)] = c
BY ZenonT(60) DEF PortOf, Range

\* What a router does with credits and flits: per output, the credit it has is spent
\* on the flit it sends; per input, a flit arrives in the buffer and a flit that
\* leaves it becomes a credit to send.
LEMMA RouterMoves ==
  ASSUME NEW r \in RouterSet, Types, RouterForward(r)
  PROVE  /\ forward' \in [Connections -> Wire] /\ credit' \in [AllOutputs -> [VCs -> Nat]]
         /\ input_buffers' \in [AllInputs -> [VCs -> Seq(Flit)]]
         /\ input_credit_to_send' \in [AllInputs -> [VCs -> Nat]]
         /\ \A c \in Connections : ~(CanPropagate(r) /\ c \in Outputs(r)) => forward'[c] = forward[c]
         /\ \A c \in AllOutputs : c \notin Outputs(r) => credit'[c] = credit[c]
         /\ \A c \in Outputs(r), vc \in VCs :
              credit'[c][vc] + (IF CanPropagate(r) /\ OfVc(forward'[c], vc) THEN 1 ELSE 0)
                = OutputCredit(r, c)[vc]
         /\ \A c \in AllInputs : ~(CanPropagate(r) /\ c \in Inputs(r)) =>
              input_buffers'[c] = input_buffers[c] /\ input_credit_to_send'[c] = input_credit_to_send[c]
         /\ \A c \in Inputs(r), vc \in VCs : CanPropagate(r) =>
              /\ Len(input_buffers'[c][vc]) + input_credit_to_send'[c][vc] = Len(Arrived(c, vc))
              /\ Arrived(c, vc) = <<>> => input_credit_to_send'[c][vc] = 0
<1> DEFINE ready == CanPropagate(r)
           won(c, vc) == ready /\ <<vc, PortOf(InPorts[r], c)>> \in Granted(r)
           out(c) == Sent(r, PortOf(OutPorts[r], c))
           used(c, vc) == ready /\ OfVc(out(c), vc)
<1>0. /\ Outputs(r) \subseteq AllOutputs /\ AllOutputs \subseteq Connections
      /\ Inputs(r) \subseteq AllInputs /\ AllInputs \subseteq Connections
  BY Topology, Zenon DEF Ends
<1>1. /\ credit' = [c \in AllOutputs |->
              IF c \notin Outputs(r) THEN credit[c]
              ELSE [vc \in VCs |-> OutputCredit(r, c)[vc] - (IF used(c, vc) THEN 1 ELSE 0)]]
      /\ forward' = [c \in Connections |-> IF ready /\ c \in Outputs(r) THEN out(c) ELSE forward[c]]
      /\ input_buffers' = [c \in AllInputs |->
              IF ~ready \/ c \notin Inputs(r) THEN input_buffers[c]
              ELSE [vc \in VCs |-> IF won(c, vc) THEN Tail(Arrived(c, vc)) ELSE Arrived(c, vc)]]
      /\ input_credit_to_send' = [c \in AllInputs |->
              IF ~ready \/ c \notin Inputs(r) THEN input_credit_to_send[c]
              ELSE [vc \in VCs |-> IF won(c, vc) THEN 1 ELSE 0]]
  BY ZenonT(60) DEF RouterForward, OfVc
<1>2. \A c \in Outputs(r) : /\ out(c) \in Wire
                            /\ \A vc \in VCs : OfVc(out(c), vc) => OutputCredit(r, c)[vc] > 0
  BY SentType, PortOfConnection, SMTT(60) DEF Outputs
<1>3. \A c \in Outputs(r), vc \in VCs : OutputCredit(r, c)[vc] \in Nat
  BY <1>0 DEF OutputCredit, WithUpdate, Types
<1>4. \A c \in Inputs(r), vc \in VCs : won(c, vc) => Arrived(c, vc) # <<>>
  <2> SUFFICES ASSUME NEW c \in Inputs(r), NEW vc \in VCs, won(c, vc) PROVE Arrived(c, vc) # <<>>
    BY Zenon
  <2>1. InPorts[r][PortOf(InPorts[r], c)] = c
    BY PortOfConnection, Zenon DEF Inputs
  <2>2. <<vc, PortOf(InPorts[r], c)>> \in Granted(r)
    BY Zenon
  <2> QED BY <2>1, <2>2, GrantedRequests, Zenon
<1>5. \A c \in Inputs(r), vc \in VCs : /\ Arrived(c, vc) \in Seq(Flit) /\ Len(Arrived(c, vc)) \in Nat
                                       /\ won(c, vc) => /\ Tail(Arrived(c, vc)) \in Seq(Flit)
                                                        /\ Len(Tail(Arrived(c, vc))) = Len(Arrived(c, vc)) - 1
  <2> SUFFICES ASSUME NEW c \in Inputs(r), NEW vc \in VCs
               PROVE  /\ Arrived(c, vc) \in Seq(Flit) /\ Len(Arrived(c, vc)) \in Nat
                      /\ won(c, vc) => /\ Tail(Arrived(c, vc)) \in Seq(Flit)
                                       /\ Len(Tail(Arrived(c, vc))) = Len(Arrived(c, vc)) - 1
    BY Zenon
  <2>1. c \in AllInputs
    BY <1>0, Zenon
  <2>2. Arrived(c, vc) \in Seq(Flit)
    BY <2>1, ArrivedLength, Zenon
  <2>3. Arrived(c, vc) # <<>> => /\ Tail(Arrived(c, vc)) \in Seq(Flit)
                                 /\ Len(Tail(Arrived(c, vc))) = Len(Arrived(c, vc)) - 1
    BY <2>2, SeqHeadTail, Zenon
  <2>4. Len(Arrived(c, vc)) \in Nat
    BY <2>2
  <2> HIDE DEF won
  <2> QED BY <1>4, <2>2, <2>3, <2>4, Zenon
<1> HIDE DEF ready, won, out
<1>6. forward' \in [Connections -> Wire]
  BY <1>0, <1>1, <1>2, Zenon DEF Types
<1>7. /\ credit' \in [AllOutputs -> [VCs -> Nat]]
      /\ \A c \in Outputs(r), vc \in VCs : credit'[c][vc] = OutputCredit(r, c)[vc] - (IF used(c, vc) THEN 1 ELSE 0)
      /\ \A c \in AllOutputs : c \notin Outputs(r) => credit'[c] = credit[c]
  <2>1. \A c \in Outputs(r), vc \in VCs : OutputCredit(r, c)[vc] - (IF used(c, vc) THEN 1 ELSE 0) \in Nat
    BY <1>2, <1>3
  <2> HIDE DEF used
  <2> QED BY <1>0, <1>1, <2>1, Zenon DEF Types
<1>8. input_buffers' \in [AllInputs -> [VCs -> Seq(Flit)]]
  BY <1>0, <1>1, <1>5, Zenon DEF Types
<1>9. input_credit_to_send' \in [AllInputs -> [VCs -> Nat]]
  BY <1>0, <1>1, Zenon DEF Types
<1>10. /\ \A c \in Connections : ~(ready /\ c \in Outputs(r)) => forward'[c] = forward[c]
       /\ \A c \in Outputs(r) : ready => forward'[c] = out(c)
  BY <1>0, <1>1, ZenonT(60)
<1>11. \A c \in Outputs(r), vc \in VCs :
              credit'[c][vc] + (IF ready /\ OfVc(forward'[c], vc) THEN 1 ELSE 0) = OutputCredit(r, c)[vc]
  BY <1>3, <1>7, <1>10
<1>12. \A c \in AllInputs : ~(ready /\ c \in Inputs(r)) =>
              input_buffers'[c] = input_buffers[c] /\ input_credit_to_send'[c] = input_credit_to_send[c]
  BY <1>1, ZenonT(60)
<1>13. \A c \in Inputs(r), vc \in VCs : ready =>
              /\ Len(input_buffers'[c][vc]) + input_credit_to_send'[c][vc] = Len(Arrived(c, vc))
              /\ Arrived(c, vc) = <<>> => input_credit_to_send'[c][vc] = 0
  <2> SUFFICES ASSUME NEW c \in Inputs(r), NEW vc \in VCs, ready
               PROVE  /\ Len(input_buffers'[c][vc]) + input_credit_to_send'[c][vc] = Len(Arrived(c, vc))
                      /\ Arrived(c, vc) = <<>> => input_credit_to_send'[c][vc] = 0
    BY Zenon
  <2>1. /\ input_buffers'[c][vc] = IF won(c, vc) THEN Tail(Arrived(c, vc)) ELSE Arrived(c, vc)
        /\ input_credit_to_send'[c][vc] = IF won(c, vc) THEN 1 ELSE 0
    BY <1>0, <1>1, Zenon
  <2> QED BY <1>4, <1>5, <2>1
<1> HIDE DEF used
<1> QED BY <1>6, <1>7, <1>8, <1>9, <1>10, <1>11, <1>12, <1>13, SMTT(60) DEF ready

\* RouterForward keeps the balance: a credit spent is a flit leaving, a flit that
\* arrives is in the buffer or, if it left it, a credit to send.
LEMMA RouterForwardBalance ==
  ASSUME Counting, NEW r \in RouterSet, Types, Stamps, RouterForward(r),
         NEW l \in LinkSet, NEW vc \in VCs, Balance(l, vc) = Issued(LinkTo[l], vc)
  PROVE  (Balance(l, vc) = Issued(LinkTo[l], vc))'
<1> DEFINE F == LinkFrom[l]
           T == LinkTo[l]
<1>1. /\ F \in AllOutputs /\ F \in Connections /\ T \in Connections /\ T \notin Outputs(r)
      /\ F \notin Inputs(r) /\ l # r /\ r \notin SrcSet /\ r \notin SinkSet
  BY Topology DEF Disjoint, OneDriver, OneReader, Ends
<1>2. /\ \A c : Fwd(c) \in current' <=> Fwd(c) \in current \/ (CanPropagate(r) /\ c \in Outputs(r))
      /\ \A n : ForwardDone(n) \in current' <=> ForwardDone(n) \in current \/ (n = r /\ CanPropagate(r))
      /\ \A n : CreditsAdded(n) \in current' <=> CreditsAdded(n) \in current \/ n = r
      /\ SameRev /\ SameUpdate /\ SameReverseDone /\ SameVcDone
  BY RouterForwardStamps, Zenon
<1>3. /\ reverse' = reverse /\ credit_update' = credit_update
      /\ forward_data_stages' = forward_data_stages
      /\ reverse_credit_stages' = reverse_credit_stages
      /\ cycle0' = cycle0 /\ ForwardDone(r) \notin current
  BY Zenon DEF RouterForward, TryForward, links
<1>4. Returning(l, vc)' = Returning(l, vc) /\ InFlight(l, vc)' = InFlight(l, vc)
  BY <1>3, Zenon DEF Returning, InFlight
<1>5. /\ Entering(l, vc)' = Entering(l, vc) /\ Exiting(F, vc)' = Exiting(F, vc)
      /\ Issued(T, vc)' = Issued(T, vc)
  BY <1>2, <1>3, Zenon DEF Entering, Exiting, Issued, SameRev, SameUpdate, SameVcDone
<1>6. /\ Held(F, vc) \in Nat /\ Leaving(l, vc) \in Nat /\ InFlight(l, vc) \in Nat
      /\ Arriving(T, vc) \in Nat /\ Occupancy(T, vc) \in Nat /\ ToSend(T, vc) \in Nat
      /\ Entering(l, vc) \in Nat /\ Returning(l, vc) \in Nat /\ Exiting(F, vc) \in Nat
  BY Numbers0, Zenon
<1>7. Held(F, vc)' + Leaving(l, vc)' = Held(F, vc) + Leaving(l, vc)
  <2>1. CASE F \notin Outputs(r)
    <3>1. SenderAdded(F)' <=> SenderAdded(F)
      BY <1>1, <1>2, <2>1 DEF SenderAdded
    <3>2. credit'[F] = credit[F] /\ forward'[F] = forward[F]
      BY <1>1, <2>1, RouterMoves, Zenon
    <3>3. Held(F, vc)' = Held(F, vc)
      BY <1>2, <1>3, <3>1, <3>2, Zenon DEF Held, SameUpdate
    <3>4. Leaving(l, vc)' = Leaving(l, vc)
      BY <1>1, <1>2, <2>1, <3>2, Zenon DEF Leaving
    <3> QED BY <3>3, <3>4, ZenonT(60)
  <2>2. CASE F \in Outputs(r)
    <3>1. (SenderAdded(F) <=> CreditsAdded(r) \in current) /\ SenderAdded(F)'
      BY <1>1, <1>2, <2>2, Topology, Zenon DEF SenderAdded, OneDriver
    <3>2. ~SenderAdded(F) => Update(F, vc) \notin current
      BY <1>1, Zenon DEF Stamps, UpdateStamps
    <3>3. /\ Fwd(F) \notin current /\ (Fwd(F) \in current' <=> CanPropagate(r))
          /\ ForwardDone(l) \notin current'
      BY <1>1, <1>2, <1>3, <2>2, Zenon DEF Stamps, RouterStamps, LinkStamps
    <3>4. Leaving(l, vc) = 0 /\ Leaving(l, vc)' = IF CanPropagate(r) /\ OfVc(forward'[F], vc) THEN 1 ELSE 0
      BY <3>3, ZenonT(60) DEF Leaving, OfVc
    <3>5. credit'[F][vc] \in Nat /\ credit[F][vc] \in Nat /\ credit_update[F][vc] \in Nat
      <4>1. credit' \in [AllOutputs -> [VCs -> Nat]]
        BY RouterMoves, Zenon
      <4> QED BY <1>1, <4>1 DEF Types
    <3>6. credit'[F][vc] + (IF CanPropagate(r) /\ OfVc(forward'[F], vc) THEN 1 ELSE 0)
            = OutputCredit(r, F)[vc]
      BY <2>2, RouterMoves, Zenon
    <3>7. CASE CreditsAdded(r) \in current
      <4>1. OutputCredit(r, F)[vc] = credit[F][vc]
        BY <3>7, ZenonT(60) DEF OutputCredit
      <4>2. CASE Update(F, vc) \in current
        <5>1. Held(F, vc) = credit[F][vc] + credit_update[F][vc] /\ Held(F, vc)' = credit'[F][vc] + credit_update[F][vc]
          BY <1>2, <1>3, <4>2, ZenonT(60) DEF Held, SameUpdate
        <5>2. credit'[F][vc] + Leaving(l, vc)' = credit[F][vc]
          BY <3>4, <3>6, <4>1, ZenonT(60)
        <5>3. Leaving(l, vc)' \in Nat
          BY <3>4, SMTT(60)
        <5> HIDE DEF F
        <5> QED BY <3>4, <3>5, <5>1, <5>2, <5>3, SMTT(60)
      <4>3. CASE Update(F, vc) \notin current
        <5>1. Held(F, vc) = credit[F][vc] + 0 /\ Held(F, vc)' = credit'[F][vc] + 0
          BY <1>2, <3>1, <3>7, <4>3, ZenonT(60) DEF Held, SameUpdate
        <5>2. credit'[F][vc] + Leaving(l, vc)' = credit[F][vc]
          BY <3>4, <3>6, <4>1, Zenon
        <5>3. Leaving(l, vc)' \in Nat
          BY <3>4
        <5> HIDE DEF F
        <5> QED BY <3>4, <3>5, <5>1, <5>2, <5>3, SMTT(60)
      <4> QED BY <4>2, <4>3, Zenon
    <3>8. CASE CreditsAdded(r) \notin current
      <4>1. OutputCredit(r, F)[vc] = credit[F][vc] + credit_update[F][vc]
        BY <3>8, Zenon DEF OutputCredit, WithUpdate
      <4>2. Held(F, vc) = credit[F][vc] + credit_update[F][vc] /\ Held(F, vc)' = credit'[F][vc] + 0
        BY <1>2, <3>1, <3>2, <3>8, Zenon DEF Held, SameUpdate
      <4>3. credit'[F][vc] + Leaving(l, vc)' = credit[F][vc] + credit_update[F][vc]
        BY <3>4, <3>6, <4>1, Zenon
      <4>4. Leaving(l, vc)' \in Nat
        BY <3>4
      <4> HIDE DEF F
      <4> QED BY <3>4, <3>5, <4>2, <4>3, <4>4
    <3> QED BY <3>7, <3>8, Zenon
  <2> QED BY <2>1, <2>2, Zenon
<1>9. forward'[T] = forward[T]
  BY <1>1, RouterMoves, Zenon
<1>10. /\ Arriving(T, vc)' \in Nat /\ Occupancy(T, vc)' \in Nat /\ ToSend(T, vc)' \in Nat
       /\ Arriving(T, vc)' + Occupancy(T, vc)' + ToSend(T, vc)'
            = Arriving(T, vc) + Occupancy(T, vc) + ToSend(T, vc)
  <2>1. CASE ~(CanPropagate(r) /\ T \in Inputs(r))
    <3>1. ReaderDone(T)' <=> ReaderDone(T)
      <4>1. \A q \in RouterSet : T \in Inputs(q) =>
                (ForwardDone(q) \in current' <=> ForwardDone(q) \in current)
        BY <1>2, <2>1, Zenon
      <4>2. \A k \in SinkSet : ForwardDone(k) \in current' <=> ForwardDone(k) \in current
        <5>1. \A k \in SinkSet : k # r
          BY <1>1, SMT
        <5> QED BY <1>2, <5>1, Zenon
      <4> QED BY <4>1, <4>2, Zenon DEF ReaderDone
    <3>2. T \in AllInputs => /\ input_buffers'[T] = input_buffers[T]
                             /\ input_credit_to_send'[T] = input_credit_to_send[T]
      BY <2>1, RouterMoves, Zenon
    <3>3. Occupancy(T, vc)' = Occupancy(T, vc)
      BY <3>2, Zenon DEF Occupancy
    <3>4. ToSend(T, vc)' = ToSend(T, vc)
      BY <1>2, <1>3, <3>1, <3>2, Zenon DEF ToSend, SameRev
    <3>5. Arriving(T, vc)' = Arriving(T, vc)
      BY <1>1, <1>2, <1>9, <3>1, ZenonT(60) DEF Arriving
    <3> QED BY <1>6, <3>3, <3>4, <3>5, ZenonT(60)
  <2>2. CASE CanPropagate(r) /\ T \in Inputs(r)
    <3>1. T \in AllInputs /\ (ReaderDone(T) <=> ForwardDone(r) \in current) /\ ReaderDone(T)'
      BY <1>2, <2>2, Topology, Zenon DEF ReaderDone, OneReader, Ends
    <3>2. Rev(T, vc) \notin current /\ Rev(T, vc) \notin current' /\ Fwd(T) \in current
      BY <1>2, <1>3, <2>2, Zenon DEF Stamps, RouterStamps, SameRev, CanPropagate
    <3>3. Arriving(T, vc) = (IF OfVc(forward[T], vc) THEN 1 ELSE 0) /\ Arriving(T, vc)' = 0
      BY <1>3, <3>1, <3>2, Zenon DEF Arriving
    <3>4. /\ Occupancy(T, vc) = Len(input_buffers[T][vc])
          /\ Occupancy(T, vc)' = Len(input_buffers'[T][vc])
      BY <3>1, Zenon DEF Occupancy
    <3>5. ToSend(T, vc) = 0 /\ ToSend(T, vc)' = IF cycle0 THEN 0 ELSE input_credit_to_send'[T][vc]
      BY <1>3, <3>1, <3>2, Zenon DEF ToSend
    <3>6. /\ Arrived(T, vc) \in Seq(Flit)
          /\ Len(Arrived(T, vc)) = Occupancy(T, vc) + Arriving(T, vc)
      BY <3>1, <3>3, <3>4, ArrivedLength, Zenon
    <3>7. /\ Len(input_buffers'[T][vc]) + input_credit_to_send'[T][vc] = Len(Arrived(T, vc))
          /\ Arrived(T, vc) = <<>> => input_credit_to_send'[T][vc] = 0
      BY <2>2, RouterMoves, Zenon
    <3>8. input_buffers'[T][vc] \in Seq(Flit) /\ input_credit_to_send'[T][vc] \in Nat
      <4>1. /\ input_buffers' \in [AllInputs -> [VCs -> Seq(Flit)]]
            /\ input_credit_to_send' \in [AllInputs -> [VCs -> Nat]]
        BY RouterMoves, Zenon
      <4> QED BY <3>1, <4>1, Zenon
    <3>9. Len(input_buffers'[T][vc]) \in Nat
      BY <3>8
    <3>10. cycle0 => input_credit_to_send'[T][vc] = 0
      <4> SUFFICES ASSUME cycle0 PROVE Arrived(T, vc) = <<>>
        BY <3>7, Zenon
      <4>1. Balance(l, vc) = 0
        BY <3>2, Zenon DEF Issued
      <4>2. Occupancy(T, vc) = 0 /\ Arriving(T, vc) = 0
        BY <4>1, NothingYet, Zenon
      <4>3. Len(Arrived(T, vc)) = 0
        BY <3>6, <4>2
      <4> QED BY <3>6, <4>3
    <3>11. ToSend(T, vc)' = input_credit_to_send'[T][vc]
      BY <3>5, <3>10, ZenonT(60)
    <3>12. Occupancy(T, vc)' + ToSend(T, vc)' = Occupancy(T, vc) + Arriving(T, vc)
      BY <3>4, <3>6, <3>7, <3>11, ZenonT(60)
    <3>13. Occupancy(T, vc)' \in Nat /\ ToSend(T, vc)' \in Nat
      BY <3>4, <3>8, <3>9, <3>11
    <3>14. Arriving(T, vc)' = 0 /\ ToSend(T, vc) = 0
      BY <3>3, <3>5, ZenonT(60)
    <3> QED BY <1>6, <3>12, <3>13, <3>14
  <2> QED BY <2>1, <2>2, Zenon
<1> DEFINE a == Held(F, vc) + Leaving(l, vc) + InFlight(l, vc)
<1>11. a \in Nat
  BY <1>6, SMTT(60)
<1>12. a + Arriving(T, vc)' + Occupancy(T, vc)' + ToSend(T, vc)'
          = a + Arriving(T, vc) + Occupancy(T, vc) + ToSend(T, vc)
  <2> HIDE DEF a
  <2> QED BY <1>6, <1>10, <1>11, EqualSums
<1>13. Balance(l, vc)' = Balance(l, vc)
  BY <1>4, <1>5, <1>7, <1>12, Zenon DEF Balance
<1> QED BY <1>5, <1>13, ZenonT(60)

\* RouterReverse keeps the balance: a credit to send is sent, in the first cycle the
\* whole buffer is, and credits that arrive become an update.
LEMMA RouterReverseBalance ==
  ASSUME Counting, NEW r \in RouterSet, Types, Stamps, SameCredits, RouterReverse(r),
         NEW l \in LinkSet, NEW vc \in VCs, Balance(l, vc) = Issued(LinkTo[l], vc)
  PROVE  (Balance(l, vc) = Issued(LinkTo[l], vc))'
<1> DEFINE F == LinkFrom[l]
           T == LinkTo[l]
<1>1. /\ F \in AllOutputs /\ F \in Connections /\ T \in Connections
      /\ F \notin Inputs(r) /\ Outputs(r) \subseteq AllOutputs
  BY Topology, Zenon DEF OneReader, Ends
<1>2. /\ \A c, v : Rev(c, v) \in current' <=>
                Rev(c, v) \in current \/ (MayReverse(r) /\ c \in Inputs(r) /\ v \in VCs)
      /\ \A c, v : Update(c, v) \in current' <=>
                \/ Update(c, v) \in current
                \/ MayReverse(r) /\ c \in Outputs(r) /\ v \in VCs /\ Rev(c, v) \in current
      /\ SameFwd /\ SameForwardDone /\ SameVcDone /\ SameCreditsAdded
  BY RouterReverseStamps, Zenon
<1>3. /\ forward' = forward /\ credit' = credit
      /\ forward_data_stages' = forward_data_stages
      /\ reverse_credit_stages' = reverse_credit_stages
      /\ input_buffers' = input_buffers /\ input_credit_to_send' = input_credit_to_send
      /\ cycle0' = cycle0 /\ at.phase = "reverse"
  BY Zenon DEF RouterReverse, TryReverse, Turn, links, buffers
<1>4. CASE ~MayReverse(r)
  <2>1. reverse' = reverse /\ credit_update' = credit_update
    BY <1>4 DEF RouterReverse, Tried
  <2>2. SameRev /\ SameUpdate
    BY <1>2, <1>4, Zenon DEF SameRev, SameUpdate
  <2> QED BY <1>2, <1>3, <2>1, <2>2, SameBalance, Zenon DEF links, credits, buffers
<1>5. CASE MayReverse(r)
  <2>1. /\ reverse' = [c \in Connections |->
                IF c \notin Inputs(r) THEN reverse[c]
                ELSE IF cycle0 THEN Depth[c] ELSE input_credit_to_send[c]]
        /\ NewCredits(Outputs(r))
    BY <1>5 DEF RouterReverse
  <2>2. /\ InFlight(l, vc)' = InFlight(l, vc) /\ Occupancy(T, vc)' = Occupancy(T, vc)
        /\ Returning(l, vc)' = Returning(l, vc)
    BY <1>3, Zenon DEF InFlight, Occupancy, Returning
  <2>3. ReaderDone(T)' <=> ReaderDone(T)
    BY <1>2, Zenon DEF ReaderDone, SameForwardDone
  <2>4. Leaving(l, vc)' = Leaving(l, vc) /\ Arriving(T, vc)' = Arriving(T, vc)
    BY <1>2, <1>3, <2>3, Zenon DEF Leaving, Arriving, SameFwd, SameForwardDone
  <2>5. /\ Held(F, vc)' \in Nat /\ Exiting(F, vc)' \in Nat
        /\ Held(F, vc)' + Exiting(F, vc)' = Held(F, vc) + Exiting(F, vc)
    <3>1. /\ Rev(F, vc) \in current' <=> Rev(F, vc) \in current
          /\ Update(F, vc) \in current' <=>
              Update(F, vc) \in current \/ (F \in Outputs(r) /\ Rev(F, vc) \in current)
      BY <1>1, <1>2, <1>5, Zenon
    <3>2. F \in Outputs(r) => SenderAdded(F)
      BY <1>5, Zenon DEF SenderAdded, MayReverse, Stamps, RouterStamps
    <3>3. reverse'[F] = reverse[F]
      BY <1>1, <2>1, Zenon
    <3> QED BY <1>1, <1>2, <1>3, <2>1, <3>1, <3>2, <3>3, NewCreditsBalance, Zenon
  <2>6. /\ Held(F, vc) \in Nat /\ Leaving(l, vc) \in Nat /\ InFlight(l, vc) \in Nat
        /\ Arriving(T, vc) \in Nat /\ Occupancy(T, vc) \in Nat /\ ToSend(T, vc) \in Nat
        /\ Entering(l, vc) \in Nat /\ Returning(l, vc) \in Nat /\ Exiting(F, vc) \in Nat
        /\ Issued(T, vc) \in Nat
    BY Numbers0, Zenon
  <2>7. /\ ToSend(T, vc)' \in Nat /\ Entering(l, vc)' \in Nat /\ Issued(T, vc)' \in Nat
        /\ (ToSend(T, vc)' + Entering(l, vc)') + Issued(T, vc) = (ToSend(T, vc) + Entering(l, vc)) + Issued(T, vc)'
    <3>1. CASE T \notin Inputs(r) \/ Rev(T, vc) \in current
      <4>1. Rev(T, vc) \in current' <=> Rev(T, vc) \in current
        BY <1>2, <3>1, Zenon
      <4>2. Rev(T, vc) \in current => reverse'[T][vc] = reverse[T][vc]
        <5>1. CASE T \notin Inputs(r)
          BY <1>1, <2>1, <5>1, Zenon
        <5>2. CASE T \in Inputs(r)
          <6>1. T \in AllInputs
            BY <5>2, Topology, Zenon DEF Ends
          <6>2. Rev(T, vc) \in current =>
                   reverse[T][vc] = IF cycle0 THEN Depth[T][vc] ELSE input_credit_to_send[T][vc]
            BY <1>3, <6>1, Zenon DEF SameCredits
          <6>3. reverse'[T] = IF cycle0 THEN Depth[T] ELSE input_credit_to_send[T]
            BY <1>1, <2>1, <5>2, Zenon
          <6> QED BY <6>2, <6>3, Zenon
        <5> QED BY <5>1, <5>2, Zenon
      <4>3. ToSend(T, vc)' = ToSend(T, vc)
        BY <1>3, <2>3, <4>1, Zenon DEF ToSend
      <4>4. Entering(l, vc)' = Entering(l, vc)
        BY <1>2, <4>1, <4>2, Zenon DEF Entering, SameVcDone
      <4>5. Issued(T, vc)' = Issued(T, vc)
        BY <1>3, <4>1, Zenon DEF Issued
      <4> QED BY <2>6, <4>3, <4>4, <4>5, Zenon
    <3>2. CASE T \in Inputs(r) /\ Rev(T, vc) \notin current
      <4>1. T \in AllInputs /\ ReaderDone(T)
        BY <1>5, <3>2, Topology, ZenonT(60) DEF ReaderDone, MayReverse, Ends
      <4>2. Rev(T, vc) \in current' /\ VcDone(l, vc) \notin current /\ VcDone(l, vc) \notin current'
        BY <1>2, <1>5, <3>2 DEF Stamps, LinkStamps, SameVcDone
      <4>3. reverse'[T][vc] = IF cycle0 THEN Depth[T][vc] ELSE input_credit_to_send[T][vc]
        BY <1>1, <2>1, <3>2, Zenon
      <4>4. ToSend(T, vc)' = 0 /\ ToSend(T, vc) = IF cycle0 THEN 0 ELSE input_credit_to_send[T][vc]
        BY <3>2, <4>1, <4>2, Zenon DEF ToSend
      <4>5. Entering(l, vc) = 0 /\ Entering(l, vc)' = IF cycle0 THEN Depth[T][vc] ELSE input_credit_to_send[T][vc]
        BY <3>2, <4>2, <4>3, Zenon DEF Entering
      <4>6. Issued(T, vc) = (IF cycle0 THEN 0 ELSE Depth[T][vc]) /\ Issued(T, vc)' = Depth[T][vc]
        BY <1>3, <3>2, <4>2, ZenonT(60) DEF Issued
      <4>7. Depth[T][vc] \in Nat /\ input_credit_to_send[T][vc] \in Nat
        BY <1>1, <4>1, NetworkAssumption, SMTT(60) DEF Types
      <4>8. CASE cycle0
        BY <4>4, <4>5, <4>6, <4>7, <4>8, SMTT(60)
      <4>9. CASE ~cycle0
        BY <4>4, <4>5, <4>6, <4>7, <4>9, SMTT(60)
      <4> QED BY <4>8, <4>9, Zenon
    <3> QED BY <3>1, <3>2
  <2> DEFINE a == Leaving(l, vc) + InFlight(l, vc) + Arriving(T, vc) + Occupancy(T, vc)
             h == Held(F, vc)
             h2 == Held(F, vc)'
             e == Exiting(F, vc)
             e2 == Exiting(F, vc)'
             t == ToSend(T, vc) + Entering(l, vc)
             t2 == ToSend(T, vc)' + Entering(l, vc)'
             q == Returning(l, vc)
             i == Issued(T, vc)
             i2 == Issued(T, vc)'
  <2>8. /\ a \in Nat /\ h \in Nat /\ h2 \in Nat /\ e \in Nat /\ e2 \in Nat /\ t \in Nat /\ t2 \in Nat
        /\ q \in Nat /\ i \in Nat /\ i2 \in Nat
    BY <2>5, <2>6, <2>7
  <2>9. h2 + e2 = h + e /\ t2 + i = t + i2
    BY <2>5, <2>7, ZenonT(60)
  <2>10. Balance(l, vc) = h + a + t + q + e
    BY <2>6, SMTT(60) DEF Balance
  <2>11. Balance(l, vc)' = h2 + a + t2 + q + e2
    BY <2>2, <2>4, <2>5, <2>6, <2>7, SMTT(60) DEF Balance
  <2>12. Balance(l, vc) = i
    BY Zenon
  <2> HIDE DEF a, h, h2, e, e2, t, t2, q, i, i2
  <2>13. h2 + a + t2 + q + e2 = i2
    BY <2>8, <2>9, <2>10, <2>12
  <2>14. Balance(l, vc)' = i2
    BY <2>11, <2>13, Zenon
  <2> QED BY <2>14, Zenon DEF i2
<1> QED BY <1>4, <1>5, Zenon

\* What a sink does with a flit and its credit.
LEMMA SinkMoves ==
  ASSUME NEW k \in SinkSet, Types, SinkForward(k)
  PROVE  /\ reverse' \in [Connections -> [VCs -> Nat]]
         /\ \A c \in Connections : c # Ingress[k] => reverse'[c] = reverse[c]
         /\ Fwd(Ingress[k]) \notin current => reverse' = reverse
         /\ Fwd(Ingress[k]) \in current => \A vc \in VCs :
              reverse'[Ingress[k]][vc] = IF cycle0 THEN Depth[Ingress[k]][vc]
                                         ELSE IF OfVc(forward[Ingress[k]], vc) THEN 1 ELSE 0
<1> DEFINE c == Ingress[k]
           col == IF cycle0 THEN Depth[c]
                  ELSE [vc \in VCs |-> IF OfVc(forward[c], vc) THEN 1 ELSE 0]
<1>1. c \in Connections
  BY Topology, Zenon DEF Ends
<1>2. col \in [VCs -> Nat]
  BY <1>1, NetworkAssumption, Zenon
<1>3. \A vc \in VCs : col[vc] = IF cycle0 THEN Depth[c][vc] ELSE IF OfVc(forward[c], vc) THEN 1 ELSE 0
  BY Zenon
<1>4. CASE Fwd(c) \notin current
  <2>1. reverse' = reverse
    BY <1>4, Zenon DEF SinkForward
  <2> QED BY <1>4, <2>1, Zenon DEF Types
<1>5. CASE Fwd(c) \in current
  <2>1. reverse' = [reverse EXCEPT ![c] = col]
    BY <1>5, Zenon DEF SinkForward, OfVc
  <2> HIDE DEF col
  <2>2. /\ reverse' \in [Connections -> [VCs -> Nat]] /\ reverse'[c] = col
        /\ \A d \in Connections : d # c => reverse'[d] = reverse[d]
    BY <1>1, <1>2, <2>1, Zenon DEF Types
  <2> QED BY <1>3, <1>5, <2>2, Zenon
<1> QED BY <1>4, <1>5, Zenon

\* SinkForward keeps the balance: a flit that arrives becomes a credit on its way
\* back, and in the first cycle there is none and the whole buffer is offered.
LEMMA SinkForwardBalance ==
  ASSUME Counting, NEW k \in SinkSet, Types, Stamps, SinkForward(k),
         NEW l \in LinkSet, NEW vc \in VCs, Balance(l, vc) = Issued(LinkTo[l], vc)
  PROVE  (Balance(l, vc) = Issued(LinkTo[l], vc))'
<1> DEFINE F == LinkFrom[l]
           T == LinkTo[l]
<1>1. /\ F \in AllOutputs /\ F \in Connections /\ T \in Connections /\ F # Ingress[k]
      /\ k # l /\ k \notin SrcSet /\ k \notin RouterSet
  BY Topology, Zenon DEF Disjoint, OneReader, Ends
<1>2. /\ \A c, v : Rev(c, v) \in current' <=>
                \/ Rev(c, v) \in current
                \/ c = Ingress[k] /\ v \in VCs /\ Fwd(Ingress[k]) \in current
      /\ \A n : ForwardDone(n) \in current' <=>
                ForwardDone(n) \in current \/ (n = k /\ Fwd(Ingress[k]) \in current)
      /\ SameFwd /\ SameUpdate /\ SameReverseDone /\ SameVcDone /\ SameCreditsAdded
  BY SinkForwardStamps, Zenon
<1>3. /\ forward' = forward /\ credit' = credit /\ credit_update' = credit_update
      /\ forward_data_stages' = forward_data_stages
      /\ reverse_credit_stages' = reverse_credit_stages
      /\ input_buffers' = input_buffers /\ input_credit_to_send' = input_credit_to_send
      /\ cycle0' = cycle0 /\ ForwardDone(k) \notin current
  BY Zenon DEF SinkForward, TryForward, links, credits, buffers
<1>4. CASE Fwd(Ingress[k]) \notin current
  <2>1. reverse' = reverse
    BY <1>4, SinkMoves, Zenon
  <2>2. SameRev /\ SameForwardDone
    BY <1>2, <1>4, Zenon DEF SameRev, SameForwardDone
  <2> QED BY <1>2, <1>3, <2>1, <2>2, SameBalance DEF links, credits, buffers
<1>5. CASE Fwd(Ingress[k]) \in current
  <2>1. /\ InFlight(l, vc)' = InFlight(l, vc) /\ Occupancy(T, vc)' = Occupancy(T, vc)
        /\ Returning(l, vc)' = Returning(l, vc)
    BY <1>3, Zenon DEF InFlight, Occupancy, Returning
  <2>2. (SenderAdded(F)' <=> SenderAdded(F)) /\ (Rev(F, vc) \in current' <=> Rev(F, vc) \in current)
    BY <1>1, <1>2, Zenon DEF SenderAdded, SameCreditsAdded
  <2>3. reverse'[F] = reverse[F]
    BY <1>1, SinkMoves, Zenon
  <2>4. /\ Held(F, vc)' = Held(F, vc) /\ Exiting(F, vc)' = Exiting(F, vc)
        /\ Leaving(l, vc)' = Leaving(l, vc)
    BY <1>1, <1>2, <1>3, <2>2, <2>3, Zenon DEF Held, Exiting, Leaving, SameUpdate, SameFwd
  <2>5. /\ Held(F, vc) \in Nat /\ Leaving(l, vc) \in Nat /\ InFlight(l, vc) \in Nat
        /\ Arriving(T, vc) \in Nat /\ Occupancy(T, vc) \in Nat /\ ToSend(T, vc) \in Nat
        /\ Entering(l, vc) \in Nat /\ Returning(l, vc) \in Nat /\ Exiting(F, vc) \in Nat
        /\ Issued(T, vc) \in Nat
    BY Numbers0, Zenon
  <2>6. CASE T # Ingress[k]
    <3>1. (ReaderDone(T)' <=> ReaderDone(T)) /\ (Rev(T, vc) \in current' <=> Rev(T, vc) \in current)
      BY <1>1, <1>2, <2>6, Zenon DEF ReaderDone
    <3>2. reverse'[T] = reverse[T]
      <4>1. \A c \in Connections : c # Ingress[k] => reverse'[c] = reverse[c]
        BY SinkMoves, Zenon
      <4> QED BY <1>1, <2>6, <4>1, Zenon
    <3>3. /\ Arriving(T, vc)' = Arriving(T, vc) /\ ToSend(T, vc)' = ToSend(T, vc)
          /\ Entering(l, vc)' = Entering(l, vc) /\ Issued(T, vc)' = Issued(T, vc)
      BY <1>2, <1>3, <3>1, <3>2, Zenon
         DEF Arriving, ToSend, Entering, Issued, SameFwd, SameVcDone
    <3>4. Balance(l, vc)' = Balance(l, vc)
      BY <2>1, <2>4, <3>3, Zenon DEF Balance
    <3> QED BY <3>3, <3>4, Zenon
  <2>7. CASE T = Ingress[k]
    <3>1. /\ T \notin AllInputs /\ ReaderDone(T)' /\ ~ReaderDone(T)
      BY <1>2, <1>3, <1>5, <2>7, Topology, Zenon DEF ReaderDone, OneReader, Ends
    <3>2. /\ Rev(T, vc) \notin current /\ Rev(T, vc) \in current'
          /\ VcDone(l, vc) \notin current /\ VcDone(l, vc) \notin current'
      BY <1>2, <1>3, <1>5, <2>7, Zenon DEF Stamps, SinkStamps, LinkStamps, SameVcDone
    <3>3. ToSend(T, vc) = 0 /\ ToSend(T, vc)' = 0
      BY <3>1, Zenon DEF ToSend
    <3>4. Arriving(T, vc) = (IF OfVc(forward[T], vc) THEN 1 ELSE 0) /\ Arriving(T, vc)' = 0
      BY <1>5, <2>7, <3>1, Zenon DEF Arriving
    <3>5. reverse'[T][vc] = IF cycle0 THEN Depth[T][vc] ELSE Arriving(T, vc)
      BY <1>5, <2>7, <3>4, SinkMoves, ZenonT(60)
    <3>6. Entering(l, vc) = 0 /\ Entering(l, vc)' = reverse'[T][vc]
      BY <3>2, Zenon DEF Entering
    <3>7. Issued(T, vc) = (IF cycle0 THEN 0 ELSE Depth[T][vc]) /\ Issued(T, vc)' = Depth[T][vc]
      BY <1>3, <3>2, Zenon DEF Issued
    <3>8. cycle0 => Arriving(T, vc) = 0
      BY <3>7, NothingYet, Zenon
    <3>9. Depth[T][vc] \in Nat
      BY <1>1, NetworkAssumption, SMTT(60)
    <3> DEFINE a == Held(F, vc) + Leaving(l, vc) + InFlight(l, vc)
               d == Arriving(T, vc)
               e == Occupancy(T, vc)
               q == Returning(l, vc)
               x == Exiting(F, vc)
               n == Entering(l, vc)'
    <3>10. a \in Nat /\ d \in Nat /\ e \in Nat /\ q \in Nat /\ x \in Nat
      BY <2>5
    <3>11. Balance(l, vc) = a + d + e + 0 + 0 + q + x /\ Balance(l, vc)' = a + 0 + e + 0 + n + q + x
      BY <2>1, <2>4, <3>3, <3>4, <3>6, Zenon DEF Balance
    <3>12. n = (IF cycle0 THEN Depth[T][vc] ELSE d) /\ (cycle0 => d = 0)
      BY <3>5, <3>6, <3>8, Zenon
    <3>13. a + d + e + 0 + 0 + q + x = IF cycle0 THEN 0 ELSE Depth[T][vc]
      BY <3>7, <3>11, Zenon
    <3> HIDE DEF a, d, e, q, x, n, T
    <3>14. CASE cycle0
      <4>1. n = Depth[T][vc] /\ d = 0 /\ a + d + e + 0 + 0 + q + x = 0
        BY <3>12, <3>13, <3>14, SMTT(60)
      <4>2. a = 0 /\ e = 0 /\ q = 0 /\ x = 0
        BY <3>10, <4>1, SMTT(60)
      <4>3. a + 0 + e + 0 + n + q + x = Depth[T][vc]
        BY <3>9, <4>1, <4>2, SMTT(60)
      <4> QED BY <3>7, <3>11, <4>3, ZenonT(60) DEF T
    <3>15. CASE ~cycle0
      <4>1. n = d /\ a + d + e + 0 + 0 + q + x = Depth[T][vc]
        BY <3>12, <3>13, <3>15, SMTT(60)
      <4>2. a + 0 + e + 0 + n + q + x = Depth[T][vc]
        BY <3>9, <3>10, <4>1, SMTT(60)
      <4> QED BY <3>7, <3>11, <4>2, Zenon DEF T
    <3> QED BY <3>14, <3>15
  <2> QED BY <2>6, <2>7, Zenon
<1> QED BY <1>4, <1>5, Zenon

------------------------------------------------------------------------------
(* A cycle that ends *)

\* Once every component has been served, every channel is up to date, every credit
\* that arrived is an update and nothing is under way on a connection.
LEMMA AllStamped ==
  ASSUME Stamps, \A i \in DOMAIN Order : Served(i)
  PROVE  /\ \A c \in Connections : Fwd(c) \in current /\ \A vc \in VCs : Rev(c, vc) \in current
         /\ \A c \in AllOutputs : SenderAdded(c) /\ \A vc \in VCs : Update(c, vc) \in current
         /\ \A l \in LinkSet : /\ ForwardDone(l) \in current /\ ReaderDone(LinkTo[l])
                               /\ \A vc \in VCs : VcDone(l, vc) \in current
<1>1. \A n \in SrcSet \cup LinkSet \cup RouterSet \cup SinkSet :
          ForwardDone(n) \in current /\ ReverseDone(n) \in current
  <2> TAKE n \in SrcSet \cup LinkSet \cup RouterSet \cup SinkSet
  <2>1. PICK i \in DOMAIN Order : Order[i] = n
    BY OrderVisits, Zenon
  <2> QED BY <2>1, Zenon DEF Served
<1>2. \A l \in LinkSet, vc \in VCs : VcDone(l, vc) \in current
  BY <1>1, Zenon DEF Stamps, LinkStamps
<1>3. \A c \in Connections : Fwd(c) \in current
  <2> TAKE c \in Connections
  <2>1. PICK n : Drivers(c) = {n}
    BY NetworkAssumption, Zenon
  <2>2. n \in Drivers(c)
    BY <2>1, Zenon
  <2>3. \/ n \in SrcSet /\ Egress[n] = c
        \/ n \in LinkSet /\ LinkTo[n] = c
        \/ n \in RouterSet /\ c \in Outputs(n)
    BY <2>2, ZenonT(60) DEF Drivers, SrcSet, LinkSet, RouterSet
  <2> QED BY <1>1, <2>3, Zenon DEF Stamps, SrcStamps, LinkStamps, RouterStamps
<1>4. \A c \in Connections, vc \in VCs : Rev(c, vc) \in current
  <2> TAKE c \in Connections, vc \in VCs
  <2>1. PICK n : Readers(c) = {n}
    BY NetworkAssumption, Zenon
  <2>2. n \in Readers(c)
    BY <2>1, Zenon
  <2>3. \/ n \in LinkSet /\ LinkFrom[n] = c
        \/ n \in RouterSet /\ c \in Inputs(n)
        \/ n \in SinkSet /\ Ingress[n] = c
    BY <2>2, Zenon DEF Readers, LinkSet, RouterSet, SinkSet
  <2> QED BY <1>1, <1>2, <2>3, SMTT(60) DEF Stamps, LinkStamps, RouterStamps, SinkStamps
<1>5. \A c \in AllOutputs : SenderAdded(c) /\ \A vc \in VCs : Update(c, vc) \in current
  <2> TAKE c \in AllOutputs
  <2>1. \/ \E s \in SrcSet : Egress[s] = c
        \/ \E r \in RouterSet : c \in Outputs(r)
    BY Zenon DEF AllOutputs, SrcSet, RouterSet
  <2> QED BY <1>1, <2>1, Zenon DEF SenderAdded, Stamps, SrcStamps, RouterStamps
<1>6. \A l \in LinkSet : ReaderDone(LinkTo[l])
  <2> TAKE l \in LinkSet
  <2>0. LinkTo[l] \in AllInputs \cup {Ingress[k] : k \in SinkSet}
    BY NetworkAssumption, Zenon DEF LinkSet, SinkSet
  <2>1. \/ \E r \in RouterSet : LinkTo[l] \in Inputs(r)
        \/ \E k \in SinkSet : Ingress[k] = LinkTo[l]
    BY <2>0, Zenon DEF AllInputs, RouterSet
  <2> QED BY <1>1, <2>1, Zenon DEF ReaderDone
<1> QED BY <1>1, <1>2, <1>3, <1>4, <1>5, <1>6, SMTT(60)

\* Then the balance is the one between two cycles.
LEMMA SettledBalance ==
  ASSUME Counting, Types, Stamps, \A i \in DOMAIN Order : Served(i), NEW l \in LinkSet, NEW vc \in VCs
  PROVE  /\ Balance(l, vc) = credit[LinkFrom[l]][vc] + credit_update[LinkFrom[l]][vc]
                + InFlight(l, vc) + Occupancy(LinkTo[l], vc) + Returning(l, vc)
         /\ Issued(LinkTo[l], vc) = Depth[LinkTo[l]][vc]
<1> DEFINE F == LinkFrom[l]
           T == LinkTo[l]
<1>1. F \in AllOutputs /\ F \in Connections /\ T \in Connections
  BY Topology, Zenon DEF Ends
<1>2. /\ Rev(T, vc) \in current /\ Rev(F, vc) \in current /\ Update(F, vc) \in current
      /\ ForwardDone(l) \in current /\ VcDone(l, vc) \in current /\ ReaderDone(T)
  BY <1>1, AllStamped, Zenon
<1>3. /\ Held(F, vc) = credit[F][vc] + credit_update[F][vc]
      /\ Leaving(l, vc) = 0 /\ Arriving(T, vc) = 0 /\ ToSend(T, vc) = 0
      /\ Entering(l, vc) = 0 /\ Exiting(F, vc) = 0
  BY <1>2, Zenon DEF Held, Leaving, Arriving, ToSend, Entering, Exiting
<1>4. Issued(T, vc) = Depth[T][vc]
  BY <1>2, Zenon DEF Issued
<1>5. /\ credit[F][vc] \in Nat /\ credit_update[F][vc] \in Nat
      /\ InFlight(l, vc) \in Nat /\ Occupancy(T, vc) \in Nat /\ Returning(l, vc) \in Nat
  <2>1. credit \in [AllOutputs -> [VCs -> Nat]] /\ credit_update \in [AllOutputs -> [VCs -> Nat]]
    BY Zenon DEF Types
  <2>2. credit[F][vc] \in Nat /\ credit_update[F][vc] \in Nat
    BY <1>1, <2>1
  <2> QED BY <2>2, Numbers0, Zenon
<1> DEFINE a == credit[F][vc]
           u == credit_update[F][vc]
           b == InFlight(l, vc)
           o == Occupancy(T, vc)
           q == Returning(l, vc)
<1>6. Balance(l, vc) = (a + u) + 0 + b + 0 + o + 0 + 0 + q + 0
  BY <1>3, Zenon DEF Balance
<1> HIDE DEF a, u, b, o, q
<1>7. a \in Nat /\ u \in Nat /\ b \in Nat /\ o \in Nat /\ q \in Nat
  BY <1>5, Zenon DEF a, u, b, o, q
<1>8. (a + u) + 0 + b + 0 + o + 0 + 0 + q + 0 = a + u + b + o + q
  BY <1>7
<1>9. Balance(l, vc) = a + u + b + o + q
  BY <1>6, <1>8, Zenon
<1> QED BY <1>4, <1>9, Zenon DEF a, u, b, o, q

\* RunCycle makes every stamp old, and keeps the balance.
LEMMA RunCycleBalance ==
  ASSUME Counting, Types, Stamps, Turns, RunCycle,
         NEW l \in LinkSet, NEW vc \in VCs, Balance(l, vc) = Issued(LinkTo[l], vc)
  PROVE  (Balance(l, vc) = Issued(LinkTo[l], vc))'
<1> DEFINE F == LinkFrom[l]
           T == LinkTo[l]
<1>1. F \in AllOutputs /\ F \in Connections /\ T \in Connections
  BY Topology, Zenon DEF Ends
<1>2. /\ at.phase = "idle" /\ current' = {} /\ cycle0' = cycle0
      /\ UNCHANGED <<forward, reverse, links, credits, buffers>>
  BY Zenon DEF RunCycle
<1>3. CASE cycle0
  <2>1. current' = current
    BY <1>2, <1>3, Zenon DEF Turns
  <2>2. SameFwd /\ SameRev /\ SameUpdate /\ SameForwardDone /\ SameVcDone /\ SameCreditsAdded
    BY <2>1, Zenon
       DEF SameFwd, SameRev, SameUpdate, SameForwardDone, SameVcDone, SameCreditsAdded
  <2> QED BY <1>2, <2>2, SameBalance, Zenon
<1>4. CASE ~cycle0
  <2>1. \A i \in DOMAIN Order : Served(i)
    BY <1>2, <1>4, Zenon DEF Turns
  <2>2. ~SenderAdded(F)' /\ ~ReaderDone(T)'
    BY <1>2, Zenon DEF SenderAdded, ReaderDone
  <2>3. /\ Held(F, vc)' = credit[F][vc] + credit_update[F][vc]
        /\ Leaving(l, vc)' = 0 /\ Arriving(T, vc)' = 0 /\ ToSend(T, vc)' = 0
        /\ Entering(l, vc)' = 0 /\ Exiting(F, vc)' = 0
    BY <1>2, <2>2, Zenon DEF Held, Leaving, Arriving, ToSend, Entering, Exiting, credits
  <2>4. /\ InFlight(l, vc)' = InFlight(l, vc) /\ Occupancy(T, vc)' = Occupancy(T, vc)
        /\ Returning(l, vc)' = Returning(l, vc)
    BY <1>2, Zenon DEF InFlight, Occupancy, Returning, links, buffers
  <2>5. Issued(T, vc)' = Depth[T][vc]
    BY <1>2, <1>4, Zenon DEF Issued
  <2>6. /\ credit[F][vc] \in Nat /\ credit_update[F][vc] \in Nat
        /\ InFlight(l, vc) \in Nat /\ Occupancy(T, vc) \in Nat /\ Returning(l, vc) \in Nat
    <3>1. credit \in [AllOutputs -> [VCs -> Nat]] /\ credit_update \in [AllOutputs -> [VCs -> Nat]]
      BY <1>1, Zenon DEF Types
    <3>2. credit[F][vc] \in Nat /\ credit_update[F][vc] \in Nat
      BY <1>1, <3>1
    <3> QED BY <3>2, <1>1, Numbers0, Zenon
  <2> DEFINE a == credit[F][vc]
             u == credit_update[F][vc]
             b == InFlight(l, vc)
             o == Occupancy(T, vc)
             q == Returning(l, vc)
  <2>7. Balance(l, vc)' = (a + u) + 0 + b + 0 + o + 0 + 0 + q + 0
    BY <2>3, <2>4, Zenon DEF Balance
  <2>8. a + u + b + o + q = Depth[T][vc]
    BY <2>1, SettledBalance, ZenonT(60)
  <2> HIDE DEF a, u, b, o, q
  <2>9. a \in Nat /\ u \in Nat /\ b \in Nat /\ o \in Nat /\ q \in Nat
    BY <2>6, Zenon DEF a, u, b, o, q
  <2>10. (a + u) + 0 + b + 0 + o + 0 + 0 + q + 0 = a + u + b + o + q
    BY <2>9
  <2> QED BY <2>5, <2>7, <2>8, <2>10, SMTT(60)
<1> QED BY <1>3, <1>4, Zenon DEF Types

\* EndTick keeps the balance, in the first cycle too: every receiver has then sent
\* its first credits.
LEMMA EndTickBalance ==
  ASSUME Types, Stamps, Turns, EndTick,
         NEW l \in LinkSet, NEW vc \in VCs, Balance(l, vc) = Issued(LinkTo[l], vc)
  PROVE  (Balance(l, vc) = Issued(LinkTo[l], vc))'
<1> DEFINE F == LinkFrom[l]
           T == LinkTo[l]
<1>1. F \in AllOutputs /\ F \in Connections /\ T \in Connections
  BY Topology, Zenon DEF Ends
<1>2. current' = current /\ UNCHANGED <<forward, reverse, links, credits, buffers>>
  BY Zenon DEF EndTick
<1>3. SameFwd /\ SameRev /\ SameUpdate /\ SameForwardDone /\ SameVcDone /\ SameCreditsAdded
  BY <1>2, Zenon
     DEF SameFwd, SameRev, SameUpdate, SameForwardDone, SameVcDone, SameCreditsAdded
<1>4. CASE cycle0' = cycle0
  BY <1>2, <1>3, <1>4, SameBalance, Zenon
<1>5. CASE cycle0' # cycle0
  <2>1. at'.phase = "idle"
    BY <1>5 DEF EndTick, Goto
  <2>2. \A i \in DOMAIN Order : Served(i)
    BY <2>1, EndTurns, ZenonT(60)
  <2>3. Rev(T, vc) \in current /\ Rev(T, vc) \in current'
    BY <1>1, <1>2, <2>2, AllStamped
  <2>4. ToSend(T, vc)' = ToSend(T, vc) /\ Issued(T, vc)' = Issued(T, vc)
    BY <2>3, Zenon DEF ToSend, Issued
  <2>5. /\ (SenderAdded(F)' <=> SenderAdded(F)) /\ (ReaderDone(T)' <=> ReaderDone(T))
    BY <1>2, Zenon DEF SenderAdded, ReaderDone
  <2>6. /\ Held(F, vc)' = Held(F, vc) /\ Leaving(l, vc)' = Leaving(l, vc)
        /\ InFlight(l, vc)' = InFlight(l, vc) /\ Arriving(T, vc)' = Arriving(T, vc)
        /\ Occupancy(T, vc)' = Occupancy(T, vc) /\ Entering(l, vc)' = Entering(l, vc)
        /\ Returning(l, vc)' = Returning(l, vc) /\ Exiting(F, vc)' = Exiting(F, vc)
    BY <1>2, <2>5, Zenon
       DEF Held, Leaving, InFlight, Arriving, Occupancy, Entering, Returning, Exiting,
                      links, credits, buffers
  <2>7. Balance(l, vc)' = Balance(l, vc)
    BY <2>4, <2>6, ZenonT(60) DEF Balance
  <2> QED BY <2>4, <2>7, Zenon
<1> QED BY <1>4, <1>5, Zenon

------------------------------------------------------------------------------
(* The invariant is kept *)

\* A turn leaves the variables of RunCycle well formed.
LEMMA TurnTypes ==
  ASSUME NEW n, NEW done, NEW ok \in BOOLEAN, NEW stamps, Types,
         TryForward(n) \/ TryReverse(n), Tried(n, done, ok, stamps)
  PROVE  /\ at' \in [phase : {"idle", "forward", "reverse", "failed"}, n : Nat]
         /\ converged' \in BOOLEAN /\ cycle0' \in BOOLEAN /\ cycle0' = cycle0
         /\ at.phase \in {"forward", "reverse"}
<1>1. at.n \in Nat /\ at.n + 1 \in Nat /\ converged \in BOOLEAN /\ cycle0 \in BOOLEAN
  BY DEF Types
<1>2. /\ at' = [phase |-> "reverse", n |-> at.n] \/ at' = [phase |-> "forward", n |-> at.n + 1]
      /\ at.phase = "forward" \/ at.phase = "reverse"
      /\ cycle0' = cycle0
  BY Zenon DEF TryForward, TryReverse, Turn, Goto
<1>3. converged' \in BOOLEAN
  BY Zenon DEF Tried
<1> QED BY <1>1, <1>2, <1>3, SMTT(60)

\* Credits that are neither sent nor counted anew stay the same.
LEMMA KeepsSameCredits ==
  ASSUME SameCredits, at.phase \in {"forward", "reverse"}, cycle0' = cycle0,
         \A c \in AllInputs, vc \in VCs : Rev(c, vc) \in current' =>
            /\ Rev(c, vc) \in current /\ reverse'[c][vc] = reverse[c][vc]
            /\ input_credit_to_send'[c][vc] = input_credit_to_send[c][vc]
  PROVE  SameCredits'
BY DEF SameCredits

\* SrcForward keeps the invariant.
LEMMA SrcForwardInv ==
  ASSUME Counting, NEW s \in SrcSet, IInv, SrcForward(s)
  PROVE  IInv'
<1>1. Types /\ Stamps /\ Turns /\ SameCredits /\ Balanced
  BY Zenon DEF IInv
<1>2. TryForward(s) /\ Tried(s, ForwardDone(s), TRUE, {Fwd(Egress[s])})
  BY Zenon DEF SrcForward
<1>3. UNCHANGED <<reverse, links, credit_update, sent, buffers>>
  BY Zenon DEF SrcForward
<1>4. /\ at' \in [phase : {"idle", "forward", "reverse", "failed"}, n : Nat]
      /\ converged' \in BOOLEAN /\ cycle0' \in BOOLEAN /\ cycle0' = cycle0
      /\ at.phase \in {"forward", "reverse"}
  BY <1>1, <1>2, TurnTypes, ZenonT(60)
<1>5. Types'
  <2>1. /\ forward' \in [Connections -> Wire] /\ credit' \in [AllOutputs -> [VCs -> Nat]]
        /\ data_to_send' \in [SrcSet -> [VCs -> Seq(Flit)]]
        /\ \A x \in SrcSet, vc \in VCs : data_to_send'[x][vc] \in Seq({f \in Flit : f.vc = vc})
    BY <1>1, SrcSends, Zenon
  <2> QED BY <1>1, <1>3, <1>4, <2>1, SMTT(60) DEF Types, links, buffers
<1>6. Stamps'
  BY <1>1, SrcForwardKeeps, Zenon
<1>7. Turns'
  BY <1>1, <1>2, ForwardTurns, ZenonT(60)
<1>8. SameCredits'
  BY <1>1, <1>3, <1>4, SrcForwardStamps, KeepsSameCredits, SMTT(60) DEF SameRev, buffers
<1>9. Balanced'
  BY <1>1, SrcForwardBalance, SMTT(60) DEF Balanced
<1> QED BY <1>5, <1>6, <1>7, <1>8, <1>9, Zenon DEF IInv

\* SrcReverse keeps the invariant.
LEMMA SrcReverseInv ==
  ASSUME Counting, NEW s \in SrcSet, IInv, SrcReverse(s)
  PROVE  IInv'
<1> DEFINE ok == Ready(Egress[s]) = VCs
           st == NewStamps({Egress[s]})
<1>1. Types /\ Stamps /\ Turns /\ SameCredits /\ Balanced
  BY Zenon DEF IInv
<1>2. TryReverse(s) /\ Tried(s, ReverseDone(s), ok, st) /\ ok \in BOOLEAN
  BY Zenon DEF SrcReverse, Tried
<1>3. UNCHANGED <<forward, reverse, links, traffic, credit, buffers>> /\ NewCredits({Egress[s]})
  BY Zenon DEF SrcReverse
<1>4. /\ at' \in [phase : {"idle", "forward", "reverse", "failed"}, n : Nat]
      /\ converged' \in BOOLEAN /\ cycle0' \in BOOLEAN /\ cycle0' = cycle0
      /\ at.phase \in {"forward", "reverse"}
  <2> HIDE DEF ok, st
  <2> QED BY <1>1, <1>2, TurnTypes, Zenon
<1>5. Types'
  <2>1. credit_update' \in [AllOutputs -> [VCs -> Nat]]
    BY <1>1, <1>3, NewCreditsType, Zenon
  <2> QED BY <1>1, <1>3, <1>4, <2>1, Zenon DEF Types, links, buffers, traffic
<1>6. Stamps'
  BY <1>1, SrcReverseKeeps, Zenon
<1>7. Turns'
  <2> HIDE DEF ok, st
  <2> QED BY <1>1, <1>2, ReverseTurns, ZenonT(60)
<1>8. SameCredits'
  BY <1>1, <1>3, <1>4, SrcReverseStamps, KeepsSameCredits, SMTT(60) DEF SameRev, buffers
<1>9. Balanced'
  BY <1>1, SrcReverseBalance, ZenonT(60) DEF Balanced
<1> QED BY <1>5, <1>6, <1>7, <1>8, <1>9, Zenon DEF IInv

\* LinkForward keeps the invariant.
LEMMA LinkForwardInv ==
  ASSUME Counting, NEW l \in LinkSet, IInv, LinkForward(l)
  PROVE  IInv'
<1> DEFINE ok == Fwd(LinkFrom[l]) \in current
           up == IF ForwardStages[l] = 0 THEN ok ELSE Fwd(LinkTo[l]) \notin current
           st == IF up THEN {Fwd(LinkTo[l])} ELSE {}
<1>1. Types /\ Stamps /\ Turns /\ SameCredits /\ Balanced
  BY Zenon DEF IInv
<1>2. TryForward(l) /\ Tried(l, ForwardDone(l), ok, st) /\ ok \in BOOLEAN /\ l \notin SrcSet
  BY Topology DEF LinkForward, Tried, Disjoint
<1>3. UNCHANGED <<reverse, reverse_credit_stages, traffic, credits, buffers>>
  BY Zenon DEF LinkForward
<1>4. /\ at' \in [phase : {"idle", "forward", "reverse", "failed"}, n : Nat]
      /\ converged' \in BOOLEAN /\ cycle0' \in BOOLEAN /\ cycle0' = cycle0
      /\ at.phase \in {"forward", "reverse"}
  <2> HIDE DEF ok, st
  <2> QED BY <1>1, <1>2, TurnTypes, Zenon
<1>5. Types'
  <2>1. forward' \in [Connections -> Wire] /\ forward_data_stages' \in [LinkSet -> Seq(Wire)]
    BY <1>1, LinkMoves, Zenon
  <2> QED BY <1>1, <1>3, <1>4, <2>1, Zenon DEF Types, buffers, traffic, credits
<1>6. Stamps'
  BY <1>1, LinkForwardKeeps, Zenon
<1>7. Turns'
  <2> HIDE DEF ok, st
  <2> QED BY <1>1, <1>2, ForwardTurns, Zenon
<1>8. SameCredits'
  BY <1>1, <1>3, <1>4, LinkForwardStamps, KeepsSameCredits, Zenon DEF SameRev, buffers
<1>9. Balanced'
  BY <1>1, LinkForwardBalance, ZenonT(60) DEF Balanced
<1> QED BY <1>5, <1>6, <1>7, <1>8, <1>9, Zenon DEF IInv

\* LinkReverse keeps the invariant.
LEMMA LinkReverseInv ==
  ASSUME Counting, NEW l \in LinkSet, IInv, LinkReverse(l)
  PROVE  IInv'
<1> DEFINE todo == {vc \in VCs : VcDone(l, vc) \notin current}
           ready == {vc \in todo : Rev(LinkTo[l], vc) \in current}
           up == {vc \in todo : IF ReverseStages[l] = 0 THEN vc \in ready ELSE Rev(LinkFrom[l], vc) \notin current}
           ok == ready = todo
           st == {Rev(LinkFrom[l], vc) : vc \in up} \cup {VcDone(l, vc) : vc \in ready}
<1>1. Types /\ Stamps /\ Turns /\ SameCredits /\ Balanced
  BY Zenon DEF IInv
<1>2. TryReverse(l) /\ Tried(l, ReverseDone(l), ok, st) /\ ok \in BOOLEAN
  BY Zenon DEF LinkReverse, Tried
<1>3. UNCHANGED <<forward, forward_data_stages, traffic, credits, buffers>>
  BY ZenonT(60) DEF LinkReverse
<1>4. /\ at' \in [phase : {"idle", "forward", "reverse", "failed"}, n : Nat]
      /\ converged' \in BOOLEAN /\ cycle0' \in BOOLEAN /\ cycle0' = cycle0
      /\ at.phase \in {"forward", "reverse"}
  <2> HIDE DEF ok, st
  <2> QED BY <1>1, <1>2, TurnTypes, Zenon
<1>5. Types'
  <2>1. reverse' \in [Connections -> [VCs -> Nat]] /\ reverse_credit_stages' \in [LinkSet -> [VCs -> Seq(Nat)]]
    BY <1>1, LinkReturns, ZenonT(60)
  <2> QED BY <1>1, <1>3, <1>4, <2>1 DEF Types, buffers, traffic, credits
<1>6. Stamps'
  BY <1>1, LinkReverseKeeps, Zenon
<1>7. Turns'
  <2> HIDE DEF ok, st
  <2> QED BY <1>1, <1>2, ReverseTurns, Zenon
<1>8. SameCredits'
  <2>1. \A c \in AllInputs : c \in Connections /\ c # LinkFrom[l]
    BY Topology, Zenon DEF OneReader, Ends
  <2>2. \A c \in AllInputs : reverse'[c] = reverse[c]
    <3>1. \A c \in Connections : c # LinkFrom[l] => reverse'[c] = reverse[c]
      BY <1>1, LinkReturns, Zenon
    <3> QED BY <2>1, <3>1, Zenon
  <2>3. \A c \in AllInputs, vc \in VCs : Rev(c, vc) \in current' => Rev(c, vc) \in current
    BY <2>1, LinkReverseStamps, ZenonT(60)
  <2> QED BY <1>1, <1>3, <1>4, <2>2, <2>3, KeepsSameCredits, SMTT(60) DEF buffers
<1>9. Balanced'
  BY <1>1, LinkReverseBalance, Zenon DEF Balanced
<1> QED BY <1>5, <1>6, <1>7, <1>8, <1>9, Zenon DEF IInv

\* RouterForward keeps the invariant.
LEMMA RouterForwardInv ==
  ASSUME Counting, NEW r \in RouterSet, IInv, RouterForward(r)
  PROVE  IInv'
<1> DEFINE ok == CanPropagate(r)
           st == {CreditsAdded(r)} \cup (IF ok THEN {Fwd(c) : c \in Outputs(r)} ELSE {})
<1>1. Types /\ Stamps /\ Turns /\ SameCredits /\ Balanced
  BY Zenon DEF IInv
<1>2. TryForward(r) /\ Tried(r, ForwardDone(r), ok, st)
  BY Zenon DEF RouterForward, Tried
<1>3. ok \in BOOLEAN /\ r \notin SrcSet
  BY Topology, Zenon DEF CanPropagate, Disjoint
<1>4. UNCHANGED <<reverse, links, traffic, credit_update>> /\ ForwardDone(r) \notin current
  BY Zenon DEF RouterForward, TryForward
<1>5. /\ at' \in [phase : {"idle", "forward", "reverse", "failed"}, n : Nat]
      /\ converged' \in BOOLEAN /\ cycle0' \in BOOLEAN /\ cycle0' = cycle0
      /\ at.phase \in {"forward", "reverse"}
  <2> HIDE DEF ok, st
  <2> QED BY <1>1, <1>2, <1>3, TurnTypes, ZenonT(60)
<1>6. Types'
  <2>1. /\ forward' \in [Connections -> Wire] /\ credit' \in [AllOutputs -> [VCs -> Nat]]
        /\ input_buffers' \in [AllInputs -> [VCs -> Seq(Flit)]]
        /\ input_credit_to_send' \in [AllInputs -> [VCs -> Nat]]
    BY <1>1, RouterMoves, Zenon
  <2> QED BY <1>1, <1>4, <1>5, <2>1, SMTT(60) DEF Types, links, traffic
<1>7. Stamps'
  BY <1>1, RouterForwardKeeps, Zenon
<1>8. Turns'
  <2> HIDE DEF ok, st
  <2> QED BY <1>1, <1>2, <1>3, ForwardTurns, Zenon, Zenon
<1>9. SameCredits'
  <2>1. \A c \in AllInputs, vc \in VCs : Rev(c, vc) \in current' => Rev(c, vc) \in current /\ c \notin Inputs(r)
    BY <1>1, <1>4, RouterForwardStamps, Zenon DEF SameRev, Stamps, RouterStamps
  <2>2. \A c \in AllInputs : c \notin Inputs(r) => input_credit_to_send'[c] = input_credit_to_send[c]
    BY <1>1, RouterMoves, Zenon
  <2> QED BY <1>1, <1>4, <1>5, <2>1, <2>2, KeepsSameCredits, ZenonT(60)
<1>10. Balanced'
  BY <1>1, RouterForwardBalance, ZenonT(60) DEF Balanced
<1> QED BY <1>6, <1>7, <1>8, <1>9, <1>10, Zenon DEF IInv

\* RouterReverse keeps the invariant.
LEMMA RouterReverseInv ==
  ASSUME Counting, NEW r \in RouterSet, IInv, RouterReverse(r)
  PROVE  IInv'
<1> DEFINE may == MayReverse(r)
           ok == may /\ \A c \in Outputs(r) : Ready(c) = VCs
           st == IF may THEN NewStamps(Outputs(r)) \cup {Rev(c, vc) : c \in Inputs(r), vc \in VCs} ELSE {}
<1>1. Types /\ Stamps /\ Turns /\ SameCredits /\ Balanced
  BY Zenon DEF IInv
<1>2. TryReverse(r) /\ ok \in BOOLEAN /\ UNCHANGED <<forward, links, traffic, credit, buffers>>
  BY SMTT(60) DEF RouterReverse
<1>3. Tried(r, ReverseDone(r), ok, st)
  <2>1. CASE may
    BY <2>1, SMTT(60) DEF RouterReverse, Tried
  <2>2. CASE ~may
    BY <2>2 DEF RouterReverse, Tried
  <2> QED BY <2>1, <2>2, SMTT(60)
<1>4. /\ at' \in [phase : {"idle", "forward", "reverse", "failed"}, n : Nat]
      /\ converged' \in BOOLEAN /\ cycle0' \in BOOLEAN /\ cycle0' = cycle0
      /\ at.phase \in {"forward", "reverse"}
  <2> HIDE DEF ok, st
  <2> QED BY <1>1, <1>2, <1>3, TurnTypes, ZenonT(60)
<1>5. /\ ~may => UNCHANGED <<reverse, credit_update>>
      /\ may => /\ reverse' = [c \in Connections |->
                      IF c \notin Inputs(r) THEN reverse[c]
                      ELSE IF cycle0 THEN Depth[c] ELSE input_credit_to_send[c]]
                /\ NewCredits(Outputs(r))
  BY DEF RouterReverse, Tried
<1>6. Types'
  <2>1. CASE ~may
    <3>1. reverse' = reverse /\ credit_update' = credit_update
      BY <1>5, <2>1, ZenonT(60)
    <3> QED BY <1>1, <1>2, <1>4, <3>1, Zenon DEF Types, links, buffers, traffic
  <2>2. CASE may
    <3>1. credit_update' \in [AllOutputs -> [VCs -> Nat]]
      BY <1>1, <1>5, <2>2, NewCreditsType, Zenon
    <3>2. \A c \in Inputs(r) : Depth[c] \in [VCs -> Nat] /\ input_credit_to_send[c] \in [VCs -> Nat]
      BY <1>1, Topology, NetworkAssumption, Zenon DEF Types, Ends
    <3>3. reverse' \in [Connections -> [VCs -> Nat]]
      BY <1>1, <1>5, <2>2, <3>2, ZenonT(60) DEF Types
    <3> QED BY <1>1, <1>2, <1>4, <3>1, <3>3, SMTT(60) DEF Types, links, buffers, traffic
  <2> QED BY <2>1, <2>2, Zenon
<1>7. Stamps'
  BY <1>1, RouterReverseKeeps, Zenon
<1>8. Turns'
  <2> HIDE DEF ok, st
  <2> QED BY <1>1, <1>2, <1>3, ReverseTurns, SMTT(60)
<1>9. SameCredits'
  <2>1. \A c, vc : Rev(c, vc) \in current' <=>
              Rev(c, vc) \in current \/ (may /\ c \in Inputs(r) /\ vc \in VCs)
    BY RouterReverseStamps, ZenonT(60)
  <2>2. CASE ~may
    BY <1>1, <1>2, <1>4, <1>5, <2>1, <2>2, KeepsSameCredits, ZenonT(60) DEF buffers
  <2>3. CASE may
    <3> SUFFICES ASSUME NEW c \in AllInputs, NEW vc \in VCs, Rev(c, vc) \in current'
                 PROVE  reverse'[c][vc] = IF cycle0 THEN Depth[c][vc] ELSE input_credit_to_send[c][vc]
      BY <1>2, <1>4, Zenon DEF SameCredits, buffers
    <3>1. c \in Connections
      BY Topology, Zenon DEF Ends
    <3>2. CASE c \in Inputs(r)
      <4>1. reverse'[c] = IF cycle0 THEN Depth[c] ELSE input_credit_to_send[c]
        BY <1>5, <2>3, <3>1, <3>2, SMTT(60)
      <4> QED BY <4>1, Zenon
    <3>3. CASE c \notin Inputs(r)
      <4>1. reverse'[c] = reverse[c] /\ Rev(c, vc) \in current
        BY <1>5, <2>1, <2>3, <3>1, <3>3, ZenonT(60)
      <4> QED BY <1>1, <1>4, <4>1, Zenon DEF SameCredits
    <3> QED BY <3>2, <3>3, Zenon
  <2> QED BY <2>2, <2>3, Zenon
<1>10. Balanced'
  BY <1>1, RouterReverseBalance, ZenonT(60) DEF Balanced
<1> QED BY <1>6, <1>7, <1>8, <1>9, <1>10, Zenon DEF IInv

\* SinkForward keeps the invariant.
LEMMA SinkForwardInv ==
  ASSUME Counting, NEW k \in SinkSet, IInv, SinkForward(k)
  PROVE  IInv'
<1> DEFINE ok == Fwd(Ingress[k]) \in current
           st == IF ok THEN {Rev(Ingress[k], vc) : vc \in VCs} ELSE {}
<1>1. Types /\ Stamps /\ Turns /\ SameCredits /\ Balanced
  BY Zenon DEF IInv
<1>2. TryForward(k) /\ ok \in BOOLEAN /\ k \notin SrcSet
  <2>1. TryForward(k)
    BY Zenon DEF SinkForward
  <2>2. k \notin SrcSet
    BY Topology, Zenon DEF Disjoint
  <2> QED BY <2>1, <2>2, SMT
<1>3. Tried(k, ForwardDone(k), ok, st) /\ UNCHANGED <<forward, links, data_to_send, sent, credits, buffers>>
  <2>1. CASE ok
    BY <2>1, Zenon DEF SinkForward, Tried
  <2>2. CASE ~ok
    BY <2>2, Zenon DEF SinkForward, Tried
  <2> QED BY <2>1, <2>2, Zenon
<1>4. /\ at' \in [phase : {"idle", "forward", "reverse", "failed"}, n : Nat]
      /\ converged' \in BOOLEAN /\ cycle0' \in BOOLEAN /\ cycle0' = cycle0
      /\ at.phase \in {"forward", "reverse"}
  <2> HIDE DEF ok, st
  <2> QED BY <1>1, <1>2, <1>3, TurnTypes, Zenon
<1>5. Types'
  <2>1. reverse' \in [Connections -> [VCs -> Nat]]
    BY <1>1, SinkMoves, SMTT(60)
  <2> QED BY <1>1, <1>3, <1>4, <2>1, ZenonT(60) DEF Types, links, buffers, credits
<1>6. Stamps'
  BY <1>1, SinkForwardKeeps, Zenon
<1>7. Turns'
  <2> HIDE DEF ok, st
  <2> QED BY <1>1, <1>2, <1>3, ForwardTurns, ZenonT(60)
<1>8. SameCredits'
  <2>1. \A c \in AllInputs : c \in Connections /\ c # Ingress[k]
    BY Topology, Zenon DEF OneReader, Ends
  <2>2. \A c \in AllInputs : reverse'[c] = reverse[c]
    BY <1>1, <2>1, SinkMoves, ZenonT(60)
  <2>3. \A c \in AllInputs, vc \in VCs : Rev(c, vc) \in current' => Rev(c, vc) \in current
    BY <2>1, SinkForwardStamps, SMTT(60)
  <2> QED BY <1>1, <1>3, <1>4, <2>2, <2>3, KeepsSameCredits, SMTT(60) DEF buffers
<1>9. Balanced'
  BY <1>1, SinkForwardBalance, Zenon DEF Balanced
<1> QED BY <1>5, <1>6, <1>7, <1>8, <1>9, Zenon DEF IInv

\* SinkReverse keeps the invariant.
LEMMA SinkReverseInv ==
  ASSUME NEW k \in SinkSet, IInv, SinkReverse(k)
  PROVE  IInv'
<1>1. Types /\ Stamps /\ Turns /\ SameCredits /\ Balanced
  BY Zenon DEF IInv
<1>2. TryReverse(k) /\ Tried(k, ReverseDone(k), TRUE, {})
  BY Zenon DEF SinkReverse
<1>3. UNCHANGED <<forward, reverse, links, traffic, credits, buffers>>
  BY Zenon DEF SinkReverse
<1>4. /\ at' \in [phase : {"idle", "forward", "reverse", "failed"}, n : Nat]
      /\ converged' \in BOOLEAN /\ cycle0' \in BOOLEAN /\ cycle0' = cycle0
      /\ at.phase \in {"forward", "reverse"}
  BY <1>1, <1>2, TurnTypes, ZenonT(60)
<1>5. Types'
  BY <1>1, <1>3, <1>4 DEF Types, links, buffers, traffic, credits
<1>6. Stamps'
  BY <1>1, SinkReverseKeeps, Zenon
<1>7. Turns'
  BY <1>1, <1>2, ReverseTurns, ZenonT(60)
<1>8. SameCredits'
  BY <1>1, <1>3, <1>4, SinkReverseStamps, KeepsSameCredits, ZenonT(60)
     DEF SameRev, buffers
<1>9. Balanced'
  BY <1>1, <1>3, <1>4, SinkReverseStamps, SameBalance, SMTT(60) DEF Balanced
<1> QED BY <1>5, <1>6, <1>7, <1>8, <1>9, Zenon DEF IInv

\* What does not change the stamps keeps what they imply of one another.
LEMMA UnchangedStamps ==
  ASSUME Stamps, current' = current
  PROVE  /\ Stamps'
         /\ SameFwd /\ SameRev /\ SameUpdate /\ SameForwardDone /\ SameVcDone /\ SameCreditsAdded
BY Zenon
   DEF Stamps, SrcStamps, LinkStamps, RouterStamps, SinkStamps, UpdateStamps, SenderAdded,
       SameFwd, SameRev, SameUpdate, SameForwardDone, SameVcDone, SameCreditsAdded

\* AlreadyDone keeps the invariant.
LEMMA AlreadyDoneInv ==
  ASSUME NEW n, IInv, AlreadyDone(n)
  PROVE  IInv'
<1>1. Types /\ Stamps /\ Turns /\ SameCredits /\ Balanced
  BY Zenon DEF IInv
<1>2. UNCHANGED <<converged, nticks, cycle0, current, forward, reverse, links, traffic, credits, buffers>>
  BY Zenon DEF AlreadyDone
<1>3. /\ at' \in [phase : {"idle", "forward", "reverse", "failed"}, n : Nat]
      /\ at.phase \in {"forward", "reverse"}
  <2>1. at.n \in Nat /\ at.n + 1 \in Nat
    BY <1>1 DEF Types
  <2>2. /\ at' = [phase |-> "reverse", n |-> at.n] \/ at' = [phase |-> "forward", n |-> at.n + 1]
        /\ at.phase = "forward" \/ at.phase = "reverse"
    BY Zenon DEF AlreadyDone, Turn, Goto
  <2> QED BY <2>1, <2>2
<1>4. Types'
  BY <1>1, <1>2, <1>3, Zenon DEF Types, links, buffers, traffic, credits
<1>5. Stamps' /\ SameFwd /\ SameRev /\ SameUpdate /\ SameForwardDone /\ SameVcDone /\ SameCreditsAdded
  BY <1>1, <1>2, UnchangedStamps, Zenon
<1>6. Turns'
  BY <1>1, AlreadyTurns, ZenonT(60)
<1>7. SameCredits'
  BY <1>1, <1>2, <1>3, KeepsSameCredits, ZenonT(60) DEF buffers
<1>8. Balanced'
  BY <1>1, <1>2, <1>5, SameBalance, SMTT(60) DEF Balanced
<1> QED BY <1>4, <1>5, <1>6, <1>7, <1>8, Zenon DEF IInv

\* EndTick keeps the invariant.
LEMMA EndTickInv ==
  ASSUME IInv, EndTick
  PROVE  IInv'
<1>1. Types /\ Stamps /\ Turns /\ SameCredits /\ Balanced
  BY Zenon DEF IInv
<1>2. UNCHANGED <<current, forward, reverse, links, traffic, credits, buffers>>
  BY Zenon DEF EndTick
<1>3. /\ at' \in [phase : {"idle", "forward", "reverse", "failed"}, n : Nat]
      /\ converged' \in BOOLEAN /\ cycle0' \in BOOLEAN
      /\ at'.phase \in {"forward", "reverse"} => at.phase \in {"forward", "reverse"} /\ cycle0' = cycle0
  <2>1. \/ at' = [phase |-> "failed", n |-> 0] /\ converged' = converged /\ cycle0' = cycle0
        \/ at' = [phase |-> "idle", n |-> 0] /\ converged' = converged /\ cycle0' = FALSE
        \/ at' = [phase |-> "forward", n |-> 1] /\ converged' = TRUE /\ cycle0' = cycle0
    BY Zenon DEF EndTick, Goto
  <2>2. at.phase = "forward"
    BY Zenon DEF EndTick
  <2>3. converged' \in BOOLEAN /\ cycle0' \in BOOLEAN
    BY <1>1, <2>1, Zenon DEF Types
  <2>4. at' \in [phase : {"idle", "forward", "reverse", "failed"}, n : Nat]
    BY <2>1
  <2>5. at'.phase \in {"forward", "reverse"} => cycle0' = cycle0
    BY <2>1
  <2> QED BY <2>2, <2>3, <2>4, <2>5, Zenon
<1>4. Types'
  BY <1>1, <1>2, <1>3, Zenon DEF Types, links, buffers, traffic, credits
<1>5. Stamps'
  BY <1>1, <1>2, UnchangedStamps, Zenon
<1>6. Turns'
  BY <1>1, EndTurns, Zenon
<1>7. SameCredits'
  <2>1. CASE at'.phase \in {"forward", "reverse"}
    BY <1>1, <1>2, <1>3, <2>1, KeepsSameCredits, SMTT(60) DEF buffers
  <2>2. CASE at'.phase \notin {"forward", "reverse"}
    BY <2>2, Zenon DEF SameCredits
  <2> QED BY <2>1, <2>2, ZenonT(60)
<1>8. Balanced'
  BY <1>1, EndTickBalance, Zenon DEF Balanced
<1> QED BY <1>4, <1>5, <1>6, <1>7, <1>8, SMTT(60) DEF IInv

\* RunCycle keeps the invariant.
LEMMA RunCycleInv ==
  ASSUME Counting, IInv, RunCycle
  PROVE  IInv'
<1>1. Types /\ Stamps /\ Turns /\ SameCredits /\ Balanced
  BY Zenon DEF IInv
<1>2. /\ UNCHANGED <<cycle0, forward, reverse, links, traffic, credits, buffers>>
      /\ current' = {} /\ converged' = TRUE /\ at' = [phase |-> "forward", n |-> 1]
  BY Zenon DEF RunCycle, Goto
<1>3. Types'
  <2>1. at' \in [phase : {"idle", "forward", "reverse", "failed"}, n : Nat]
    BY <1>2, Zenon
  <2> QED BY <1>1, <1>2, <2>1, Zenon DEF Types, links, buffers, traffic, credits
<1>4. Stamps'
  BY <1>2, Zenon DEF Stamps, SrcStamps, LinkStamps, RouterStamps, SinkStamps, UpdateStamps
<1>5. Turns'
  <2>1. \A i \in DOMAIN Order : ~(i < 1)
    BY OrderVisits
  <2> QED BY <1>2, <2>1, Zenon DEF Turns
<1>6. SameCredits'
  BY <1>2, Zenon DEF SameCredits
<1>7. Balanced'
  BY <1>1, RunCycleBalance, Zenon DEF Balanced
<1> QED BY <1>3, <1>4, <1>5, <1>6, <1>7, Zenon DEF IInv

\* SendFlitAtTime keeps the invariant.
LEMMA SendFlitInv ==
  ASSUME NEW s \in SrcSet, NEW vc \in VCs, NEW dest \in Destinations[s], IInv, SendFlitAtTime(s, vc, dest)
  PROVE  IInv'
<1> DEFINE flit == [src |-> s, dest |-> dest, no |-> Len(sent[s]) + 1, lane |-> vc, vc |-> vc]
<1>1. Types /\ Stamps /\ Turns /\ SameCredits /\ Balanced
  BY Zenon DEF IInv
<1>2. /\ UNCHANGED <<run, current, forward, reverse, links, received_traffic, credits, buffers>>
      /\ data_to_send' = [data_to_send EXCEPT ![s][vc] = Append(@, flit)]
      /\ sent' = [sent EXCEPT ![s] = Append(@, flit)]
  BY Zenon DEF SendFlitAtTime
<1>3. flit \in Flit /\ flit \in {f \in Flit : f.vc = vc}
  <2>1. dest \in Dests
    BY Zenon DEF Dests, SrcSet
  <2>2. Len(sent[s]) + 1 \in Nat
    <3>1. sent[s] \in Seq(Flit)
      BY <1>1, Zenon DEF Types
    <3> QED BY <3>1
  <2> QED BY <2>1, <2>2, Zenon DEF Flit
<1> HIDE DEF flit
<1>4. sent' \in [SrcSet -> Seq(Flit)]
  BY <1>1, <1>2, <1>3, SeqAppend, Zenon DEF Types
<1>5. data_to_send' \in [SrcSet -> [VCs -> Seq(Flit)]]
  <2>1. data_to_send \in [SrcSet -> [VCs -> Seq(Flit)]]
    BY <1>1, Zenon DEF Types
  <2>2. data_to_send[s][vc] \in Seq(Flit)
    BY <2>1
  <2>3. Append(data_to_send[s][vc], flit) \in Seq(Flit)
    BY <1>3, <2>2, SeqAppend, Zenon
  <2> QED BY <1>2, <2>1, <2>3, Zenon
<1>6. \A x \in SrcSet, v \in VCs : data_to_send'[x][v] \in Seq({f \in Flit : f.vc = v})
  <2> TAKE x \in SrcSet, v \in VCs
  <2>1. /\ data_to_send[x][v] \in Seq({f \in Flit : f.vc = v})
        /\ data_to_send \in [SrcSet -> [VCs -> Seq(Flit)]]
    BY <1>1, Zenon DEF Types
  <2>2. CASE x = s /\ v = vc
    <3>1. data_to_send'[x][v] = Append(data_to_send[x][v], flit)
      BY <1>2, <2>1, <2>2, Zenon
    <3>2. Append(data_to_send[x][v], flit) \in Seq({f \in Flit : f.vc = v})
      BY <1>3, <2>1, <2>2, SeqAppend, Zenon
    <3> QED BY <3>1, <3>2, Zenon
  <2>3. CASE ~(x = s /\ v = vc)
    <3>1. data_to_send'[x][v] = data_to_send[x][v]
      BY <1>2, <2>1, <2>3, Zenon
    <3> QED BY <2>1, <3>1, Zenon
  <2> QED BY <2>2, <2>3, Zenon
<1>7. Types'
  BY <1>1, <1>2, <1>4, <1>5, <1>6, Zenon DEF Types, run, links, buffers, credits
<1>8. Stamps' /\ SameFwd /\ SameRev /\ SameUpdate /\ SameForwardDone /\ SameVcDone /\ SameCreditsAdded
  BY <1>1, <1>2, UnchangedStamps, Zenon
<1>9. Turns'
  BY <1>1, <1>2, Zenon DEF Turns, Served, run
<1>10. SameCredits'
  BY <1>1, <1>2, Zenon DEF SameCredits, run, buffers
<1>11. Balanced'
  BY <1>1, <1>2, <1>8, SameBalance, ZenonT(60) DEF Balanced, run
<1> QED BY <1>7, <1>8, <1>9, <1>10, <1>11, Zenon DEF IInv

\* Every step keeps the invariant.
LEMMA StepInv ==
  ASSUME Counting, IInv, [Next]_vars
  PROVE  IInv'
<1>1. CASE \E s \in SrcSet, vc \in VCs : \E dest \in Destinations[s] : SendFlitAtTime(s, vc, dest)
  BY <1>1, SendFlitInv, Zenon
<1>2. CASE RunCycle
  BY <1>2, RunCycleInv, Zenon
<1>3. CASE EndTick
  BY <1>3, EndTickInv, Zenon
<1>4. CASE \E n \in Range(Order) : AlreadyDone(n)
  BY <1>4, AlreadyDoneInv, Zenon
<1>5. CASE \E s \in SrcSet : SrcForward(s) \/ SrcReverse(s)
  BY <1>5, SrcForwardInv, SrcReverseInv, Zenon
<1>6. CASE \E l \in LinkSet : LinkForward(l) \/ LinkReverse(l)
  BY <1>6, LinkForwardInv, LinkReverseInv, Zenon
<1>7. CASE \E r \in RouterSet : RouterForward(r) \/ RouterReverse(r)
  BY <1>7, RouterForwardInv, RouterReverseInv, Zenon
<1>8. CASE \E k \in SinkSet : SinkForward(k) \/ SinkReverse(k)
  BY <1>8, SinkForwardInv, SinkReverseInv, Zenon
<1>9. CASE UNCHANGED vars
  <2>1. /\ UNCHANGED <<run, current, forward, reverse, links, traffic, credits, buffers>>
        /\ Types /\ Stamps /\ Turns /\ SameCredits /\ Balanced
    BY <1>9, Zenon DEF vars, IInv
  <2>2. Stamps' /\ SameFwd /\ SameRev /\ SameUpdate /\ SameForwardDone /\ SameVcDone /\ SameCreditsAdded
    BY <2>1, UnchangedStamps, Zenon
  <2>3. Types'
    BY <2>1, Zenon DEF Types, run, links, traffic, credits, buffers
  <2>4. Turns' /\ SameCredits'
    BY <2>1, Zenon DEF Turns, Served, SameCredits, run, buffers
  <2>5. Balanced'
    BY <2>1, <2>2, SameBalance, ZenonT(60) DEF Balanced, run
  <2> QED BY <2>2, <2>3, <2>4, <2>5, SMTT(60) DEF IInv
<1> QED BY <1>1, <1>2, <1>3, <1>4, <1>5, <1>6, <1>7, <1>8, <1>9, Zenon
       DEF Next, Step, SrcSet, LinkSet, RouterSet, SinkSet

\* The pipelines and buffers are empty at first.
LEMMA InitInv ==
  ASSUME Counting, Init
  PROVE  IInv
<1>0. \A S : <<>> \in Seq(S)
  BY SeqEmpty, Zenon
<1>1. Types
  <2>1. at \in [phase : {"idle", "forward", "reverse", "failed"}, n : Nat]
    BY Zenon DEF Init
  <2>2. /\ forward \in [Connections -> Wire] /\ reverse \in [Connections -> [VCs -> Nat]]
        /\ credit \in [AllOutputs -> [VCs -> Nat]] /\ credit_update \in [AllOutputs -> [VCs -> Nat]]
        /\ input_credit_to_send \in [AllInputs -> [VCs -> Nat]]
    BY Zenon DEF Init, PerVc, Wire
  <2>3. /\ forward_data_stages \in [LinkSet -> Seq(Wire)] /\ sent \in [SrcSet -> Seq(Flit)]
    BY <1>0, Zenon DEF Init, LinkSet, SrcSet
  <2>4. /\ reverse_credit_stages \in [LinkSet -> [VCs -> Seq(Nat)]]
        /\ input_buffers \in [AllInputs -> [VCs -> Seq(Flit)]]
        /\ data_to_send \in [SrcSet -> [VCs -> Seq(Flit)]]
    BY <1>0, Zenon DEF Init, PerVc, LinkSet, SrcSet
  <2>5. \A s \in SrcSet, vc \in VCs : data_to_send[s][vc] \in Seq({f \in Flit : f.vc = vc})
    BY <1>0, Zenon DEF Init, PerVc, SrcSet
  <2>6. converged \in BOOLEAN /\ cycle0 \in BOOLEAN
    BY Zenon DEF Init
  <2> QED BY <2>1, <2>2, <2>3, <2>4, <2>5, <2>6, SMTT(60) DEF Types
<1>2. at.phase = "idle" /\ cycle0 = TRUE /\ current = {}
  BY Zenon DEF Init
<1>3. Stamps
  BY <1>2, Zenon DEF Stamps, SrcStamps, LinkStamps, RouterStamps, SinkStamps, UpdateStamps
<1>4. Turns /\ SameCredits
  BY <1>2, ZenonT(60) DEF Turns, SameCredits
<1>5. Balanced
  <2> SUFFICES ASSUME NEW l \in LinkSet, NEW vc \in VCs
               PROVE  Balance(l, vc) = Issued(LinkTo[l], vc)
    BY Zenon DEF Balanced
  <2>1. LinkFrom[l] \in AllOutputs
    BY Topology, ZenonT(60) DEF Ends
  <2>2. /\ Held(LinkFrom[l], vc) = 0 /\ Leaving(l, vc) = 0 /\ Arriving(LinkTo[l], vc) = 0
        /\ ToSend(LinkTo[l], vc) = 0 /\ Entering(l, vc) = 0 /\ Exiting(LinkFrom[l], vc) = 0
    <3>1. credit[LinkFrom[l]][vc] = 0 /\ credit_update[LinkFrom[l]][vc] = 0
      BY <2>1, Zenon DEF Init, PerVc
    <3>2. /\ ~SenderAdded(LinkFrom[l]) /\ ~ReaderDone(LinkTo[l])
      BY <1>2, Zenon DEF SenderAdded, ReaderDone
    <3>3. Held(LinkFrom[l], vc) = 0 + 0
      BY <3>1, <3>2, Zenon DEF Held
    <3>4. Held(LinkFrom[l], vc) = 0
      BY <3>3
    <3>5. Leaving(l, vc) = 0
      BY <1>2, Zenon DEF Leaving
    <3>6. Arriving(LinkTo[l], vc) = 0
      BY <1>2, Zenon DEF Arriving
    <3>7. ToSend(LinkTo[l], vc) = 0
      BY <1>2, Zenon DEF ToSend
    <3>8. Entering(l, vc) = 0
      BY <1>2, Zenon DEF Entering
    <3>9. Exiting(LinkFrom[l], vc) = 0
      BY <1>2, Zenon DEF Exiting
    <3> QED BY <3>4, <3>5, <3>6, <3>7, <3>8, <3>9, Zenon
  <2>3. Occupancy(LinkTo[l], vc) = 0
    BY Zenon DEF Init, PerVc, Occupancy
  <2>4. InFlight(l, vc) = 0
    <3>1. forward_data_stages[l] = <<>>
      BY Zenon DEF Init, LinkSet
    <3> QED BY <3>1, Zenon DEF InFlight, Counting
  <2>5. Returning(l, vc) = 0
    <3>1. reverse_credit_stages[l][vc] = <<>>
      BY Zenon DEF Init, PerVc, LinkSet
    <3> QED BY <3>1, Zenon DEF Returning, Counting
  <2>6. Issued(LinkTo[l], vc) = 0
    BY <1>2, Zenon DEF Issued
  <2> QED BY <2>2, <2>3, <2>4, <2>5, <2>6, SMTT(60) DEF Balance
<1> QED BY <1>1, <1>3, <1>4, <1>5, Zenon DEF IInv
=============================================================================
