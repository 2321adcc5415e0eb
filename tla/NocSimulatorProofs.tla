------------------------- MODULE NocSimulatorProofs -------------------------
(***************************************************************************)
(* The credit protocol of the NocSimulator on every network: no credit is  *)
(* lost or invented, so no input buffer overflows, and a cycle that ends   *)
(* has brought every connection up to date.  The theorems follow from the  *)
(* invariant of NocSimulatorInvariant and from the facts about the counts  *)
(* of flits and credits in the pipelines that its proof assumes.           *)
(***************************************************************************)
EXTENDS NocSimulatorInvariant, FiniteSetTheorems, TLAPS

------------------------------------------------------------------------------
(* The pipelines of a link, counted *)

\* The positions up to n are finitely many.
LEMMA IsFiniteInterval ==
  ASSUME NEW n \in Nat
  PROVE  IsFiniteSet(1..n) /\ Cardinality(1..n) = n
BY FS_Interval, SMTT(60)

\* An empty pipeline holds nothing.
LEMMA EmptyCounts == (\A vc : Flits(<<>>, vc) = 0) /\ Total(<<>>) = 0
<1>1. ASSUME NEW vc PROVE Flits(<<>>, vc) = 0
  <2>1. {i \in DOMAIN <<>> : OfVc(<<>>[i], vc)} = {}
    BY SMTT(60)
  <2> QED BY <2>1, FS_EmptySet, ZenonT(60) DEF Flits
<1>2. Total(<<>>) = 0
  <2>1. UNION {{i} \X (1..<<>>[i]) : i \in DOMAIN <<>>} = {}
    BY SMTT(60)
  <2> QED BY <2>1, FS_EmptySet, ZenonT(60) DEF Total
<1> QED BY <1>1, <1>2, ZenonT(60)

\* Flits of a virtual channel in a pipeline: a wire appended adds the flit it holds.
LEMMA FlitsAppend ==
  ASSUME NEW st \in Seq(Wire), NEW w \in Wire, NEW vc
  PROVE  /\ Flits(st, vc) \in Nat
         /\ Flits(Append(st, w), vc) = Flits(st, vc) + (IF OfVc(w, vc) THEN 1 ELSE 0)
<1> DEFINE S == {i \in DOMAIN st : OfVc(st[i], vc)}
           U == {i \in DOMAIN Append(st, w) : OfVc(Append(st, w)[i], vc)}
           n == Len(st) + 1
<1>1. /\ Len(st) \in Nat /\ DOMAIN st = 1..Len(st)
      /\ Append(st, w) \in Seq(Wire) /\ DOMAIN Append(st, w) = 1..n
      /\ \A i \in 1..Len(st) : Append(st, w)[i] = st[i]
      /\ Append(st, w)[n] = w
  BY SeqAppend, SeqLen, SMTT(60)
<1>2. IsFiniteSet(S) /\ Cardinality(S) \in Nat
  <2>1. IsFiniteSet(1..Len(st)) /\ S \in SUBSET (1..Len(st))
    <3>1. IsFiniteSet(1..Len(st))
      BY <1>1, IsFiniteInterval, ZenonT(60)
    <3> QED BY <1>1, <3>1, ZenonT(60)
  <2> QED BY <2>1, FS_Subset, FS_CardinalityType, ZenonT(60)
<1>3. U = IF OfVc(w, vc) THEN S \cup {n} ELSE S
  <2> HIDE DEF n
  <2>1. n \notin 1..Len(st) /\ 1..n = (1..Len(st)) \cup {n}
    BY <1>1, SMTT(60) DEF n
  <2> QED BY <1>1, <2>1, ZenonT(60)
<1>4. n \notin S
  BY <1>1, SMTT(60)
<1>5. Cardinality(S \cup {n}) = Cardinality(S) + 1
  BY <1>2, <1>4, FS_AddElement, ZenonT(60)
<1>6. Flits(st, vc) = Cardinality(S) /\ Flits(Append(st, w), vc) = Cardinality(U)
  BY ZenonT(60) DEF Flits
<1> HIDE DEF S, U, n
<1> QED BY <1>2, <1>3, <1>5, <1>6, SMTT(60)

\* The first wire removed takes the flit it holds.
LEMMA FlitsTail ==
  ASSUME NEW st \in Seq(Wire), st # <<>>, NEW vc
  PROVE  /\ Flits(Tail(st), vc) \in Nat
         /\ Flits(st, vc) = Flits(Tail(st), vc) + (IF OfVc(Head(st), vc) THEN 1 ELSE 0)
<1> DEFINE S == {i \in DOMAIN Tail(st) : OfVc(Tail(st)[i], vc)}
           U == {i \in DOMAIN st : OfVc(st[i], vc)}
           f == [i \in S |-> i + 1]
<1>1. /\ Len(st) \in Nat \ {0} /\ DOMAIN st = 1..Len(st) /\ Head(st) = st[1]
      /\ Tail(st) \in Seq(Wire) /\ DOMAIN Tail(st) = 1..(Len(st) - 1)
      /\ \A i \in 1..(Len(st) - 1) : Tail(st)[i] = st[i + 1]
  BY SeqHeadTail, SeqLen, SeqEmpty, SMTT(60)
<1>2. IsFiniteSet(S) /\ Cardinality(S) \in Nat
  <2>1. IsFiniteSet(1..(Len(st) - 1)) /\ S \in SUBSET (1..(Len(st) - 1))
    <3>1. Len(st) - 1 \in Nat
      BY <1>1, SMTT(60)
    <3>2. IsFiniteSet(1..(Len(st) - 1))
      BY <3>1, IsFiniteInterval, ZenonT(60)
    <3> QED BY <1>1, <3>2, ZenonT(60)
  <2> QED BY <2>1, FS_Subset, FS_CardinalityType, ZenonT(60)
<1>3. Cardinality(U \ {1}) = Cardinality(S) /\ IsFiniteSet(U \ {1})
  <2>1. f \in [S -> U \ {1}]
    BY <1>1, SMTT(60)
  <2>2. \A a, b \in S : f[a] = f[b] => a = b
    BY <1>1, SMTT(60)
  <2>3. \A t \in U \ {1} : \E i \in S : f[i] = t
    <3> TAKE t \in U \ {1}
    <3>1. t - 1 \in S /\ f[t - 1] = t
      BY <1>1, SMTT(60)
    <3> QED BY <3>1, ZenonT(60)
  <2>4. ExistsBijection(S, U \ {1})
    BY <2>1, <2>2, <2>3, ZenonT(60)
       DEF ExistsBijection, Bijection, Injection, Surjection, IsInjective
  <2> QED BY <2>4, <1>2, FS_Bijection, ZenonT(60)
<1>6. Flits(Tail(st), vc) = Cardinality(S) /\ Flits(st, vc) = Cardinality(U)
  BY Zenon DEF Flits
<1>4. CASE OfVc(Head(st), vc)
  <2>1. U = (U \ {1}) \cup {1} /\ 1 \notin U \ {1}
    BY <1>1, <1>4, SMTT(60)
  <2>2. Cardinality((U \ {1}) \cup {1}) = Cardinality(S) + 1
    BY <1>3, FS_AddElement, ZenonT(60)
  <2>3. Cardinality(U) = Cardinality(S) + 1
    BY <2>1, <2>2, ZenonT(60)
  <2> HIDE DEF S, U
  <2> QED BY <1>4, <2>3, <1>2, <1>6, ZenonT(60)
<1>5. CASE ~OfVc(Head(st), vc)
  <2>1. U = U \ {1}
    BY <1>1, <1>5, ZenonT(60)
  <2>3. Cardinality(U) = Cardinality(S)
    BY <2>1, <1>3, ZenonT(60)
  <2> HIDE DEF S, U
  <2> QED BY <1>5, <2>3, <1>2, <1>6, SMTT(60)
<1> QED BY <1>4, <1>5, ZenonT(60)

Pairs(st) == UNION {{i} \X (1..st[i]) : i \in DOMAIN st}

\* The credits in a pipeline are finitely many.
LEMMA PairsFinite ==
  ASSUME NEW st \in Seq(Nat)
  PROVE  IsFiniteSet(Pairs(st)) /\ Total(st) \in Nat
<1> DEFINE S == {{i} \X (1..st[i]) : i \in DOMAIN st}
           g == [i \in DOMAIN st |-> {i} \X (1..st[i])]
<1>1. DOMAIN st = 1..Len(st) /\ Len(st) \in Nat /\ \A i \in DOMAIN st : st[i] \in Nat
  BY SeqLen, Zenon
<1>2. IsFiniteSet(DOMAIN st)
  BY <1>1, FS_Interval, SMTT(60)
<1>3. g \in Surjection(DOMAIN st, S)
  BY Zenon DEF Surjection
<1>4. IsFiniteSet(S)
  BY <1>2, <1>3, FS_Surjection, Zenon
<1>5. \A T \in S : IsFiniteSet(T)
  <2> SUFFICES ASSUME NEW i \in DOMAIN st PROVE IsFiniteSet({i} \X (1..st[i]))
    BY Zenon
  <2>1. IsFiniteSet({i})
    BY FS_Singleton, Zenon
  <2>2. IsFiniteSet(1..st[i])
    BY <1>1, FS_Interval, SMTT(60)
  <2> QED BY <2>1, <2>2, FS_Product, ZenonT(60)
<1>6. IsFiniteSet(UNION S)
  BY <1>4, <1>5, FS_UNION, ZenonT(60)
<1>7. IsFiniteSet(Pairs(st))
  BY <1>6, ZenonT(60) DEF Pairs
<1> QED BY <1>7, FS_CardinalityType, ZenonT(60) DEF Pairs, Total

\* Credits in a pipeline: a stage appended adds its credits.
LEMMA TotalAppend ==
  ASSUME NEW st \in Seq(Nat), NEW n \in Nat
  PROVE  Total(st) \in Nat /\ Total(Append(st, n)) = Total(st) + n
<1> DEFINE m == Len(st) + 1
           N == {m} \X (1..n)
<1>1. /\ Len(st) \in Nat /\ DOMAIN st = 1..Len(st)
      /\ Append(st, n) \in Seq(Nat) /\ DOMAIN Append(st, n) = 1..m
      /\ \A i \in 1..Len(st) : Append(st, n)[i] = st[i]
      /\ Append(st, n)[m] = n
  BY SeqAppend, SeqLen, SMTT(60)
<1>2. Pairs(Append(st, n)) = Pairs(st) \cup N
  <2> HIDE DEF m
  <2>1. m \notin 1..Len(st) /\ 1..m = (1..Len(st)) \cup {m}
    BY <1>1, SMTT(60) DEF m
  <2> QED BY <1>1, <2>1, SMTT(60) DEF Pairs
<1>3. Pairs(st) \cap N = {}
  BY <1>1, SMTT(60) DEF Pairs
<1>4. IsFiniteSet(N) /\ Cardinality(N) = n
  <2>1. IsFiniteSet({m}) /\ Cardinality({m}) = 1
    BY FS_Singleton, ZenonT(60)
  <2>2. IsFiniteSet(1..n) /\ Cardinality(1..n) = n
    BY FS_Interval, SMTT(60)
  <2>3. IsFiniteSet(N) /\ Cardinality(N) = 1 * n
    <3>1. IsFiniteSet({m} \X (1..n)) /\ Cardinality({m} \X (1..n)) = Cardinality({m}) * Cardinality(1..n)
      BY <2>1, <2>2, FS_Product, ZenonT(60)
    <3> QED BY <2>1, <2>2, <3>1, ZenonT(60)
  <2> QED BY <2>3, SMTT(60)
<1>5. IsFiniteSet(Pairs(st)) /\ Total(st) \in Nat
  BY PairsFinite, Zenon
<1>6. Cardinality(Pairs(st) \cup N) = Cardinality(Pairs(st)) + n - 0
  <2> HIDE DEF N
  <2>1. Cardinality(Pairs(st) \cap N) = 0
    BY <1>3, FS_EmptySet, ZenonT(60)
  <2> QED BY <2>1, <1>4, <1>5, FS_Union, ZenonT(60)
<1>7. Total(st) = Cardinality(Pairs(st)) /\ Total(Append(st, n)) = Cardinality(Pairs(Append(st, n)))
  BY Zenon DEF Total, Pairs
<1> HIDE DEF N
<1> QED BY <1>2, <1>5, <1>6, <1>7, SMTT(60)

\* The first stage removed takes its credits.
LEMMA TotalTail ==
  ASSUME NEW st \in Seq(Nat), st # <<>>
  PROVE  Total(Tail(st)) \in Nat /\ Total(st) = Total(Tail(st)) + Head(st)
<1> DEFINE n == Head(st)
           N == {1} \X (1..n)
           P == Pairs(Tail(st))
           U == Pairs(st)
           f == [x \in P |-> <<x[1] + 1, x[2]>>]
<1>1. /\ Len(st) \in Nat \ {0} /\ DOMAIN st = 1..Len(st) /\ n = st[1] /\ n \in Nat
      /\ Tail(st) \in Seq(Nat) /\ DOMAIN Tail(st) = 1..(Len(st) - 1)
      /\ \A i \in 1..(Len(st) - 1) : Tail(st)[i] = st[i + 1]
      /\ \A i \in 1..Len(st) : st[i] \in Nat
  BY SeqHeadTail, SeqLen, SeqEmpty, SMTT(60)
<1>2. IsFiniteSet(P) /\ Cardinality(P) \in Nat /\ IsFiniteSet(U) /\ Cardinality(U) \in Nat
  BY <1>1, PairsFinite, FS_CardinalityType, ZenonT(60)
<1>3. \A x : x \in P <=> x \in (1..(Len(st) - 1)) \X Nat /\ x[2] \in 1..st[x[1] + 1]
  BY <1>1, SMTT(60) DEF Pairs
<1>4. \A x : x \in U <=> x \in (1..Len(st)) \X Nat /\ x[2] \in 1..st[x[1]]
  BY <1>1 DEF Pairs
<1>5. Cardinality(U \ N) = Cardinality(P) /\ IsFiniteSet(U \ N)
  <2> HIDE DEF P, U
  <2>1. f \in [P -> U \ N]
    <3> SUFFICES ASSUME NEW x \in P PROVE <<x[1] + 1, x[2]>> \in U \ N
      BY Zenon
    <3>1. x[1] \in 1..(Len(st) - 1) /\ x[2] \in Nat /\ x[2] \in 1..st[x[1] + 1]
      BY <1>3, SMTT(60)
    <3>2. x[1] + 1 \in 1..Len(st) /\ x[1] + 1 # 1
      BY <1>1, <3>1, SMTT(60)
    <3> QED BY <3>1, <3>2, <1>4, ZenonT(60)
  <2>2. \A a, b \in P : f[a] = f[b] => a = b
    <3> SUFFICES ASSUME NEW a \in P, NEW b \in P, f[a] = f[b] PROVE a = b
      BY Zenon
    <3>1. /\ a[1] \in Nat /\ b[1] \in Nat /\ a = <<a[1], a[2]>> /\ b = <<b[1], b[2]>>
      BY <1>1, <1>3, SMTT(60)
    <3>2. a[1] + 1 = b[1] + 1 /\ a[2] = b[2]
      BY Zenon
    <3> QED BY <3>1, <3>2, SMTT(60)
  <2>3. \A t \in U \ N : \E i \in P : f[i] = t
    <3> TAKE t \in U \ N
    <3>0. t[1] # 1 /\ t = <<t[1], t[2]>>
      BY <1>1, <1>4, SMTT(60)
    <3>1. <<t[1] - 1, t[2]>> \in P /\ f[<<t[1] - 1, t[2]>>] = t
      BY <1>1, <1>3, <1>4, <3>0, SMTT(60)
    <3> QED BY <3>1, Zenon
  <2>4. ExistsBijection(P, U \ N)
    <3> HIDE DEF f, N
    <3> QED BY <2>1, <2>2, <2>3, ZenonT(60)
               DEF ExistsBijection, Bijection, Injection, Surjection, IsInjective
  <2> QED BY <2>4, <1>2, FS_Bijection, ZenonT(60)
<1>6. IsFiniteSet(N) /\ Cardinality(N) = n
  <2>1. IsFiniteSet({1}) /\ Cardinality({1}) = 1
    BY FS_Singleton, Zenon
  <2>2. IsFiniteSet(1..n) /\ Cardinality(1..n) = n
    <3>1. n \in Nat
      BY <1>1, ZenonT(60)
    <3> HIDE DEF n
    <3> QED BY <3>1, IsFiniteInterval, ZenonT(60)
  <2>3. IsFiniteSet(N) /\ Cardinality(N) = 1 * n
    <3>1. IsFiniteSet({1} \X (1..n)) /\ Cardinality({1} \X (1..n)) = Cardinality({1}) * Cardinality(1..n)
      BY <2>1, <2>2, FS_Product, ZenonT(60)
    <3> QED BY <2>1, <2>2, <3>1, ZenonT(60)
  <2> QED BY <2>3, <1>1, SMTT(60)
<1>7. U \cap N = N
  <2> HIDE DEF U
  <2> QED BY <1>1, <1>4, SMTT(60)
<1>8. Cardinality(U \ N) = Cardinality(U) - n
  <2> HIDE DEF U, N
  <2>1. Cardinality(U \ N) = Cardinality(U) - Cardinality(U \cap N)
    BY <1>2, FS_Difference, ZenonT(60)
  <2> QED BY <2>1, <1>6, <1>7, ZenonT(60)
<1>9. Total(st) = Cardinality(U) /\ Total(Tail(st)) = Cardinality(P)
  BY ZenonT(60) DEF Total, Pairs
<1> HIDE DEF U, P, N
<1> QED BY <1>1, <1>2, <1>5, <1>8, <1>9, SMTT(60)

\* A set of natural numbers has a least element, which Min chooses.
LEMMA LeastChosen ==
  ASSUME NEW T \in SUBSET Nat, T # {}
  PROVE  Min(T) \in T
<1>1. PICK x \in T : \A y \in T : ~(<<y, x>> \in OpToRel(<, Nat))
  BY NatLessThanWellFounded, WFMin, ZenonT(60)
<1>2. \A y \in T : ~(y < x)
  BY <1>1, ZenonT(60) DEF OpToRel
<1>3. \A y \in T : x <= y
  BY <1>2, SMTT(60)
<1> QED BY <1>3, ZenonT(60) DEF Min

\* The counts are what the balance needs.
LEMMA CountingHolds == Counting
BY EmptyCounts, FlitsAppend, FlitsTail, PairsFinite, TotalAppend, TotalTail, LeastChosen,
   ZenonT(60) DEF Counting, Wire

------------------------------------------------------------------------------
(* The theorems *)

\* The invariant always holds.
LEMMA Invariance == Spec => []IInv
<1>1. IInv /\ [Next]_vars => IInv'
  BY StepInv, CountingHolds, ZenonT(60)
<1>2. Init => IInv
  BY InitInv, CountingHolds, ZenonT(60)
<1> QED BY <1>1, <1>2, PTL DEF Spec

\* Buffer space: the flits behind a link in the input buffer of a router never exceed
\* the depth declared for it, though RouterForward pushes onto input_buffers_
\* without looking at max_queue_size.
BuffersWithinDepth ==
    \A l \in Range(Links), vc \in VCs : Occupancy(LinkTo[l], vc) <= Depth[LinkTo[l]][vc]

\* On every network, with pipelines of any length, the credits of a link and
\* virtual channel add up between two cycles: neither the router's and the
\* source's credit updates nor the link's per-channel reverse propagation loses or
\* invents one, in whatever number of ticks the cycle converges.
THEOREM CreditsAlwaysConserved == Spec => []CreditsConserved
<1>1. IInv => CreditsConserved
  <2> SUFFICES ASSUME IInv, at.phase = "idle", ~cycle0, NEW l \in LinkSet, NEW vc \in VCs
               PROVE  credit[LinkFrom[l]][vc] + credit_update[LinkFrom[l]][vc] + InFlight(l, vc)
                        + Occupancy(LinkTo[l], vc) + Returning(l, vc) = Depth[LinkTo[l]][vc]
    BY Zenon DEF CreditsConserved, LinkSet
  <2>1. Types /\ Stamps /\ Balance(l, vc) = Issued(LinkTo[l], vc) /\ \A i \in DOMAIN Order : Served(i)
    BY Zenon DEF IInv, Turns, Balanced
  <2> QED BY <2>1, SettledBalance, CountingHolds, ZenonT(60)
<1> QED BY <1>1, Invariance, PTL

\* At every moment, in the middle of a cycle too, no input buffer holds more flits
\* than its depth.
THEOREM BuffersNeverOverflow == Spec => []BuffersWithinDepth
<1>1. IInv => BuffersWithinDepth
  <2> SUFFICES ASSUME IInv, NEW l \in LinkSet, NEW vc \in VCs
               PROVE  Occupancy(LinkTo[l], vc) <= Depth[LinkTo[l]][vc]
    BY Zenon DEF BuffersWithinDepth, LinkSet
  <2>1. Types /\ Balance(l, vc) = Issued(LinkTo[l], vc)
    BY Zenon DEF IInv, Balanced
  <2> DEFINE a == Held(LinkFrom[l], vc)
             b == Leaving(l, vc)
             c == InFlight(l, vc)
             d == Arriving(LinkTo[l], vc)
             e == Occupancy(LinkTo[l], vc)
             f == ToSend(LinkTo[l], vc)
             g == Entering(l, vc)
             h == Returning(l, vc)
             i == Exiting(LinkFrom[l], vc)
             j == Depth[LinkTo[l]][vc]
  <2>2. /\ a \in Nat /\ b \in Nat /\ c \in Nat /\ d \in Nat /\ e \in Nat /\ f \in Nat /\ g \in Nat
        /\ h \in Nat /\ i \in Nat
    BY <2>1, Numbers0, CountingHolds, ZenonT(60)
  <2>3. j \in Nat
    <3>1. LinkTo[l] \in Connections
      BY Topology, Zenon DEF Ends
    <3>2. Depth \in [Connections -> [VCs -> Nat]]
      BY NetworkAssumption, Zenon
    <3> QED BY <3>1, <3>2, ZenonT(60)
  <2>4. Balance(l, vc) = 0 \/ Balance(l, vc) = j
    BY <2>1, Zenon DEF Issued
  <2>5. a + b + c + d + e + f + g + h + i = Balance(l, vc)
    BY Zenon DEF Balance
  <2> HIDE DEF a, b, c, d, e, f, g, h, i, j
  <2>6. e <= j
    BY <2>2, <2>3, <2>4, <2>5, SMTT(60)
  <2> QED BY <2>6, ZenonT(60) DEF e, j
<1> QED BY <1>1, Invariance, PTL

\* On every network, a cycle that ends has brought every channel of every
\* connection up to date, as the comment on SimNetworkComponentBase::Tick requires.
THEOREM CyclesLeaveNothingBehind == Spec => []ConvergedUpToDate
<1>1. IInv => ConvergedUpToDate
  <2> SUFFICES ASSUME IInv, at.phase = "idle", ~cycle0
               PROVE  \A c \in Connections : Fwd(c) \in current /\ Ready(c) = VCs
    BY Zenon DEF ConvergedUpToDate
  <2>1. Stamps /\ \A i \in DOMAIN Order : Served(i)
    BY Zenon DEF IInv, Turns
  <2> QED BY <2>1, AllStamped, ZenonT(60) DEF Ready
<1> QED BY <1>1, Invariance, PTL
=============================================================================
