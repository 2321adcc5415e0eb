---------------------------- MODULE QueryEngines ----------------------------
(***************************************************************************)
(* The ternary query engine, the queries every engine answers and the union *)
(* of engines: passes/ternary_query_engine.cc, query_engine.cc, .h and      *)
(* union_query_engine.cc.                                                   *)
(*                                                                         *)
(* The ternary engine is a record like that of the range engine, without    *)
(* the interval sets.  q is a sequence of engines: one alone, or those of a *)
(* UnionQueryEngine.  A TreeBitLocation of a bits node is <<node, bit>>.    *)
(***************************************************************************)
EXTENDS RangeQueryEngine

CONSTANT MaxShiftBits   \* the width up to which shifts are evaluated: 256

ASSUME ShiftAssumption == MaxShiftBits \in Nat

T == INSTANCE TernaryEvaluator

TernaryInit(f) ==
    [name |-> "ternary", tracked |-> {}, known |-> [n \in DOMAIN f |-> 0],
     values |-> [n \in DOMAIN f |-> 0], changed |-> FALSE]

IsExpensiveToEvaluate(node) ==
    node.op \in {"shll", "shrl", "shra"} /\ node.widths[1] > MaxShiftBits

\* The vector of every bits node, in topological order.
TernaryVectors(f) ==
    LET vector[n \in DOMAIN f] ==
          IF \/ IsExpensiveToEvaluate(f[n])
             \/ \E i \in DOMAIN f[n].operands : f[f[n].operands[i]].kind # "bits"
          THEN T!Fill(f[n].widths[1], T!Unknown)
          ELSE T!AbstractEvaluate(f[n],
                 f[n].operands # <<>> /\ f[f[n].operands[1]].op = "one_hot",
                 [i \in DOMAIN f[n].operands |-> vector[f[n].operands[i]]])
    IN  [n \in {m \in DOMAIN f : f[m].kind = "bits"} |-> vector[n]]

\* TernaryQueryEngine::Populate: what the evaluation found is or-ed into what
\* was known.
TernaryPopulate(f, t) ==
    LET known(vector) ==
          [n \in DOMAIN f |->
             IF n \in DOMAIN vector THEN t.known[n] | T!ToKnownBits(vector[n]) ELSE 0]
        values(vector) ==
          [n \in DOMAIN f |->
             IF n \in DOMAIN vector THEN t.values[n] | T!ToKnownBitsValues(vector[n]) ELSE 0]
        populated(vector) ==
          [t EXCEPT !.tracked = DOMAIN vector, !.known = known(vector), !.values = values(vector),
                    !.changed = known(vector) # t.known \/ values(vector) # t.values]
    IN  populated(TernaryVectors(f))

----------------------------------------------------------------------------
(* Queries.  g is the function as it is now: the passes ask about nodes they *)
(* have made, which no engine tracks.                                       *)

IsTracked(q, n) == \E i \in DOMAIN q : n \in q[i].tracked

\* GetTernary of a bits node: what any of the engines knows.
GetTernary(q, g, n) ==
    LET all == SelectSeq(q, LAMBDA e : n \in e.tracked)
    IN  T!FromKnownBits(g[n].widths[1],
          FoldLeft(LAMBDA acc, e : acc | e.known[n], 0, all),
          FoldLeft(LAMBDA acc, e : acc | e.values[n], 0, all))

\* QueryEngine::GetIntervals, which the ternary engine has: from all unknown
\* bits zero to all unknown bits one.
TernaryIntervals(node, e, n) ==
    LET known == e.known[n]
    IN  IF node.kind = "bits"
        THEN << << <<e.values[n], e.values[n] + (AllOnes(node.widths[1]) - known)>> >> >>
        ELSE MaximalTree(node)

\* UnionQueryEngine::GetIntervals: the intersection over the engines.
GetIntervals(q, g, n) ==
    FoldLeft(LAMBDA acc, e :
               MeetSets(g[n], acc,
                        IF e.name = "range" THEN e.sets[n] ELSE TernaryIntervals(g[n], e, n)),
             MaximalTree(g[n]), SelectSeq(q, LAMBDA e : n \in e.tracked))

IsKnown(q, g, bit) ==
    IsTracked(q, bit[1]) /\ GetTernary(q, g, bit[1])[bit[2] + 1] # T!Unknown

IsOne(q, g, bit) == IsKnown(q, g, bit) /\ GetTernary(q, g, bit[1])[bit[2] + 1] = 1

IsZero(q, g, bit) == IsKnown(q, g, bit) /\ GetTernary(q, g, bit[1])[bit[2] + 1] = 0

AllBitsKnown(q, g, n) ==
    IsTracked(q, n) /\ \A i \in 0 .. g[n].widths[1] - 1 : IsKnown(q, g, <<n, i>>)

\* The engines of a union are asked one by one.
AtMostOneTrue(q, g, bits) ==
    \E i \in DOMAIN q :
      Cardinality({b \in DOMAIN bits : ~IsKnown(<<q[i]>>, g, bits[b])
                                         \/ IsOne(<<q[i]>>, g, bits[b])}) <= 1

AtLeastOneTrue(q, g, bits) ==
    \E i \in DOMAIN q : \E b \in DOMAIN bits : IsOne(<<q[i]>>, g, bits[b])

KnownEquals(q, g, a, b) ==
    \E i \in DOMAIN q :
      /\ IsKnown(<<q[i]>>, g, a) /\ IsKnown(<<q[i]>>, g, b)
      /\ IsOne(<<q[i]>>, g, a) = IsOne(<<q[i]>>, g, b)

KnownNotEquals(q, g, a, b) ==
    \E i \in DOMAIN q :
      /\ IsKnown(<<q[i]>>, g, a) /\ IsKnown(<<q[i]>>, g, b)
      /\ IsOne(<<q[i]>>, g, a) # IsOne(<<q[i]>>, g, b)

\* The number whose bits are those in ones.
BitsAt(ones) == MapThenSumSet(LAMBDA i : 2^i, ones)

MaxUnsignedValue(q, g, n) ==
    BitsAt({i \in 0 .. g[n].widths[1] - 1 : ~IsZero(q, g, <<n, i>>)})

MinUnsignedValue(q, g, n) ==
    BitsAt({i \in 0 .. g[n].widths[1] - 1 : IsOne(q, g, <<n, i>>)})

\* Bits past the width of a node are known zeros.
NodesKnownUnsignedNotEquals(q, g, a, b) ==
    LET zero(n, i) == i >= g[n].widths[1] \/ IsZero(q, g, <<n, i>>)
        one(n, i) == i < g[n].widths[1] /\ IsOne(q, g, <<n, i>>)
    IN  \E i \in 0 .. Max({g[a].widths[1], g[b].widths[1]}) - 1 :
          (zero(a, i) /\ one(b, i)) \/ (one(a, i) /\ zero(b, i))

NodesKnownUnsignedEquals(q, g, a, b) ==
    \/ a = b
    \/ /\ AllBitsKnown(q, g, a) /\ AllBitsKnown(q, g, b)
       /\ T!ToKnownBitsValues(GetTernary(q, g, a)) = T!ToKnownBitsValues(GetTernary(q, g, b))

=============================================================================
