-------------------------- MODULE RangeQueryEngine --------------------------
(***************************************************************************)
(* The range query engine, passes/range_query_engine.cc: for every node the *)
(* set of intervals its value can be in.                                    *)
(*                                                                         *)
(* A function under analysis is a sequence of nodes (see BitsOps) in a      *)
(* topological order.  The engine is a record: name, tracked (the nodes in  *)
(* known_bits_), has (those in interval_sets_), sets (an interval set per   *)
(* leaf; maximal for the nodes not in has, as GetIntervalSetTree answers),  *)
(* known and values (known_bits_ and known_bit_values_), changed (whether   *)
(* the visitor met a change) and aborted (an XLS_CHECK failed).             *)
(***************************************************************************)
EXTENDS IntervalSets

CONSTANTS
    MaxIntervals,          \* the default size of MinimizeIntervals: 16
    MaxOperandIntervals,   \* intervals kept of an operand: 5
    ManyOperands           \* operands after which only one is kept: 12

ASSUME LimitsAssumption ==
    /\ MaxIntervals \in Nat \ {0}
    /\ MaxOperandIntervals \in Nat \ {0}
    /\ ManyOperands \in Nat

MaximalTree(node) == [leaf \in DOMAIN node.widths |-> MaximalSet(node.widths[leaf])]

\* An engine that holds nothing.
RangeInit(f) ==
    [name |-> "range", tracked |-> {}, has |-> {}, sets |-> [n \in DOMAIN f |-> MaximalTree(f[n])],
     known |-> [n \in DOMAIN f |-> 0], values |-> [n \in DOMAIN f |-> 0],
     changed |-> FALSE, aborted |-> FALSE]

\* InitializeNode: known_bits_ and known_bit_values_ of zero, if absent.
InitializeNode(e, n) == [e EXCEPT !.tracked = @ \union {n}]

\* LongestCommonPrefixMSB of the bounds: the number of leading bits they share.
CommonPrefix(w, lo, hi) ==
    Max({0} \union {k \in 1 .. w : lo \div 2^(w - k) = hi \div 2^(w - k)})

\* What is known of a node only grows: the new sets are intersected with the old.
MeetSets(node, old, new) ==
    [leaf \in DOMAIN node.widths |-> Intersect(node.widths[leaf], old[leaf], new[leaf])]

\* Fault: every visit is taken to be the first.
ChangesAsFirst(f, e, n, tree, new) ==
    \E leaf \in DOMAIN tree : ~IsMaximal(f[n].widths[leaf], tree[leaf])

\* What the visitor counts as a change: on the first visit a set that is not
\* maximal, later a set that is not what it was.
Changes(f, e, n, tree, new) ==
    IF n \in e.has
    THEN new # e.sets[n]
    ELSE \E leaf \in DOMAIN tree : ~IsMaximal(f[n].widths[leaf], tree[leaf])

\* SetIntervalSetTree of the visitor and of the engine.  An empty set for a
\* bits node fails the XLS_CHECK.
SetIntervalSetTree(f, e, n, tree) ==
    LET w == f[n].widths[1]
        with(new) == [e EXCEPT !.has = @ \union {n}, !.sets[n] = new,
                               !.changed = @ \/ Changes(f, e, n, tree, new)]
        known(set, lo, common) ==
          [set EXCEPT !.known[n] = AllOnes(common) * 2^(w - common),
                      !.values[n] = (lo \div 2^(w - common)) * 2^(w - common)]
        set(new) ==
          CASE f[n].kind # "bits" -> with(new)
            [] f[n].kind = "bits" /\ new[1] = <<>> -> [e EXCEPT !.aborted = TRUE]
            [] OTHER -> known(with(new), LowerBound(new[1]),
                              CommonPrefix(w, LowerBound(new[1]), UpperBound(new[1])))
    IN  set(MeetSets(f[n], e.sets[n], tree))

----------------------------------------------------------------------------
(* Handlers.  Each gives <<>> when it leaves the node alone and <<tree>>    *)
(* when it sets the node's interval sets to tree.                           *)

Nothing == <<>>

Bit(b) == << <<PreciseSet(b)>> >>

\* The operations HandleVariadicOp is used for, on the operands' values:
\* nothing when the analysis does not hold for them (an overflow).
Impl(op, w, ws, vs) ==
    CASE op = "add" -> IF vs[1] + vs[2] > AllOnes(w) THEN Nothing ELSE <<vs[1] + vs[2]>>
      [] op = "sub" -> IF vs[2] <= vs[1] THEN <<Sub(w, vs[1], vs[2])>> ELSE Nothing
      [] op = "neg" -> <<Negate(w, vs[1])>>
      [] op = "udiv" -> <<UDiv(w, vs[1], vs[2])>>
      [] op = "umul" -> <<UMul(vs[1], vs[2])>>
      [] op = "concat" -> <<Concat(ws, vs)>>
      [] op \in {"identity", "zero_ext"} -> <<vs[1]>>
      [] op = "sign_ext" -> <<SignExtend(ws[1], vs[1], w)>>

\* The operands in which the operation is antitone; it is monotone in the rest.
Antitone(op) ==
    CASE op = "neg" -> {1} [] op \in {"sub", "udiv"} -> {2} [] OTHER -> {}

\* The bound of operand i that gives the lower (or the upper) bound of the
\* result.
OperandBound(op, i, interval, lower) ==
    IF lower = (i \in Antitone(op)) THEN Upper(interval) ELSE Lower(interval)

\* HandleVariadicOp: every choice of an interval from each operand gives an
\* interval of the result, unless some choice gives none.
HandleVariadicOp(op, w, ws, sets) ==
    LET choices(kept) ==
          {c \in [DOMAIN sets -> 1 .. Max({Len(kept[i]) : i \in DOMAIN sets})] :
             \A i \in DOMAIN sets : c[i] \in DOMAIN kept[i]}
        bound(kept, c, lower) ==
          Impl(op, w, ws, [i \in DOMAIN sets |-> OperandBound(op, i, kept[i][c[i]], lower)])
        intervals(kept) ==
          {<<bound(kept, c, TRUE), bound(kept, c, FALSE)>> : c \in choices(kept)}
        result(found) ==
          IF \E b \in found : Nothing \in {b[1], b[2]}
          THEN Nothing
          ELSE << <<MinimizeIntervals(w, AsSequence({<<b[1][1], b[2][1]>> : b \in found}),
                                      MaxIntervals)>> >>
    IN  result(intervals([i \in DOMAIN sets |->
                 MinimizeIntervals(ws[i], sets[i],
                   IF i <= ManyOperands THEN MaxOperandIntervals ELSE 1)]))

\* AnalyzeEq and AnalyzeLt: <<1>>, <<0>>, or <<>> when it is not known.
AnalyzeEq(w, lhs, rhs) ==
    CASE IsPrecise(lhs) /\ IsPrecise(rhs) /\ lhs = rhs -> <<1>>
      [] Len(Combine(w, lhs, rhs)) = Len(lhs) + Len(rhs) -> <<0>>
      [] OTHER -> Nothing

AnalyzeLt(lhs, rhs) ==
    CASE Overlaps(Hull(lhs), Hull(rhs)) -> Nothing
      [] Before(Hull(lhs), Hull(rhs)) -> <<1>>
      [] OTHER -> <<0>>

\* HandleUGe, HandleUGt, HandleULe, HandleULt, HandleEq and HandleNe.
HandleCompare(op, w, lhs, rhs) ==
    LET negated(r) == [i \in DOMAIN r |-> 1 - r[i]]
        known(r) == IF r = Nothing THEN Nothing ELSE Bit(r[1])
        or_equal(r) == IF AnalyzeEq(w, lhs, rhs) = <<1>> THEN <<1>> ELSE r
    IN  known(CASE op = "eq" -> AnalyzeEq(w, lhs, rhs)
                [] op = "ne" -> negated(AnalyzeEq(w, lhs, rhs))
                [] op = "ult" -> AnalyzeLt(lhs, rhs)
                [] op = "ule" -> or_equal(AnalyzeLt(lhs, rhs))
                [] op = "ugt" -> AnalyzeLt(rhs, lhs)
                [] op = "uge" -> or_equal(AnalyzeLt(rhs, lhs)))

HandleAndReduce(w, set) ==
    CASE ~Covers(w, set, AllOnes(w)) -> Bit(0)
      [] Hull(set) = Precise(AllOnes(w)) -> Bit(1)
      [] OTHER -> Nothing

HandleOrReduce(w, set) ==
    CASE ~Covers(w, set, 0) -> Bit(1)
      [] Hull(set) = Precise(0) -> Bit(0)
      [] OTHER -> Nothing

\* The parity is known when the values are, and have the same one.
HandleXorReduce(w, set) ==
    LET parities == {XorReduce(w, Lower(set[i])) : i \in DOMAIN set}
    IN  IF /\ \A i \in DOMAIN set : Lower(set[i]) = Upper(set[i])
           /\ \A p, q \in parities : p = q
        THEN Bit(CHOOSE p \in parities : TRUE)
        ELSE Nothing

\* The trees combined leaf by leaf, starting from empty sets.
CombineTrees(widths, trees) ==
    FoldLeft(LAMBDA acc, tree :
               [leaf \in DOMAIN widths |-> Combine(widths[leaf], acc[leaf], tree[leaf])],
             [leaf \in DOMAIN widths |-> <<>>], trees)

ZeroTree(widths) == [leaf \in DOMAIN widths |-> PreciseSet(0)]

Minimized(widths, tree) ==
    [leaf \in DOMAIN widths |-> MinimizeIntervals(widths[leaf], tree[leaf], MaxIntervals)]

CaseNumbers(node) == 0 .. NumCases(node) - 1

\* The trees of the cases with numbers, from 0, in reached.
CasesReached(node, trees, reached) ==
    LET cases == SelectSeq([i \in 1 .. NumCases(node) |-> i], LAMBDA i : i - 1 \in reached)
    IN  [k \in DOMAIN cases |-> trees[cases[k]]]

\* The cases the selector can reach, and the default if it can reach past them.
HandleSel(node, sw, selector, trees) ==
    <<Minimized(node.widths,
        CombineTrees(node.widths,
          CasesReached(node, trees, {i \in CaseNumbers(node) : Covers(sw, selector, i)})
            \o (IF node.attr /\ UpperBound(selector) >= NumCases(node)
                THEN <<trees[Len(trees)]>> ELSE <<>>)))>>

\* Zero if the selector can be zero, and the cases whose one-hot selector it
\* covers.
HandlePrioritySel(node, sw, selector, trees) ==
    <<Minimized(node.widths,
        CombineTrees(node.widths,
          (IF Covers(sw, selector, 0) THEN <<ZeroTree(node.widths)>> ELSE <<>>)
            \o CasesReached(node, trees,
                            {i \in CaseNumbers(node) : Covers(sw, selector, 2^i)})))>>

\* HandleGate: the data if the condition can be one, zero if it can be zero.
HandleGate(node, condition, data) ==
    <<CombineTrees(node.widths,
        (IF Covers(1, condition, 1) THEN <<data>> ELSE <<>>)
          \o (IF Covers(1, condition, 0) THEN <<ZeroTree(node.widths)>> ELSE <<>>))>>

\* Fault: an index out of bounds is not taken to read the last element.
CoversIndexInBounds(iw, set, index, dim) ==
    /\ MinBitCountUnsigned(index) <= iw
    /\ Covers(iw, set, index)

\* intervals_cover_index: an index past the end reads the last element.
CoversIndex(iw, set, index, dim) ==
    /\ MinBitCountUnsigned(index) <= iw
    /\ \/ Covers(iw, set, index)
       \/ index = dim - 1 /\ UpperBound(set) >= dim

HandleArrayIndex(node, dim, iw, indices, array) ==
    LET reached == SelectSeq([i \in 1 .. dim |-> i],
                             LAMBDA i : CoversIndex(iw, indices, i - 1, dim))
    IN  <<CombineTrees(node.widths, [k \in DOMAIN reached |-> <<array[reached[k]]>>])>>

\* The handler of a node.  The handlers not named only initialise the node.
Handle(f, sets, n) ==
    LET node == f[n]
        w == node.widths[1]
        tree(i) == sets[node.operands[i]]
        ws == [i \in DOMAIN node.operands |-> f[node.operands[i]].widths[1]]
        firsts == [i \in DOMAIN node.operands |-> tree(i)[1]]
        bits == \A i \in DOMAIN node.operands : f[node.operands[i]].kind = "bits"
        cases == [i \in 1 .. Len(node.operands) - 1 |-> tree(i + 1)]
    IN  CASE node.op = "literal" ->
               <<[leaf \in DOMAIN node.widths |-> PreciseSet(node.attr[leaf])]>>
          [] node.op \in {"add", "sub", "neg", "udiv", "concat", "identity",
                          "zero_ext", "sign_ext"} ->
               HandleVariadicOp(node.op, w, ws, firsts)
          [] node.op = "umul" /\ w >= ws[1] + ws[2] ->
               HandleVariadicOp("umul", w, ws, firsts)
          [] node.op \in {"eq", "ne", "ult", "ule", "ugt", "uge"} /\ bits ->
               HandleCompare(node.op, ws[1], firsts[1], firsts[2])
          [] node.op = "and_reduce" -> HandleAndReduce(ws[1], firsts[1])
          [] node.op = "or_reduce" -> HandleOrReduce(ws[1], firsts[1])
          [] node.op = "xor_reduce" -> HandleXorReduce(ws[1], firsts[1])
          [] node.op = "sel" -> HandleSel(node, ws[1], firsts[1], cases)
          [] node.op = "priority_sel" -> HandlePrioritySel(node, ws[1], firsts[1], cases)
          [] node.op = "gate" -> HandleGate(node, firsts[1], tree(2))
          [] node.op \in {"tuple", "array", "array_concat"} ->
               <<FlattenSeq([i \in DOMAIN node.operands |-> tree(i)])>>
          [] node.op = "tuple_index" -> << <<tree(1)[node.attr + 1]>> >>
          [] node.op = "array_index" ->
               HandleArrayIndex(node, Len(tree(1)), ws[2], firsts[2], tree(1))
          [] OTHER -> Nothing

\* The visit of node n.
RangeVisit(f, e, n) ==
    LET visited(result) ==
          IF result = Nothing
          THEN InitializeNode(e, n)
          ELSE SetIntervalSetTree(f, InitializeNode(e, n), n, result[1])
    IN  visited(Handle(f, e.sets, n))

=============================================================================
