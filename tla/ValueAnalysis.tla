--------------------------- MODULE ValueAnalysis ---------------------------
(***************************************************************************)
(* The query engines at work: a function is analysed by the engines a pass  *)
(* asks for, node by node, and then rewritten by the pass on the strength   *)
(* of what they found.  The passes: narrowing without and with range        *)
(* analysis (GetQueryEngine of passes/narrowing_pass.cc), and select        *)
(* sparsification.                                                          *)
(*                                                                         *)
(* Every case is a function: nodes in a topological order, ret (the return  *)
(* value) and threshold (the option convert_array_index_to_select of the    *)
(* narrowing pass, 0 for none).  What its nodes compute is given by the     *)
(* interpreter's semantics (BitsOps), for every value of its parameters.    *)
(***************************************************************************)
EXTENDS SparsifySelectPass

CONSTANT Cases

VARIABLES
    case,     \* the function as it was given
    pass,     \* the pass that runs
    phase,    \* "ternary", "range", "populated", "pass", "done" or "aborted"
    round,    \* which call of Populate this is: 1 or 2
    at,       \* the node to visit next
    ternary,  \* the ternary engine
    range,    \* the range engine
    g,        \* the function as it is now: its nodes
    ret       \* and its return value

vars == <<case, pass, phase, round, at, ternary, range, g, ret>>

Passes == {"narrowing", "range_narrowing", "sparsify_select"}

\* The engines of the pass, in the order of the union.
Engines ==
    CASE pass = "narrowing" -> <<ternary>>
      [] pass = "range_narrowing" -> <<ternary, range>>
      [] pass = "sparsify_select" -> <<range>>

\* The engine Populate starts with.
FirstEngine == IF pass = "sparsify_select" THEN "range" ELSE "ternary"

Init ==
    /\ case \in Cases
    /\ pass \in Passes
    /\ phase = FirstEngine
    /\ round = 1
    /\ at = 1
    /\ ternary = TernaryInit(case.nodes)
    /\ range = RangeInit(case.nodes)
    /\ g = case.nodes
    /\ ret = case.ret

PopulateTernary ==
    /\ phase = "ternary"
    /\ ternary' = TernaryPopulate(case.nodes, ternary)
    /\ phase' = IF pass = "range_narrowing" THEN "range" ELSE "populated"
    /\ UNCHANGED <<case, pass, round, at, range, g, ret>>

\* The range visitor at the next node.
VisitNode ==
    /\ phase = "range"
    /\ range' = RangeVisit(case.nodes, range, at)
    /\ at' = at + 1
    /\ phase' = CASE range'.aborted -> "aborted"
                  [] ~range'.aborted /\ at = Len(case.nodes) -> "populated"
                  [] OTHER -> "range"
    /\ UNCHANGED <<case, pass, round, ternary, g, ret>>

\* Populate is called again on the same function; a new visitor has seen no
\* change.
PopulateAgain ==
    /\ phase = "populated"
    /\ round = 1
    /\ round' = 2
    /\ phase' = FirstEngine
    /\ at' = 1
    /\ range' = [range EXCEPT !.changed = FALSE]
    /\ UNCHANGED <<case, pass, ternary, g, ret>>

StartPass ==
    /\ phase = "populated"
    /\ round = 1
    /\ phase' = "pass"
    /\ at' = 1
    /\ UNCHANGED <<case, pass, round, ternary, range, g, ret>>

\* The loop of the pass at the next of the nodes it started from.
PassNode ==
    /\ phase = "pass"
    /\ LET rewrite ==
             IF pass = "sparsify_select"
             THEN SparsifyNode(Engines, g, at)
             ELSE NarrowNode(Engines, g, at, pass = "range_narrowing", case.threshold)
       IN  /\ g' = Apply(g, at, rewrite)
           /\ ret' = IF ret = at THEN rewrite.to ELSE ret
    /\ at' = at + 1
    /\ phase' = IF at = Len(case.nodes) THEN "done" ELSE "pass"
    /\ UNCHANGED <<case, pass, round, ternary, range>>

Finished ==
    /\ phase \in {"done", "aborted"} \/ (phase = "populated" /\ round = 2)
    /\ UNCHANGED vars

Next ==
    \/ PopulateTernary \/ VisitNode \/ PopulateAgain \/ StartPass \/ PassNode
    \/ Finished

Spec == Init /\ [][Next]_vars

----------------------------------------------------------------------------
(* What the nodes compute. *)

\* The values of the parameters, cut from one number.
ParamBits(f) == MapThenSumSet(LAMBDA n : f[n].widths[1],
                              {n \in DOMAIN f : f[n].op = "param"})

ParamValue(f, n, x) ==
    Slice(x, MapThenSumSet(LAMBDA m : f[m].widths[1],
                           {m \in 1 .. n - 1 : f[m].op = "param"}), f[n].widths[1])

Inputs == 0 .. 2^ParamBits(case.nodes) - 1

\* The value of every node of f for an input.
Computed(f, x) ==
    LET value[n \in DOMAIN f] ==
          IF f[n].op = "param"
          THEN <<ParamValue(f, n, x)>>
          ELSE Evaluate(f[n], [i \in DOMAIN f[n].operands |-> f[f[n].operands[i]].widths],
                        [i \in DOMAIN f[n].operands |-> value[f[n].operands[i]]])
    IN  [n \in DOMAIN f |-> value[n]]

BitsNodes == {n \in DOMAIN case.nodes : case.nodes[n].kind = "bits"}

Populated == phase = "populated" /\ round = 1

----------------------------------------------------------------------------
(* Properties. *)

\* The range engine never loses a value: whatever the parameters are, every
\* leaf of every node is in its interval set, and no check of the engine fails
\* (RangeQueryEngine "tracks sets of intervals that a value can be in").
RangesSound ==
    /\ phase # "aborted"
    /\ Populated => \A x \in Inputs :
         LET value == Computed(case.nodes, x)
         IN  \A n \in range.has : \A leaf \in DOMAIN value[n] :
               Covers(case.nodes[n].widths[leaf], range.sets[n][leaf], value[n][leaf])

\* The answers about f are right for every input; value gives what the nodes
\* compute.
AnswersHold(f, q, value) ==
    LET bit(x, b) == Get(value[x][b[1]][1], b[2])
        some == {<<n, i>> \in (BitsNodes \cap {ret - 1, ret}) \X (0 .. 1) : i < f[n].widths[1]}
        all(n) == [i \in 1 .. f[n].widths[1] |-> <<n, i - 1>>]
        between(n, lo, hi) == \A x \in Inputs : value[x][n][1] \in lo .. hi
        covered(n, sets) ==
          \A x \in Inputs : \A leaf \in DOMAIN sets :
            Covers(f[n].widths[leaf], sets[leaf], value[x][n][leaf])
    IN  /\ \A a, b \in some :
             /\ KnownEquals(q, f, a, b) => \A x \in Inputs : bit(x, a) = bit(x, b)
             /\ KnownNotEquals(q, f, a, b) => \A x \in Inputs : bit(x, a) # bit(x, b)
        /\ \A n \in BitsNodes :
             /\ AtMostOneTrue(q, f, all(n)) =>
                  \A x \in Inputs : PopCount(f[n].widths[1], value[x][n][1]) <= 1
             /\ AtLeastOneTrue(q, f, all(n)) => \A x \in Inputs : value[x][n][1] # 0
             /\ NodesKnownUnsignedEquals(q, f, n, ret) =>
                  \A x \in Inputs : value[x][n] = value[x][ret]
             /\ NodesKnownUnsignedNotEquals(q, f, n, ret) =>
                  \A x \in Inputs : value[x][n][1] # value[x][ret][1]
             /\ between(n, MinUnsignedValue(q, f, n), MaxUnsignedValue(q, f, n))
        /\ \A n \in DOMAIN f : covered(n, GetIntervals(q, f, n))

\* What the engines say is true for every input.  A bit an engine knows has the
\* value it says, so that the engines of a union, whose known bits are or-ed, never
\* contradict; and so is an answer of true: known equal and unequal bits and nodes,
\* at most and at least one bit set, the least and the largest value, intervals.
QueriesSound ==
    Populated =>
      LET value == [x \in Inputs |-> Computed(case.nodes, x)]
      IN  /\ \A i \in DOMAIN Engines : \A n \in BitsNodes \cap Engines[i].tracked :
               \A x \in Inputs :
                 value[x][n][1] & Engines[i].known[n] = Engines[i].values[n]
          /\ AnswersHold(case.nodes, Engines, value)

\* The values an interval set stands for.
Members(w, set) == UNION {Points(w, set[i]) : i \in DOMAIN set}

\* What interval_set.h says of a normalized set: proper intervals in order,
\* no two of which overlap or abut.
IsNormalized(set) ==
    /\ \A i \in DOMAIN set : ~IsImproper(set[i])
    /\ \A i \in 1 .. Len(set) - 1 : Upper(set[i]) + 1 < Lower(set[i + 1])

\* The operations on the interval sets the analysis meets are those on the sets
\* of values they stand for, and give normalized sets; Size counts and Index
\* enumerates the values in order; and what MinimizeIntervals gives covers the
\* set with no more intervals than asked for.
IntervalSetsExact ==
    Populated => \A m, n \in BitsNodes \cap range.has :
      LET w == case.nodes[n].widths[1]
          a == range.sets[m][1]
          b == range.sets[n][1]
          both == Combine(w, a, b)
          meet == Intersect(w, a, b)
          less == Intersect(w, a, Complement(w, b))
          all == Members(w, both)
      IN  case.nodes[m].widths[1] = w =>
            /\ \A set \in {a, both, meet, less} : IsNormalized(set)
            /\ all = Members(w, a) \union Members(w, b)
            /\ Members(w, meet) = Members(w, a) \intersect Members(w, b)
            /\ Members(w, less) = Members(w, a) \ Members(w, b)
            /\ Size(w, both) = Cardinality(all)
            /\ \A v \in all : Index(w, both, Cardinality({u \in all : u < v})) = <<v>>
            /\ Index(w, both, Cardinality(all)) = <<>>
            /\ \A size \in 1 .. 3 :
                 LET few == MinimizeIntervals(w, a \o b, size)
                 IN  /\ IsNormalized(few) /\ Len(few) <= size
                     /\ all \subseteq Members(w, few)

\* The operations of which the ternary engine leaves the result unknown.
NotEvaluated == {"param", "gate", "dynamic_bit_slice", "umulp", "smulp"}

\* One Populate finds what there is to find.  Where every operand of a node is
\* known in full, so is the node (AbstractEvaluate computes on known bits what the
\* interpreter does); and a second Populate of an unchanged function finds nothing
\* new and says so.
PopulateComplete ==
    /\ (Populated /\ pass # "sparsify_select") =>
         \A n \in BitsNodes :
           LET node == case.nodes[n]
           IN  (/\ node.op \notin NotEvaluated
                /\ node.op \in {"shll", "shrl", "shra"} => node.widths[1] <= MaxShiftBits
                /\ \A i \in DOMAIN node.operands :
                     /\ node.operands[i] \in BitsNodes
                     /\ AllBitsKnown(<<ternary>>, case.nodes, node.operands[i]))
               => AllBitsKnown(<<ternary>>, case.nodes, n)
    /\ (phase = "populated" /\ round = 2) =>
         \A i \in DOMAIN Engines : ~Engines[i].changed

\* The operands of a node have the widths its operation asks for (the checks of
\* ir/verifier.cc for the operations the passes make).
WellTyped(f, node) ==
    LET w(i) == f[node.operands[i]].widths
    IN  CASE node.op \in {"add", "sub", "and", "or"} ->
               \A i \in DOMAIN node.operands : w(i) = node.widths
          [] node.op \in CompareOps \union {"eq", "ne"} -> w(1) = w(2)
          [] node.op = "sel" ->
               /\ \A i \in 2 .. NumCases(node) + 1 : w(i) = node.widths
               /\ IF node.attr THEN NumCases(node) < 2^w(1)[1]
                               ELSE NumCases(node) = 2^w(1)[1]
          [] node.op = "bit_slice" -> node.attr + node.widths[1] <= w(1)[1]
          [] node.op \in {"zero_ext", "sign_ext"} -> node.widths[1] >= w(1)[1]
          [] node.op \in {"shll", "shrl", "shra"} -> node.widths = w(1)
          [] OTHER -> TRUE

\* At every step of a pass the function returns what it did, for every input, and
\* what the pass has made passes the verifier.
PassKeepsMeaning ==
    (phase \in {"pass", "done"} /\ g # case.nodes) =>
      /\ \A x \in Inputs : Computed(g, x)[ret] = Computed(case.nodes, x)[case.ret]
      /\ \A n \in DOMAIN g : WellTyped(g, g[n])
=============================================================================
