------------------------- MODULE SparsifySelectPass -------------------------
(***************************************************************************)
(* passes/sparsify_select_pass.cc: a select whose selector is in a few      *)
(* intervals becomes a chain of selects, one per interval.  See             *)
(* NarrowingPass for the form of a rewrite.                                 *)
(***************************************************************************)
EXTENDS NarrowingPass

\* Smallest first, in the order of the set when they are of the same size.
IntervalsSortedBySize(w, set) ==
    LET order == SortSeq([i \in DOMAIN set |-> <<SizeBits(w, set[i]), i>>], Before)
    IN  [k \in DOMAIN order |-> set[order[k][2]]]

\* The case that value v of the selector selects.
CaseOf(select, v) ==
    IF v < NumCases(select) THEN select.operands[v + 2] ELSE Last(select.operands)

\* The select among the cases of an interval: two literals, the selector less
\* the lower bound, a zero of as many bits as the select has, and the select.
InRange(g, n, interval, at) ==
    LET select == g[n]
        selector == select.operands[1]
        sw == Width(g, selector)
        cases == [i \in 1 .. Upper(interval) - Lower(interval) + 1 |->
                    CaseOf(select, Lower(interval) + i - 1)]
    IN  <<Literal(sw, Lower(interval)), Literal(sw, Upper(interval)),
          BitsNode("sub", sw, <<selector, at + 1>>, FALSE),
          Literal(MapThenSumSet(LAMBDA leaf : select.widths[leaf], DOMAIN select.widths), 0),
          [select EXCEPT !.operands = <<at + 3>> \o cases \o <<at + 4>>, !.attr = TRUE]>>

\* Then the test that the selector is in the interval, and the select between
\* the rest of the chain and the interval's own.
Otherwise(g, n, at, other) ==
    LET selector == g[n].operands[1]
    IN  <<BitsNode("uge", 1, <<selector, at + 1>>, FALSE),
          BitsNode("ule", 1, <<selector, at + 2>>, FALSE),
          BitsNode("and", 1, <<at + 6, at + 7>>, FALSE),
          [g[n] EXCEPT !.operands = <<at + 8, other, at + 5>>, !.attr = FALSE]>>

\* The loop over the intervals; the first one, at the end of the chain, is
\* not tested for.
SparsifySelect(g, n, set) ==
    LET sorted == IntervalsSortedBySize(Width(g, g[n].operands[1]), set)
        step(news, interval) ==
          LET at == Len(g) + Len(news)
          IN  news \o InRange(g, n, interval, at)
                   \o (IF news = <<>> THEN <<>> ELSE Otherwise(g, n, at, at))
    IN  ReplaceUsesWithNew(g, FoldLeft(step, <<>>, sorted))

Worthwhile(g, n, size) == size < NumCases(g[n])

\* What the loop does at node n.
SparsifyNode(q, g, n) ==
    LET selector == g[n].operands[1]
        set == GetIntervals(q, g, selector)[1]
    IN  IF g[n].op = "sel" /\ Worthwhile(g, n, Size(Width(g, selector), set))
        THEN SparsifySelect(g, n, set)
        ELSE Unchanged(n)

=============================================================================
