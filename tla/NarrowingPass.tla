--------------------------- MODULE NarrowingPass ---------------------------
(***************************************************************************)
(* passes/narrowing_pass.cc: what the pass does at one node.                *)
(*                                                                         *)
(* g is the function as it is now: the nodes of the original function at    *)
(* their places, then the nodes the pass has made.  q holds the engines, as *)
(* populated before the first change.  Each step gives a rewrite: the nodes *)
(* made, which are appended to g, and the node that takes over the uses of  *)
(* node n, n itself when nothing changes.                                   *)
(***************************************************************************)
EXTENDS QueryEngines

Rewrite(news, to) == [news |-> news, to |-> to]

Unchanged(n) == Rewrite(<<>>, n)

\* MakeNode of a bits node.
BitsNode(op, w, operands, attr) ==
    [op |-> op, kind |-> "bits", widths |-> <<w>>, operands |-> operands, attr |-> attr]

Literal(w, v) == BitsNode("literal", w, <<>>, <<v>>)

BitSlice(operand, start, w) == BitsNode("bit_slice", w, <<operand>>, start)

\* ReplaceUsesWithNew: the last of the new nodes takes over.
ReplaceUsesWithNew(g, news) == Rewrite(news, Len(g) + Len(news))

Width(g, n) == g[n].widths[1]

\* The numbers of leading and of trailing bits that are in bits.
LeadingRun(w, bits) == Min({w} \union {i \in 0 .. w - 1 : w - 1 - i \notin bits})

TrailingRun(w, bits) == Min({w} \union {i \in 0 .. w - 1 : i \notin bits})

CountLeadingKnownZeros(q, g, n) ==
    LeadingRun(Width(g, n), {i \in 0 .. Width(g, n) - 1 : IsZero(q, g, <<n, i>>)})

CountLeadingKnownOnes(q, g, n) ==
    LeadingRun(Width(g, n), {i \in 0 .. Width(g, n) - 1 : IsOne(q, g, <<n, i>>)})

----------------------------------------------------------------------------
(* Comparisons and shifts. *)

NarrowCompareOperands(g, n, start, w) ==
    LET c == g[n]
    IN  ReplaceUsesWithNew(g,
          <<BitSlice(c.operands[1], start, w), BitSlice(c.operands[2], start, w),
            BitsNode(c.op, 1, <<Len(g) + 1, Len(g) + 2>>, c.attr)>>)

IsSignedCompare(node) == node.op \in {"slt", "sle", "sgt", "sge"}

\* Fault: matched leading bits are dropped from signed comparisons too.
SignAgnosticCompareAny(node) == TRUE

\* IsUnsignedCompare, or an equality.
SignAgnosticCompare(node) == ~IsSignedCompare(node)

MaybeNarrowCompare(q, g, n) ==
    LET c == g[n]
        l == c.operands[1]
        r == c.operands[2]
        w == Width(g, l)
        equal == {i \in 0 .. w - 1 : KnownEquals(q, g, <<l, i>>, <<r, i>>)}
        leading == LeadingRun(w, equal)
        trailing == TrailingRun(w, equal)
        zeros == Min({CountLeadingKnownZeros(q, g, l), CountLeadingKnownZeros(q, g, r)})
        ones == Min({CountLeadingKnownOnes(q, g, l), CountLeadingKnownOnes(q, g, r)})
        common == IF zeros = 0 THEN ones ELSE zeros
        extended == g[l].op = "sign_ext" /\ g[r].op = "sign_ext"
        unextended == Max({Width(g, g[l].operands[1]), Width(g, g[r].operands[1])})
    IN  CASE g[l].kind # "bits" -> Unchanged(n)
          [] /\ SignAgnosticCompare(c)
             /\ leading > 0 \/ trailing > 0
             /\ leading # w ->
               NarrowCompareOperands(g, n, trailing, w - leading - trailing)
          [] IsSignedCompare(c) /\ common > 1 ->
               NarrowCompareOperands(g, n, 0, w - common + 1)
          [] IsSignedCompare(c) /\ extended /\ unextended < w ->
               NarrowCompareOperands(g, n, 0, unextended)
          [] OTHER -> Unchanged(n)

\* A shift by zero is its operand, or a slice of it; leading zeros of the
\* amount are dropped.
MaybeNarrowShiftAmount(q, g, n) ==
    LET x == g[n].operands[1]
        amount == g[n].operands[2]
        zeros == CountLeadingKnownZeros(q, g, amount)
    IN  CASE zeros = Width(g, amount) /\ Width(g, n) = Width(g, x) -> Rewrite(<<>>, x)
          [] zeros = Width(g, amount) /\ Width(g, n) # Width(g, x) ->
               ReplaceUsesWithNew(g, <<BitSlice(x, 0, Width(g, n))>>)
          [] zeros \in 1 .. Width(g, amount) - 1 ->
               ReplaceUsesWithNew(g,
                 <<BitSlice(amount, 0, Width(g, amount) - zeros),
                   BitsNode(g[n].op, Width(g, x), <<x, Len(g) + 1>>, g[n].attr)>>)
          [] OTHER -> Unchanged(n)

----------------------------------------------------------------------------
(* Array indexes.  Arrays have one dimension. *)

\* The elements of the array that the index may select: what is made for one
\* of them is a literal, the element at it, its equality with the index and
\* the conjunction of the equalities.
PossibleIndex(g, n, k, at) ==
    LET index == g[n].operands[2]
    IN  <<Literal(Width(g, index), k),
          BitsNode("array_index", Width(g, n), <<g[n].operands[1], at + 1>>, g[n].attr),
          BitsNode("eq", 1, <<index, at + 1>>, FALSE),
          BitsNode("and", 1, <<at + 3>>, FALSE)>>

\* The chain of selects: the element of the first possible index unless a later
\* condition holds.
SelectChain(g, n, count) ==
    LET base == Len(g)
        chain == base + 4 * count
    IN  [i \in 1 .. count - 1 |->
           BitsNode("sel", Width(g, n),
                    <<base + 4 * i + 4,
                      IF i = 1 THEN base + 2 ELSE chain + i - 1,
                      base + 4 * i + 2>>, FALSE)]

MaybeConvertArrayIndexToSelect(q, g, n, threshold) ==
    LET index == g[n].operands[2]
        iw == Width(g, index)
        intervals == GetIntervals(q, g, index)[1]
        size == Size(iw, intervals)
        possible == SelectSeq([i \in DOMAIN g[g[n].operands[1]].widths |-> i - 1],
                              LAMBDA k : k < 2^iw /\ Covers(iw, intervals, k))
        count == Len(possible)
        elements == FlattenSeq([i \in DOMAIN possible |->
                      PossibleIndex(g, n, possible[i], Len(g) + 4 * (i - 1))])
    IN  CASE size = 1 \/ size > threshold \/ count = 0 -> Unchanged(n)
          [] count = 1 -> Rewrite(elements, Len(g) + 2)
          [] OTHER -> ReplaceUsesWithNew(g, elements \o SelectChain(g, n, count))

\* A literal index: past the end it becomes the first index past the end,
\* otherwise it gets the width that indexes the whole array.
LiteralIndex(w, v, size) ==
    LET least == Max({1, MinBitCountUnsigned(size - 1)})
    IN  CASE v >= size -> <<MinBitCountUnsigned(size), size>>
          [] v < size /\ w > least -> <<least, v>>
          [] OTHER -> <<w, v>>

MaybeNarrowIndex(q, g, n) ==
    LET array == g[n].operands[1]
        index == g[n].operands[2]
        w == Width(g, index)
        zeros == CountLeadingKnownZeros(q, g, index)
        size == Len(g[array].widths)
        literal == LiteralIndex(w, g[index].attr[1], size)
        with(new) ==
          ReplaceUsesWithNew(g,
            <<new, BitsNode("array_index", Width(g, n), <<array, Len(g) + 1>>, g[n].attr)>>)
    IN  CASE g[index].op = "literal" ->
               IF literal = <<w, g[index].attr[1]>> THEN Unchanged(n)
                                                    ELSE with(Literal(literal[1], literal[2]))
          [] g[index].op # "literal" /\ zeros = w ->
               with(Literal(Max({1, MinBitCountUnsigned(size - 1)}), 0))
          [] g[index].op # "literal" /\ zeros \in 1 .. w - 1 ->
               with(BitSlice(index, 0, w - zeros))
          [] OTHER -> Unchanged(n)

\* threshold is convert_array_index_to_select, 0 when the option is not given.
MaybeNarrowArrayIndex(q, g, n, use_range_analysis, threshold) ==
    LET converted == MaybeConvertArrayIndexToSelect(q, g, n, threshold)
    IN  IF use_range_analysis /\ threshold > 0 /\ converted # Unchanged(n)
        THEN converted
        ELSE MaybeNarrowIndex(q, g, n)

----------------------------------------------------------------------------
(* Adds and multiplies. *)

\* All but one of the leading zeros are dropped: the one left takes the carry.
NarrowedAddWidth(w, zeros) == w - zeros + 1

MaybeNarrowAdd(q, g, n) ==
    LET l == g[n].operands[1]
        r == g[n].operands[2]
        w == Width(g, n)
        zeros == Min({CountLeadingKnownZeros(q, g, l), CountLeadingKnownZeros(q, g, r)})
        narrowed == NarrowedAddWidth(w, zeros)
    IN  IF Width(g, l) # Width(g, r) \/ zeros <= 1 \/ zeros = w
        THEN Unchanged(n)
        ELSE ReplaceUsesWithNew(g,
               <<BitSlice(l, 0, narrowed), BitSlice(r, 0, narrowed),
                 BitsNode("add", narrowed, <<Len(g) + 1, Len(g) + 2>>, FALSE),
                 BitsNode("zero_ext", w, <<Len(g) + 3>>, FALSE)>>)

\* An operand of a multiply as narrowed: a node to make, or one that exists.
Made(node) == [made |-> <<node>>, place |-> 0]

Existing(place) == [made |-> <<>>, place |-> place]

\* MaybeNarrowUnsignedOperand and MaybeNarrowSignedOperand; the operand itself
\* when it cannot be narrowed.
NarrowUnsigned(q, g, operand) ==
    LET zeros == CountLeadingKnownZeros(q, g, operand)
    IN  IF zeros = 0 THEN Existing(operand)
                     ELSE Made(BitSlice(operand, 0, Width(g, operand) - zeros))

NarrowSigned(q, g, operand) ==
    LET zeros == CountLeadingKnownZeros(q, g, operand)
    IN  CASE g[operand].op = "sign_ext" -> Existing(g[operand].operands[1])
          [] g[operand].op # "sign_ext" /\ zeros > 1 ->
               Made(BitSlice(operand, 0, Width(g, operand) - zeros + 1))
          [] OTHER -> Existing(operand)

\* MaybeNarrow.
NarrowTo(g, operand, w) ==
    IF Width(g, operand) > w THEN Made(BitSlice(operand, 0, w)) ELSE Existing(operand)

\* The multiply of the operands as narrowed.
MultiplyOf(g, n, op, l, r) ==
    LET place(x, at) == IF x.made = <<>> THEN x.place ELSE at
    IN  l.made \o r.made
          \o <<[g[n] EXCEPT !.op = op,
                            !.operands = <<place(l, Len(g) + 1),
                                           place(r, Len(g) + Len(l.made) + 1)>>]>>

\* The product is narrowed to the sum of the operands' widths and extended
\* back (MaybeExtend), each part of a partial product by itself.
NarrowProduct(g, n, signed, lw, rw) ==
    LET mul == g[n]
        w == Width(g, n)
        at == Len(g)
        extend == IF signed THEN "sign_ext" ELSE "zero_ext"
        narrowed == [mul EXCEPT !.widths = [leaf \in DOMAIN @ |-> lw + rw]]
    IN  ReplaceUsesWithNew(g,
          IF mul.kind = "bits"
          THEN <<narrowed, BitsNode(extend, w, <<at + 1>>, FALSE)>>
          ELSE <<narrowed,
                 BitsNode("tuple_index", lw + rw, <<at + 1>>, 0),
                 BitsNode("tuple_index", lw + rw, <<at + 1>>, 1),
                 BitsNode(extend, w, <<at + 2>>, FALSE),
                 BitsNode(extend, w, <<at + 3>>, FALSE),
                 [op |-> "tuple", kind |-> "aggregate", widths |-> mul.widths,
                  operands |-> <<at + 4, at + 5>>, attr |-> FALSE]>>)

\* A multiply of one width is the same signed or unsigned.
SignAgnostic(w, lw, rw) == w = lw /\ w = rw

\* MaybeNarrowMultiply and MaybeNarrowPartialMultiply.
MaybeNarrowMultiply(q, g, n) ==
    LET mul == g[n]
        l == mul.operands[1]
        r == mul.operands[2]
        w == Width(g, n)
        lw == Width(g, l)
        rw == Width(g, r)
        signed == mul.op \in {"smul", "smulp"}
        unsigned_op == IF mul.kind = "bits" THEN "umul" ELSE "umulp"
        signed_op == IF mul.kind = "bits" THEN "smul" ELSE "smulp"
        changes(x, y) == x # Existing(l) \/ y # Existing(r)
        made(op, x, y) == ReplaceUsesWithNew(g, MultiplyOf(g, n, op, x, y))
    IN  CASE w > lw + rw -> NarrowProduct(g, n, signed, lw, rw)
          [] w <= lw + rw /\ (lw > w \/ rw > w) ->
               made(mul.op, NarrowTo(g, l, w), NarrowTo(g, r, w))
          [] OTHER ->
               IF /\ ~signed \/ SignAgnostic(w, lw, rw)
                  /\ changes(NarrowUnsigned(q, g, l), NarrowUnsigned(q, g, r))
               THEN made(unsigned_op, NarrowUnsigned(q, g, l), NarrowUnsigned(q, g, r))
               ELSE IF /\ signed \/ SignAgnostic(w, lw, rw)
                       /\ changes(NarrowSigned(q, g, l), NarrowSigned(q, g, r))
                    THEN made(signed_op, NarrowSigned(q, g, l), NarrowSigned(q, g, r))
                    ELSE Unchanged(n)

----------------------------------------------------------------------------
(* The pass. *)

\* MaybeReplacePreciseWithLiteral.
Precisely(q, g, n) ==
    LET sets == GetIntervals(q, g, n)
    IN  IF \A leaf \in DOMAIN sets : IsPrecise(sets[leaf])
        THEN ReplaceUsesWithNew(g,
               <<[op |-> "literal", kind |-> g[n].kind, widths |-> g[n].widths,
                  operands |-> <<>>, attr |-> [leaf \in DOMAIN sets |-> Lower(sets[leaf][1])]]>>)
        ELSE Unchanged(n)

\* What the loop does at node n; gates are side-effecting and left alone.
NarrowNode(q, g, n, use_range_analysis, threshold) ==
    LET precise == Precisely(q, g, n)
    IN  CASE g[n].op \in {"literal", "param", "gate"} -> Unchanged(n)
          [] g[n].op \notin {"literal", "param", "gate"} /\ precise # Unchanged(n) -> precise
          [] OTHER ->
             CASE g[n].op \in {"shll", "shrl", "shra"} -> MaybeNarrowShiftAmount(q, g, n)
               [] g[n].op = "array_index" ->
                    MaybeNarrowArrayIndex(q, g, n, use_range_analysis, threshold)
               [] g[n].op \in {"smul", "umul", "smulp", "umulp"} ->
                    MaybeNarrowMultiply(q, g, n)
               [] g[n].op \in CompareOps \union {"eq", "ne"} -> MaybeNarrowCompare(q, g, n)
               [] g[n].op = "add" -> MaybeNarrowAdd(q, g, n)
               [] OTHER -> Unchanged(n)

\* ReplaceUsesWith: the uses of n, the return value among them, become uses of
\* the node that takes over.
Apply(g, n, rewrite) ==
    LET all == g \o rewrite.news
        renamed(m) == IF m = n THEN rewrite.to ELSE m
    IN  [m \in DOMAIN all |->
           [all[m] EXCEPT !.operands = [i \in DOMAIN @ |-> renamed(@[i])]]]

=============================================================================
