-------------------------- MODULE MCValueAnalysis --------------------------
(***************************************************************************)
(* The functions the value analysis is checked on: every operation, on      *)
(* operands that are unknown, known, known in part, in one interval or in   *)
(* several.                                                                 *)
(***************************************************************************)
EXTENDS ValueAnalysis

Node(op, w, operands, attr) == BitsNode(op, w, operands, attr)

AggregateNode(op, widths, operands) ==
    [op |-> op, kind |-> "aggregate", widths |-> widths, operands |-> operands, attr |-> FALSE]

\* An operand is a sequence of nodes of which the last is its value.
Param(w) == <<Node("param", w, <<>>, FALSE)>>

Constant(w, v) == <<Literal(w, v)>>

Moved(nodes, by) ==
    [n \in DOMAIN nodes |-> [nodes[n] EXCEPT !.operands = [i \in DOMAIN @ |-> @[i] + by]]]

\* The nodes of several operands, and the places of their values.
Joined(parts) == FoldLeft(LAMBDA acc, part : acc \o Moved(part, Len(acc)), <<>>, parts)

Places(parts) == [i \in DOMAIN parts |-> Len(Joined(SubSeq(parts, 1, i)))]

Of(op, w, attr, parts) == Joined(parts) \o <<Node(op, w, Places(parts), attr)>>

AggregateOf(op, widths, parts) ==
    Joined(parts) \o <<AggregateNode(op, widths, Places(parts))>>

\* One of the given values, chosen by a parameter.
OneOf(w, values) ==
    Of("sel", w, FALSE,
       <<Param(MinBitCountUnsigned(Len(values) - 1))>>
         \o [i \in DOMAIN values |-> Constant(w, values[i])])

ZeroExtended(w, from) == Of("zero_ext", w, FALSE, <<Param(from)>>)

SignExtended(w, from) == Of("sign_ext", w, FALSE, <<Param(from)>>)

High(w, v) == Of("concat", w, FALSE, <<Constant(1, v), Param(w - 1)>>)

Low(w, v) == Of("concat", w, FALSE, <<Param(w - 1), Constant(1, v)>>)

\* Zero, whatever the condition is; the passes leave a gate alone.
Gated(w) == Of("gate", w, FALSE, <<Param(1), Constant(w, 0)>>)

\* Operands of width 3.
Lefts ==
    {Param(3), Constant(3, 5), OneOf(3, <<6, 7>>), OneOf(3, <<0, 2, 5, 7>>),
     ZeroExtended(3, 2), ZeroExtended(3, 1), SignExtended(3, 2), High(3, 1)}

Rights ==
    {Param(3), Constant(3, 0), Constant(3, 2), OneOf(3, <<1, 6>>), ZeroExtended(3, 1),
     SignExtended(3, 1), Gated(3)}

\* Operations of two operands of width 3, and the width of the result.
Binary ==
    ({"add", "sub", "udiv", "umod", "sdiv", "smod", "and", "or", "xor", "nand", "nor",
      "shll", "shrl", "shra"} \X {3})
      \union ((CompareOps \union {"eq", "ne"}) \X {1})
      \union ({"umul", "smul"} \X {2, 3, 5, 7})
      \union {<<"concat", 6>>, <<"dynamic_bit_slice", 2>>}

Binaries == {Of(op[1], op[2], FALSE, <<l, r>>) : op \in Binary, l \in Lefts, r \in Rights}

\* Operations of one operand of width 3, the width of the result and the
\* attribute.
Unary ==
    ({"neg", "not", "reverse", "identity"} \X {3} \X {FALSE})
      \union ({"and_reduce", "or_reduce", "xor_reduce"} \X {1} \X {FALSE})
      \union ({"zero_ext", "sign_ext"} \X {5} \X {FALSE})
      \union {<<"decode", 5, FALSE>>, <<"decode", 8, FALSE>>, <<"encode", 2, FALSE>>}

Operands == Lefts \union Rights \union {Low(3, 1), Constant(3, 7)}

Unaries ==
    {Of(op[1], op[2], op[3], <<x>>) : op \in Unary, x \in Operands}
      \union {Of("one_hot", 4, lsb, <<x>>) : lsb \in BOOLEAN, x \in Operands}
      \union {Of("bit_slice", 2, start, <<x>>) : start \in 0 .. 1, x \in Operands}

\* Selectors of width 2 and cases of width 2.
Selectors ==
    {Param(2), Constant(2, 0), Constant(2, 2), OneOf(2, <<0, 3>>), OneOf(2, <<1, 2>>),
     ZeroExtended(2, 1), SignExtended(2, 1), High(2, 1)}

Items == <<Param(2), Constant(2, 3), OneOf(2, <<0, 2>>), Constant(2, 1), Constant(2, 2)>>

Selects ==
    {Of("sel", 2, FALSE, <<s>> \o SubSeq(Items, 1, 4)) : s \in Selectors}
      \union {Of("sel", 2, TRUE, <<s>> \o SubSeq(Items, 2, 5)) : s \in Selectors}
      \union {Of("sel", 2, TRUE, <<s>> \o SubSeq(Items, 1, 3)) : s \in Selectors}
      \union {Of("one_hot_sel", 2, FALSE, <<s>> \o SubSeq(Items, i, i + 1)) :
                s \in Selectors, i \in {1, 3}}
      \union {Of("sel", 2, TRUE, <<OneOf(3, v)>> \o Items) :
                v \in {<<0, 1, 3, 4>>, <<7, 2, 0, 7>>, <<2, 3, 6, 7>>, <<5, 5, 4, 4>>}}
      \union {Of(op, 2, FALSE, <<c, x>>) :
                op \in {"priority_sel", "gate"}, x \in {Items[1], Items[2], Items[3]},
                c \in {Param(1), Constant(1, 0), Constant(1, 1)}}
      \union {Of("one_hot_sel", 2, FALSE,
                 <<Of("one_hot", 3, lsb, <<s>>)>> \o SubSeq(Items, 2, 4)) :
                lsb \in BOOLEAN, s \in Selectors}

Updates ==
    {Of("bit_slice_update", 3, FALSE, <<x, s, u>>) :
       x \in {Param(3), Constant(3, 5), ZeroExtended(3, 1)}, s \in Selectors,
       u \in {Param(2), Constant(2, 1), Constant(4, 9)}}

\* Three operands, and operands used twice.
Nested ==
    {Of(o[1], o[2], FALSE, <<Of(i, 3, FALSE, <<x, y>>), z>>) :
       i \in {"add", "sub", "and", "umul"},
       o \in {<<"add", 3>>, <<"sub", 3>>, <<"ult", 1>>, <<"eq", 1>>, <<"umul", 6>>, <<"shll", 3>>},
       x \in {ZeroExtended(3, 1), OneOf(3, <<1, 6>>)},
       y \in {Constant(3, 3), ZeroExtended(3, 1)},
       z \in {ZeroExtended(3, 2), Constant(3, 6)}}
      \union {x \o <<Node(op[1], op[2], <<Len(x), Len(x)>>, FALSE)>> : op \in Binary, x \in Lefts}
      \union {Of(op, 2, FALSE, <<Param(2), OneOf(2, <<1, 3>>), Constant(2, 2)>>) :
                op \in {"and", "or", "xor", "nand", "nor"}}

\* A shift wider than the ternary engine evaluates.
Wide ==
    {Of(op, 4, FALSE, <<Constant(4, v), Constant(2, 1)>>) :
       op \in {"shll", "shrl", "shra"}, v \in {3, 9}}

Arrays == AggregateOf("array", <<2, 2, 2>>, SubSeq(Items, 1, 3))

IndexOf(array, index) == Of("array_index", 2, FALSE, <<array, index>>)

\* Indexes that stay in an array of three.
Inside == {Constant(2, 0), Constant(2, 2), OneOf(2, <<1, 2>>), ZeroExtended(2, 1), OneOf(3, <<0, 2>>)}

Aggregates ==
    {IndexOf(Arrays, i) : i \in Selectors \union Inside \union {Constant(3, 6), Param(1), Gated(2)}}
      \union {IndexOf(AggregateOf("array_update", <<2, 2, 2>>, <<Arrays, Items[4], s>>), i) :
                s \in Selectors, i \in {Constant(2, 1), Param(2)}}
      \union {IndexOf(AggregateOf("array_slice", <<2, 2>>, <<Arrays, s>>), Constant(1, 1)) :
                s \in Selectors}
      \union {IndexOf(AggregateOf("array_concat", <<2, 2, 2, 2, 2, 2>>, <<Arrays, Arrays>>), i) :
                i \in {Constant(3, 4), OneOf(3, <<1, 5>>)}}
      \union {Of("tuple_index", 2, i, <<AggregateOf("tuple", <<2, 2, 2>>, SubSeq(Items, 1, 3))>>) :
                i \in 0 .. 2}
      \union {Of(op, 1, FALSE, <<AggregateOf("tuple", <<2, 2>>, <<Items[2], Items[3]>>),
                                 AggregateOf("tuple", <<2, 2>>, <<Items[2], Items[i]>>)>>) :
                op \in {"eq", "ne"}, i \in 1 .. 3}
      \union {Of("tuple_index", 2, 1,
                 <<AggregateOf("sel", <<2, 2>>,
                     <<c, AggregateOf("tuple", <<2, 2>>, <<Items[2], Items[4]>>),
                          AggregateOf("tuple", <<2, 2>>, <<Items[1], Items[3]>>)>>)>>) :
                c \in {Param(1), Constant(1, 1)}}
      \union {Of("tuple_index", w, 1, <<AggregateOf(op, <<w, w>>, <<l, r>>)>>) :
                op \in {"umulp", "smulp"}, w \in {2, 3, 7},
                l \in {Param(3), SignExtended(3, 2)}, r \in {ZeroExtended(3, 1), SignExtended(3, 1)}}

Case(nodes, threshold) == [nodes |-> nodes, ret |-> Len(nodes), threshold |-> threshold]

SoundCases ==
    {Case(nodes, 0) :
       nodes \in Binaries \union Unaries \union Selects \union Updates \union Nested
                   \union Wide \union Aggregates}
      \union {Case(IndexOf(Arrays, i), threshold) : i \in Inside, threshold \in {2, 4}}

\* A priority select of two cases.
PriorityCases ==
    {Case(Of("priority_sel", 2, FALSE, <<s>> \o SubSeq(Items, i, i + 1)), 0) :
       s \in Selectors, i \in 1 .. 2}

=============================================================================
