-------------------------- MODULE TernaryEvaluator --------------------------
(***************************************************************************)
(* The abstract evaluator over ternary values: ir/ternary.h,                *)
(* passes/ternary_evaluator.h, ir/abstract_evaluator.h and the dispatch of  *)
(* ir/abstract_node_evaluator.h.                                            *)
(*                                                                         *)
(* An element is 0, 1 or 2 (unknown); a vector is the sequence of its       *)
(* elements, the least significant one first.                               *)
(***************************************************************************)
EXTENDS Integers, Sequences, SequencesExt

LOCAL B == INSTANCE BitsOps

Unknown == 2

And(a, b) == CASE a = 0 \/ b = 0 -> 0 [] a = 1 /\ b = 1 -> 1 [] OTHER -> Unknown

Or(a, b) == CASE a = 1 \/ b = 1 -> 1 [] a = 0 /\ b = 0 -> 0 [] OTHER -> Unknown

Not(a) == IF a = Unknown THEN Unknown ELSE 1 - a

Xor(a, b) == And(Or(a, b), Not(And(a, b)))

\* Sum and carry.
HalfAdder(a, b) == <<And(Or(a, b), Not(And(a, b))), And(a, b)>>

FullAdder(a, b, carry_in) ==
    LET join(first, second) == <<second[1], Or(first[2], second[2])>>
        carried(first) == join(first, HalfAdder(first[1], carry_in))
    IN  carried(HalfAdder(a, b))

BitsToVector(w, bits) == [i \in 1 .. w |-> B!Get(bits, i - 1)]

Fill(n, e) == [i \in 1 .. n |-> e]

\* FromKnownBits, ToKnownBits and ToKnownBitsValues.
FromKnownBits(w, known_bits, values) ==
    [i \in 1 .. w |-> IF B!Get(known_bits, i - 1) = 1 THEN B!Get(values, i - 1) ELSE Unknown]

ToBits(v, elements) ==
    FoldRight(LAMBDA e, acc : 2 * acc + (IF e \in elements THEN 1 ELSE 0), v, 0)

ToKnownBits(v) == ToBits(v, {0, 1})

ToKnownBitsValues(v) == ToBits(v, {1})

BitwiseNot(v) == [i \in DOMAIN v |-> Not(v[i])]

\* NaryOp with And, Or and Xor.
BitwiseAnd(vs) ==
    FoldLeft(LAMBDA x, y : [i \in DOMAIN x |-> And(x[i], y[i])], vs[1], Tail(vs))

BitwiseOr(vs) ==
    FoldLeft(LAMBDA x, y : [i \in DOMAIN x |-> Or(x[i], y[i])], vs[1], Tail(vs))

BitwiseXor(vs) ==
    FoldLeft(LAMBDA x, y : [i \in DOMAIN x |-> Xor(x[i], y[i])], vs[1], Tail(vs))

AndReduce(v) == FoldLeft(And, 1, v)

OrReduce(v) == FoldLeft(Or, 0, v)

XorReduce(v) ==
    FoldLeft(LAMBDA acc, e : Or(And(Not(acc), e), And(acc, Not(e))), 0, v)

BitSlice(v, start, width) == SubSeq(v, start + 1, start + width)

\* The first input is the most significant.
Concat(vs) == FlattenSeq(Reverse(vs))

ZeroExtend(v, new_width) == v \o Fill(new_width - Len(v), 0)

SignExtend(v, new_width) == v \o Fill(new_width - Len(v), Last(v))

Equals(a, b) ==
    AndReduce([i \in DOMAIN a |-> Or(And(a[i], b[i]), And(Not(a[i]), Not(b[i])))])

\* From the most significant bit down: less so far, and not greater so far.
ULessThan(a, b) ==
    FoldRight(LAMBDA p, acc : <<Or(acc[1], And(acc[2], And(Not(p[1]), p[2]))),
                                And(acc[2], Or(Not(p[1]), p[2]))>>,
              [i \in DOMAIN a |-> <<a[i], b[i]>>], <<0, 1>>)[1]

SLessThan(a, b) ==
    Or(And(Last(a), Not(Last(b))),
       And(Not(And(Not(Last(a)), Last(b))), ULessThan(a, b)))

\* When the selector cannot be zero, a bit that is one in every case that may
\* be selected is one.
CommonOnes(selector, cases, j) ==
    FoldLeft(LAMBDA acc, i : IF selector[i] = 0 THEN acc ELSE And(acc, cases[i][j]),
             1, [i \in DOMAIN selector |-> i])

OneHotSelect(selector, cases, selector_can_be_zero) ==
    [j \in DOMAIN cases[1] |->
       Or(IF selector_can_be_zero THEN 0 ELSE CommonOnes(selector, cases, j),
          OrReduce([i \in DOMAIN selector |-> And(cases[i][j], selector[i])]))]

PrioritySelect(selector, cases, selector_can_be_zero) ==
    [j \in DOMAIN cases[1] |->
       Or(IF selector_can_be_zero THEN 0 ELSE CommonOnes(selector, cases, j),
          FoldRight(LAMBDA i, acc : Or(And(cases[i][j], selector[i]),
                                       And(acc, Not(selector[i]))),
                    [i \in DOMAIN selector |-> i], 0))]

\* A binary selector turned into a one-hot one; "default" is empty or holds
\* the default value, selected by a selector past the last case.
Select(selector, cases, default) ==
    LET w == Len(selector)
        is == [i \in DOMAIN cases |-> Equals(selector, BitsToVector(w, i - 1))]
        past == ULessThan(BitsToVector(w, Len(cases) - 1), selector)
    IN  IF default = <<>>
        THEN OneHotSelect(is, cases, FALSE)
        ELSE OneHotSelect(Append(is, past), cases \o default, FALSE)

\* The bits in the order of priority: each is set if it is and none before.
FirstOne(v) ==
    [i \in 1 .. Len(v) + 1 |->
       LET none == AndReduce([k \in 1 .. i - 1 |-> Not(v[k])])
       IN  IF i > Len(v) THEN none ELSE And(none, v[i])]

OneHotLsbToMsb(v) == FirstOne(v)

OneHotMsbToLsb(v) == Append(Reverse(Front(FirstOne(Reverse(v)))), Last(FirstOne(Reverse(v))))

----------------------------------------------------------------------------
(* Shifts: a one-hot select between the input shifted by each constant. *)

\* selector[i] = (amount == i), as far as the amount is wide enough, and
\* amount >= n when it is wide enough for that.
ShiftSelector(n, amount) ==
    LET wide(i) == Len(amount) >= B!MinBitCountUnsigned(i)
        exact == SelectSeq([i \in 1 .. n |-> i - 1], wide)
        over == Not(ULessThan(amount, BitsToVector(Len(amount), n)))
    IN  [k \in DOMAIN exact |-> Equals(amount, BitsToVector(Len(amount), exact[k]))]
          \o (IF wide(n) THEN <<over>> ELSE <<>>)

Shift(input, amount, right, fill) ==
    LET n == Len(input)
        selector == ShiftSelector(n, amount)
        shifted(k) ==
          [j \in 1 .. n |->
             IF right THEN (IF j + k <= n THEN input[j + k] ELSE fill)
                      ELSE (IF j > k THEN input[j - k] ELSE 0)]
    IN  OneHotSelect(selector, [i \in DOMAIN selector |-> shifted(i - 1)], FALSE)

ShiftLeftLogical(input, amount) == Shift(input, amount, FALSE, 0)

\* A mask for the bits that are not updated, and the update shifted to start.
BitSliceUpdate(input, start, value) ==
    LET n == Len(input)
        ones == [i \in 1 .. n |-> IF i <= Len(value) THEN 1 ELSE 0]
        adjusted == [i \in 1 .. n |-> IF i <= Len(value) THEN value[i] ELSE 0]
    IN  BitwiseOr(<<BitwiseAnd(<<BitwiseNot(ShiftLeftLogical(ones, start)), input>>),
                    ShiftLeftLogical(adjusted, start)>>)

Decode(v, result_width) ==
    [i \in 1 .. result_width |-> Equals(v, BitsToVector(Len(v), i - 1))]

Encode(v) ==
    [j \in 1 .. B!MinBitCountUnsigned(Len(v) - 1) |->
       OrReduce([i \in DOMAIN v |-> IF B!Get(i - 1, j - 1) = 1 THEN v[i] ELSE 0])]

----------------------------------------------------------------------------
(* Arithmetic. *)

\* A ripple-carry adder.
Add(a, b) ==
    LET added(acc, r) == [sum |-> Append(acc.sum, r[1]), carry |-> r[2]]
    IN  FoldLeft(LAMBDA acc, i : added(acc, FullAdder(a[i], b[i], acc.carry)),
                 [sum |-> <<>>, carry |-> 0], [i \in DOMAIN a |-> i]).sum

Neg(v) == Add(BitwiseNot(v), BitsToVector(Len(v), 1))

Abs(v) == Select(<<Last(v)>>, <<v, Neg(v)>>, <<>>)

\* Fault: the carry of a half adder is dropped.
AddFrontDropped(cols, c, n) ==
    LET q == cols[c]
        r == IF n = 3 THEN FullAdder(q[1], q[2], q[3]) ELSE HalfAdder(q[1], q[2])
        shorter == [cols EXCEPT ![c] = Append(SubSeq(q, n + 1, Len(q)), r[1])]
    IN  IF n = 3 THEN [shorter EXCEPT ![c + 1] = Append(@, r[2])] ELSE shorter

\* n elements from the front of a column become a sum at its end and a carry
\* at the end of the next column.
AddFront(cols, c, n) ==
    LET q == cols[c]
        added(r) == [cols EXCEPT ![c] = Append(SubSeq(q, n + 1, Len(q)), r[1]),
                                 ![c + 1] = Append(@, r[2])]
    IN  added(IF n = 3 THEN FullAdder(q[1], q[2], q[3]) ELSE HalfAdder(q[1], q[2]))

RECURSIVE ReduceColumn(_, _, _)
ReduceColumn(cols, c, height) ==
    CASE Len(cols[c]) <= height -> cols
      [] Len(cols[c]) = height + 1 -> AddFront(cols, c, 2)
      [] OTHER -> ReduceColumn(AddFront(cols, c, 3), c, height)

\* The sequence of heights: 2, 3, 4, 6, 9, ... up to the first that is enough,
\* and back.
RECURSIVE StartHeight(_, _)
StartHeight(h, size) == IF h >= size THEN h ELSE StartHeight((3 * h) \div 2, size)

RECURSIVE ReduceColumns(_, _)
ReduceColumns(cols, height) ==
    LET next == (2 * height + 2) \div 3
    IN  IF height <= 2
        THEN cols
        ELSE ReduceColumns(FoldLeft(LAMBDA acc, c : ReduceColumn(acc, c, next), cols,
                                    [c \in DOMAIN cols |-> c]), next)

\* The last pass: every column is reduced to one element, its carry pushed on.
RippleColumn(cols, c) ==
    CASE Len(cols[c]) = 0 -> [cols EXCEPT ![c] = <<0>>]
      [] Len(cols[c]) = 1 -> cols
      [] OTHER -> AddFront(cols, c, Len(cols[c]))

\* A Dadda multiplier; the queues of partial products are the columns.
UMul(a, b) ==
    LET n == Len(a) + Len(b)
        column(c) ==
          LET js == SelectSeq([i \in DOMAIN a |-> i], LAMBDA i : c - i + 1 \in DOMAIN b)
          IN  [k \in DOMAIN js |-> And(a[js[k]], b[c - js[k] + 1])]
        size == IF Len(a) > Len(b) THEN Len(a) ELSE Len(b)
        reduced == ReduceColumns([c \in 1 .. n |-> column(c)], StartHeight(2, size))
        rippled == FoldLeft(RippleColumn, reduced, [c \in 1 .. n |-> c])
    IN  [c \in 1 .. n |-> rippled[c][1]]

SMul(a, b) ==
    LET size == IF Len(a) > Len(b) THEN Len(a) ELSE Len(b)
    IN  BitSlice(UMul(SignExtend(a, 2 * size), SignExtend(b, 2 * size)), 0, Len(a) + Len(b))

\* One step of the long division, for the next lower bit of the dividend.
DivideStep(acc, bit, divisor) ==
    LET r == <<bit>> \o acc.r
        next(q) == [q |-> <<q>> \o acc.q,
                    r |-> Front(Select(<<q>>, <<r, Add(r, Neg(divisor))>>, <<>>))]
    IN  next(Not(ULessThan(r, divisor)))

\* Division by zero gives all ones and remainder zero.
UDivMod(n, d) ==
    LET nonzero == <<OrReduce(d)>>
        checked(divided) ==
          [q |-> Select(nonzero, <<Fill(Len(n), 1), divided.q>>, <<>>),
           r |-> Select(nonzero, <<Fill(Len(d), 0), divided.r>>, <<>>)]
    IN  checked(FoldRight(LAMBDA bit, acc : DivideStep(acc, bit, ZeroExtend(d, Len(d) + 1)),
                          n, [q |-> <<>>, r |-> Fill(Len(d), 0)]))

\* The division of the absolute values, with the signs put back; division by
\* zero gives the largest value of the sign of the dividend.
SDivMod(n, d) ==
    LET largest(sign) == [i \in DOMAIN n |-> IF i = Len(n) THEN sign ELSE 1 - sign]
        quotient(u) == Select(<<Xor(Last(n), Last(d))>>, <<u.q, Neg(u.q)>>, <<>>)
        signed(u) ==
          [q |-> Select(<<Last(n), OrReduce(d)>>, <<largest(0), largest(1)>>, <<quotient(u)>>),
           r |-> Select(<<Last(n)>>, <<u.r, Neg(u.r)>>, <<>>)]
    IN  signed(UDivMod(Abs(n), Abs(d)))

----------------------------------------------------------------------------
(* AbstractEvaluate: the vector of a node from those of its operands.       *)

\* A product is cut or extended to the width of the node.
Fit(v, width, signed) ==
    CASE Len(v) >= width -> BitSlice(v, 0, width)
      [] signed -> SignExtend(v, width)
      [] OTHER -> ZeroExtend(v, width)

EvaluateArith(op, width, vs) ==
    CASE op = "add" -> Add(vs[1], vs[2])
      [] op = "sub" -> Add(vs[1], Neg(vs[2]))
      [] op = "neg" -> Neg(vs[1])
      [] op = "umul" -> Fit(UMul(vs[1], vs[2]), width, FALSE)
      [] op = "smul" -> Fit(SMul(vs[1], vs[2]), width, TRUE)
      [] op = "udiv" -> UDivMod(vs[1], vs[2]).q
      [] op = "umod" -> UDivMod(vs[1], vs[2]).r
      [] op = "sdiv" -> SDivMod(vs[1], vs[2]).q
      [] op = "smod" -> SDivMod(vs[1], vs[2]).r

EvaluateCompare(op, a, b) ==
    CASE op = "eq" -> Equals(a, b)
      [] op = "ne" -> Not(Equals(a, b))
      [] op = "ult" -> ULessThan(a, b)
      [] op = "ule" -> Not(ULessThan(b, a))
      [] op = "ugt" -> ULessThan(b, a)
      [] op = "uge" -> Not(ULessThan(a, b))
      [] op = "slt" -> SLessThan(a, b)
      [] op = "sle" -> Not(SLessThan(b, a))
      [] op = "sgt" -> SLessThan(b, a)
      [] op = "sge" -> Not(SLessThan(a, b))

EvaluateLogical(op, vs) ==
    CASE op = "not" -> BitwiseNot(vs[1])
      [] op = "and" -> BitwiseAnd(vs)
      [] op = "or" -> BitwiseOr(vs)
      [] op = "xor" -> BitwiseXor(vs)
      [] op = "nand" -> BitwiseNot(BitwiseAnd(vs))
      [] op = "nor" -> BitwiseNot(BitwiseOr(vs))
      [] op = "and_reduce" -> <<AndReduce(vs[1])>>
      [] op = "or_reduce" -> <<OrReduce(vs[1])>>
      [] op = "xor_reduce" -> <<XorReduce(vs[1])>>

EvaluateShape(op, attr, width, vs) ==
    CASE op = "concat" -> Concat(vs)
      [] op = "bit_slice" -> BitSlice(vs[1], attr, width)
      [] op = "bit_slice_update" -> BitSliceUpdate(vs[1], vs[2], vs[3])
      [] op = "reverse" -> Reverse(vs[1])
      [] op = "sign_ext" -> SignExtend(vs[1], width)
      [] op = "zero_ext" -> ZeroExtend(vs[1], width)
      [] op = "shll" -> ShiftLeftLogical(vs[1], vs[2])
      [] op = "shrl" -> Shift(vs[1], vs[2], TRUE, 0)
      [] op = "shra" -> Shift(vs[1], vs[2], TRUE, Last(vs[1]))
      [] op = "decode" -> Decode(vs[1], width)
      [] op = "encode" -> Encode(vs[1])
      [] op = "one_hot" -> IF attr THEN OneHotLsbToMsb(vs[1]) ELSE OneHotMsbToLsb(vs[1])

\* A select whose selector is a one_hot node cannot have a selector of zero.
EvaluateSelect(op, has_default, one_hot_selector, vs) ==
    LET cases == Tail(vs)
    IN  CASE op = "sel" /\ has_default -> Select(vs[1], Front(cases), <<Last(cases)>>)
          [] op = "sel" /\ ~has_default -> Select(vs[1], cases, <<>>)
          [] op = "one_hot_sel" -> OneHotSelect(vs[1], cases, ~one_hot_selector)
          [] op = "priority_sel" -> PrioritySelect(vs[1], cases, ~one_hot_selector)

\* Everything else goes to the default handler: all bits unknown.
AbstractEvaluate(node, one_hot_selector, vs) ==
    LET width == node.widths[1]
    IN  CASE node.op = "literal" -> BitsToVector(width, node.attr[1])
          [] node.op = "identity" -> vs[1]
          [] node.op \in B!ArithOps -> EvaluateArith(node.op, width, vs)
          [] node.op \in B!CompareOps \union {"eq", "ne"} ->
                <<EvaluateCompare(node.op, vs[1], vs[2])>>
          [] node.op \in B!LogicalOps -> EvaluateLogical(node.op, vs)
          [] node.op \in B!ShapeOps \ {"dynamic_bit_slice"} ->
                EvaluateShape(node.op, node.attr, width, vs)
          [] node.op \in B!SelectOps \ {"gate"} ->
                EvaluateSelect(node.op, node.attr, one_hot_selector, vs)
          [] OTHER -> Fill(width, Unknown)

=============================================================================
