------------------------------ MODULE BitsOps ------------------------------
(***************************************************************************)
(* Values of the IR and what each operation of the IR computes: bits.cc,    *)
(* bits_ops.cc and the handlers of the IR interpreter, the executable       *)
(* semantics of the IR.                                                     *)
(*                                                                         *)
(* A Bits of width w is a number below 2^w.  A value is the sequence of its *)
(* leaves, as in a LeafTypeTree: one for a bits type, one per element for a *)
(* tuple or an array of bits.  The 64-bit word and the BigInt branches of   *)
(* bits_ops.cc compute the same numbers and are not told apart.             *)
(*                                                                         *)
(* A node is a record: op, kind ("bits" or "aggregate"), widths (of its     *)
(* leaves), operands (places of earlier nodes), and attr, the attribute the *)
(* operation has: the value of a literal, the start of a bit_slice, the     *)
(* index of a tuple_index, whether a one_hot gives priority to the lsb or a *)
(* sel has a default.                                                       *)
(***************************************************************************)
EXTENDS Integers, Sequences, SequencesExt, FiniteSetsExt, Bitwise

\* Bits::AllOnes and the mask of a width.
AllOnes(w) == 2^w - 1

\* Bits::MinBitCountUnsigned.
MinBitCountUnsigned(n) == Min({k \in 0 .. n : 2^k > n})

\* Bits::Get and Bits::Slice.
Get(v, i) == (v \div 2^i) % 2

Slice(v, start, w) == (v \div 2^start) % 2^w

\* Bits::ToInt64: the value read as two's complement.
ToInt64(w, v) == IF v >= 2^(w - 1) THEN v - 2^w ELSE v

PopCount(w, v) == MapThenSumSet(LAMBDA i : Get(v, i), 0 .. w - 1)

\* TruncateOrSignExtend and the masking of the 64-bit branches.
Truncate(w, n) == n % 2^w

Add(w, l, r) == Truncate(w, l + r)

Sub(w, l, r) == Truncate(w, l - r)

Negate(w, v) == Truncate(w, -v)

BitsNot(w, v) == AllOnes(w) - v

\* NaryAnd, NaryOr and NaryXor over the operands.
NaryAnd(vs) == FoldLeft(LAMBDA x, y : x & y, vs[1], Tail(vs))

NaryOr(vs) == FoldLeft(LAMBDA x, y : x | y, vs[1], Tail(vs))

NaryXor(vs) == FoldLeft(LAMBDA x, y : x ^^ y, vs[1], Tail(vs))

AndReduce(w, v) == IF v = AllOnes(w) THEN 1 ELSE 0

OrReduce(v) == IF v = 0 THEN 0 ELSE 1

XorReduce(w, v) == PopCount(w, v) % 2

UMul(l, r) == l * r

SMul(lw, l, rw, r) == Truncate(lw + rw, ToInt64(lw, l) * ToInt64(rw, r))

\* BN_div: the quotient is truncated towards zero, the remainder has the sign
\* of the dividend.
BigIntDiv(l, r) ==
    LET q == (IF l < 0 THEN -l ELSE l) \div (IF r < 0 THEN -r ELSE r)
    IN  IF (l < 0) = (r < 0) THEN q ELSE -q

BigIntMod(l, r) == l - r * BigIntDiv(l, r)

\* Division by zero is defined: all ones, or the largest value of the sign of
\* the dividend.
UDiv(w, l, r) == IF r = 0 THEN AllOnes(w) ELSE BigIntDiv(l, r)

UMod(l, r) == IF r = 0 THEN 0 ELSE BigIntMod(l, r)

SDiv(w, l, r) ==
    IF r = 0
    THEN IF ToInt64(w, l) < 0 THEN 2^(w - 1) ELSE AllOnes(w - 1)
    ELSE Truncate(w, BigIntDiv(ToInt64(w, l), ToInt64(w, r)))

SMod(w, l, r) ==
    IF r = 0 THEN 0 ELSE Truncate(w, BigIntMod(ToInt64(w, l), ToInt64(w, r)))

SignExtend(w, v, new_bit_count) == Truncate(new_bit_count, ToInt64(w, v))

\* The first input becomes the most significant bits.
Concat(ws, vs) ==
    FoldLeft(LAMBDA acc, i : acc * 2^ws[i] + vs[i], 0, [i \in DOMAIN vs |-> i])

\* A shift amount is clamped to the width before the shift (callers:
\* ResolveAsBoundedUint64).
Clamp(n, limit) == IF n > limit THEN limit ELSE n

ShiftLeftLogical(w, v, n) == Truncate(w, v * 2^Clamp(n, w))

ShiftRightLogical(w, v, n) == v \div 2^Clamp(n, w)

ShiftRightArith(w, v, n) == Truncate(w, ToInt64(w, v) \div 2^Clamp(n, w))

Reverse_(w, v) == MapThenSumSet(LAMBDA i : Get(v, i) * 2^(w - 1 - i), 0 .. w - 1)

\* BitSliceUpdate: low bits, update, high bits; each slice may be empty.
BitSliceUpdate(w, to_update, start, uw, update_value) ==
    LET u == Clamp(uw, w - start)
    IN  IF start >= w
        THEN to_update
        ELSE Slice(to_update, 0, start) + Slice(update_value, 0, u) * 2^start
               + Slice(to_update, start + u, w - start - u) * 2^(start + u)

----------------------------------------------------------------------------
(* The handlers of IrInterpreter.  ws and vs: the widths and the values of  *)
(* the operands' first leaves, w the width of the result.                   *)

ArithOps == {"add", "sub", "neg", "umul", "smul", "udiv", "umod", "sdiv", "smod"}

\* HandleAdd, HandleSub, HandleNeg, HandleUMul, HandleSMul, HandleUDiv, ...:
\* a product is cut or extended to the width of the node (HandleUMulp and
\* HandleSMulp: the second of two partial products is all of it).
Arith(op, w, ws, vs) ==
    CASE op = "add" -> Add(w, vs[1], vs[2])
      [] op = "sub" -> Sub(w, vs[1], vs[2])
      [] op = "neg" -> Negate(w, vs[1])
      [] op = "umul" -> Truncate(w, UMul(vs[1], vs[2]))
      [] op = "smul" -> LET p == SMul(ws[1], vs[1], ws[2], vs[2])
                        IN  IF w >= ws[1] + ws[2] THEN SignExtend(ws[1] + ws[2], p, w)
                                                  ELSE Slice(p, 0, w)
      [] op = "udiv" -> UDiv(w, vs[1], vs[2])
      [] op = "umod" -> UMod(vs[1], vs[2])
      [] op = "sdiv" -> SDiv(w, vs[1], vs[2])
      [] op = "smod" -> SMod(w, vs[1], vs[2])

CompareOps == {"ult", "ule", "ugt", "uge", "slt", "sle", "sgt", "sge"}

\* HandleULt, HandleULe, HandleUGt, HandleUGe and the signed ones.
Compare(op, w, l, r) ==
    LET x == IF op \in {"slt", "sle", "sgt", "sge"} THEN ToInt64(w, l) ELSE l
        y == IF op \in {"slt", "sle", "sgt", "sge"} THEN ToInt64(w, r) ELSE r
    IN  CASE op \in {"ult", "slt"} -> x < y
          [] op \in {"ule", "sle"} -> x <= y
          [] op \in {"ugt", "sgt"} -> x > y
          [] op \in {"uge", "sge"} -> x >= y

LogicalOps ==
    {"not", "and", "or", "xor", "nand", "nor", "and_reduce", "or_reduce", "xor_reduce"}

\* HandleNot, HandleNaryAnd ... HandleNaryXor, HandleAndReduce ...
Logical(op, w, ws, vs) ==
    CASE op = "not" -> BitsNot(w, vs[1])
      [] op = "and" -> NaryAnd(vs)
      [] op = "or" -> NaryOr(vs)
      [] op = "xor" -> NaryXor(vs)
      [] op = "nand" -> BitsNot(w, NaryAnd(vs))
      [] op = "nor" -> BitsNot(w, NaryOr(vs))
      [] op = "and_reduce" -> AndReduce(ws[1], vs[1])
      [] op = "or_reduce" -> OrReduce(vs[1])
      [] op = "xor_reduce" -> XorReduce(ws[1], vs[1])

ShapeOps ==
    {"concat", "bit_slice", "dynamic_bit_slice", "bit_slice_update", "reverse",
     "sign_ext", "zero_ext", "shll", "shrl", "shra", "decode", "encode", "one_hot"}

\* HandleOneHot: the bit of the first set bit in the order of priority, or
\* the extra msb when there is none.
OneHot(w, v, lsb) ==
    LET set == {i \in 0 .. w - 1 : Get(v, i) = 1}
    IN  IF set = {} THEN 2^w ELSE 2^(IF lsb THEN Min(set) ELSE Max(set))

\* HandleConcat, HandleBitSlice, HandleDynamicBitSlice, ..., HandleOneHot.
Shape(op, attr, w, ws, vs) ==
    CASE op = "concat" -> Concat(ws, vs)
      [] op = "bit_slice" -> Slice(vs[1], attr, w)
      [] op = "dynamic_bit_slice" ->
            IF vs[2] >= ws[1] THEN 0 ELSE Slice(vs[1], vs[2], w)
      [] op = "bit_slice_update" -> BitSliceUpdate(w, vs[1], vs[2], ws[3], vs[3])
      [] op = "reverse" -> Reverse_(w, vs[1])
      [] op = "sign_ext" -> SignExtend(ws[1], vs[1], w)
      [] op = "zero_ext" -> vs[1]
      [] op = "shll" -> ShiftLeftLogical(w, vs[1], vs[2])
      [] op = "shrl" -> ShiftRightLogical(w, vs[1], vs[2])
      [] op = "shra" -> ShiftRightArith(w, vs[1], vs[2])
      [] op = "decode" -> IF vs[1] < w THEN 2^vs[1] ELSE 0
      [] op = "encode" -> FoldLeft(LAMBDA x, i : x | i, 0,
                             SelectSeq([i \in 1 .. ws[1] |-> i - 1],
                                       LAMBDA i : Get(vs[1], i) = 1))
      [] op = "one_hot" -> OneHot(ws[1], vs[1], attr)

SelectOps == {"sel", "one_hot_sel", "priority_sel", "gate"}

Zero(widths) == [i \in DOMAIN widths |-> 0]

\* The number of cases of a sel: its operands but the selector and a default.
NumCases(node) ==
    Len(node.operands) - 1 - (IF node.op = "sel" /\ node.attr THEN 1 ELSE 0)

\* HandleSel, HandleOneHotSel (DeepOr), HandlePrioritySel, HandleGate; s is
\* the selector or condition, cs the values of the other operands.
Selected(node, sw, s, cs) ==
    LET on == {i \in 0 .. sw - 1 : Get(s, i) = 1}
    IN  CASE node.op = "sel" ->
               IF s > NumCases(node) - 1 THEN cs[Len(cs)] ELSE cs[s + 1]
          [] node.op = "one_hot_sel" ->
               [leaf \in DOMAIN node.widths |->
                  FoldSet(LAMBDA i, x : x | cs[i + 1][leaf], 0, on)]
          [] node.op = "priority_sel" ->
               IF on = {} THEN Zero(node.widths) ELSE cs[Min(on) + 1]
          [] node.op = "gate" -> IF s = 1 THEN cs[1] ELSE Zero(node.widths)

AggregateOps ==
    {"tuple", "array", "tuple_index", "array_index", "array_slice", "array_update",
     "array_concat"}

\* HandleTuple, HandleArray, HandleTupleIndex, HandleArrayIndex and
\* HandleArraySlice (an index out of bounds reads the last element),
\* HandleArrayUpdate (one out of bounds changes nothing), HandleArrayConcat.
Aggregate(node, args) ==
    LET a == args[1]
        At(i) == a[Clamp(i, Len(a) - 1) + 1]
    IN  CASE node.op \in {"tuple", "array", "array_concat"} -> FlattenSeq(args)
          [] node.op = "tuple_index" -> <<a[node.attr + 1]>>
          [] node.op = "array_index" -> <<At(args[2][1])>>
          [] node.op = "array_slice" ->
               [i \in DOMAIN node.widths |-> At(Clamp(args[2][1], Len(a) - 1) + i - 1)]
          [] node.op = "array_update" ->
               [i \in DOMAIN a |-> IF i = args[3][1] + 1 THEN args[2][1] ELSE a[i]]

\* The value of a node that is not a parameter, from the widths and the values
\* of its operands.
Evaluate(node, owidths, args) ==
    LET w == node.widths[1]
        ws == [i \in DOMAIN args |-> owidths[i][1]]
        vs == [i \in DOMAIN args |-> args[i][1]]
    IN  CASE node.op = "literal" -> node.attr
          [] node.op = "identity" -> args[1]
          [] node.op = "eq" -> <<IF args[1] = args[2] THEN 1 ELSE 0>>
          [] node.op = "ne" -> <<IF args[1] = args[2] THEN 0 ELSE 1>>
          [] node.op \in {"umulp", "smulp"} ->
                <<0, Arith(IF node.op = "umulp" THEN "umul" ELSE "smul", w, ws, vs)>>
          [] node.op \in ArithOps -> <<Arith(node.op, w, ws, vs)>>
          [] node.op \in CompareOps ->
                <<IF Compare(node.op, ws[1], vs[1], vs[2]) THEN 1 ELSE 0>>
          [] node.op \in LogicalOps -> <<Logical(node.op, w, ws, vs)>>
          [] node.op \in ShapeOps -> <<Shape(node.op, node.attr, w, ws, vs)>>
          [] node.op \in SelectOps -> Selected(node, ws[1], vs[1], Tail(args))
          [] node.op \in AggregateOps -> Aggregate(node, args)

=============================================================================
