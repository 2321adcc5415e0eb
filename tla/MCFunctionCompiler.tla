------------------------- MODULE MCFunctionCompiler -------------------------
(***************************************************************************)
(* All functions of up to MaxNodes nodes over five operations, and the     *)
(* requests made of the scheduler.                                         *)
(***************************************************************************)
EXTENDS FunctionCompiler

ModelOps == {"param", "literal", "add", "sub", "assert"}
ModelSideEffecting == {"param", "assert"}
ModelCommutative == {"add"}
ModelOperandTypes ==
    [param |-> <<>>, literal |-> <<>>, add |-> <<1, 1>>, sub |-> <<1, 1>>, assert |-> <<1>>]
ModelType  == [param |-> 1, literal |-> 1, add |-> 1, sub |-> 1, assert |-> 0]
ModelDelay == [param |-> 0, literal |-> 0, add |-> 1, sub |-> 2, assert |-> 1]

\* An interpretation that tells apart the terms of this size.
ModelMeaning(o, args) ==
    CASE o = "param"   -> 7^args[1]
      [] o = "literal" -> 1
      [] o = "add"     -> args[1] + args[2]
      [] o = "sub"     -> 3 * args[1] - 11 * args[2]
      [] o = "assert"  -> args[1]

\* On a sample of the integers that it gives.
ASSUME AddCommutes == CommutativeOn({-19, 0, 1, 7, 8, 49})

Ask(s, p, n, c) ==
    [strategy |-> s, clock_period_ps |-> p, pipeline_stages |-> n, percent |-> c]

ModelOptions ==
    { Ask("ASAP", 4, 0, 50), Ask("RANDOM", 3, 3, 0), Ask("MIN_CUT", 2, 4, 0),
      Ask("MIN_CUT", 2, 0, 0), Ask("MIN_CUT", 1, 0, 90), Ask("MIN_CUT", 0, 2, 0),
      Ask("MIN_CUT", 0, 3, 40) }
=============================================================================
