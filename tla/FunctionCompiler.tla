-------------------------- MODULE FunctionCompiler --------------------------
(***************************************************************************)
(* A function on its way to a pipeline: it is built, transformations       *)
(* rewire it, common subexpression and dead code elimination run or do not *)
(* run, and it is scheduled.  All of them work on the one node graph, and  *)
(* rely on what the others leave in it.                                    *)
(***************************************************************************)
EXTENDS FunctionPasses, PipelineScheduling

CONSTANTS MaxEdits,         \* how many times the graph is rewired: a bound
          Meaning(_, _)     \* the value of an operation from those of its operands

ASSUME EditsAssumption == MaxEdits \in Nat

VARIABLES phase,            \* "build", "cse", "optimized", "dce", "clean", "schedule"
          edits,
          before            \* what the function computed before the passes

vars == <<irVars, passVars, scheduleVars, phase, edits, before>>

----------------------------------------------------------------------------
(***************************************************************************)
(* What the function computes, and what its side effects are given.        *)
(***************************************************************************)
Values ==
    LET value[k \in 0..MaxNodes] ==
          IF k = 0 THEN [n \in nodes |-> 0]
          ELSE [n \in nodes |->
                  IF op[n] = "param" THEN Meaning("param", <<n>>)
                  ELSE Meaning(op[n], [i \in DOMAIN operands[n] |->
                                          value[k - 1][operands[n][i]]])]
    IN  value[MaxNodes]

Computes ==
    LET value == Values IN
    [result  |-> value[return_value],
     effects |-> {<<n, value[n]>> : n \in {m \in nodes : op[m] \in SideEffecting}}]

\* The order of the operands makes no difference to a commutative operation.
CommutativeOn(Val) ==
    \A o \in Commutative :
        LET places == DOMAIN OperandTypes[o] IN
        \A s \in [places -> Val], p \in [places -> places] :
            IsInjective(p) => Meaning(o, [i \in places |-> s[p[i]]]) = Meaning(o, s)

----------------------------------------------------------------------------
Init ==
    /\ IrInit /\ PassInit /\ ScheduleInit
    /\ phase = "build" /\ edits = 0 /\ before = <<>>

BuildNode ==
    /\ phase = "build"
    /\ \E o \in Ops : \E args \in [DOMAIN OperandTypes[o] -> nodes] : AddNode(o, args)
    /\ UNCHANGED <<passVars, scheduleVars, phase, edits, before>>

BuildReturn ==
    /\ phase = "build" /\ return_value = 0
    /\ \E n \in nodes : Type[op[n]] # 0 /\ set_return_value(n)
    /\ UNCHANGED <<passVars, scheduleVars, phase, edits, before>>

Edit ==
    /\ phase = "build" /\ return_value # 0 /\ edits < MaxEdits
    /\ edits' = edits + 1
    /\ \/ \E n, replacement \in nodes :
            MayReplaceUses(n, replacement) /\ ReplaceUsesWith(n, replacement)
       \/ \E n, new_operand \in nodes : \E i \in DOMAIN operands[n] :
            MayReplaceOperand(n, new_operand) /\ ReplaceOperandNumber(n, i, new_operand)
    /\ UNCHANGED <<passVars, scheduleVars, phase, before>>

RunCse ==
    /\ phase = "build" /\ return_value # 0
    /\ CseStart
    /\ phase' = "cse" /\ before' = Computes
    /\ edits' = 0
    /\ UNCHANGED scheduleVars

SkipCse ==
    /\ phase = "build" /\ return_value # 0
    /\ phase' = "optimized" /\ before' = Computes
    /\ edits' = 0
    /\ UNCHANGED <<irVars, passVars, scheduleVars>>

CseNext ==
    /\ phase = "cse"
    /\ CseStep
    /\ phase' = IF pending' = <<>> THEN "optimized" ELSE "cse"
    /\ UNCHANGED <<scheduleVars, edits, before>>

RunDce ==
    /\ phase = "optimized"
    /\ DceStart
    /\ phase' = IF worklist' = <<>> THEN "clean" ELSE "dce"
    /\ UNCHANGED <<scheduleVars, edits, before>>

DceNext ==
    /\ phase = "dce"
    /\ DceStep
    /\ phase' = IF worklist' = <<>> THEN "clean" ELSE "dce"
    /\ UNCHANGED <<scheduleVars, edits, before>>

Schedule ==
    /\ phase = "clean"
    /\ \E o \in Options : Start(o)
    /\ phase' = "schedule" /\ before' = <<>> /\ kept' = {}
    /\ UNCHANGED <<irVars, pending, worklist, edits>>

ScheduleNext ==
    /\ phase = "schedule"
    /\ Asap \/ Draw \/ Cut \/ TrialEnd
    /\ UNCHANGED <<irVars, passVars, phase, edits, before>>

Finished ==
    /\ status \in {"done", "failed"}
    /\ UNCHANGED vars

Next ==
    \/ BuildNode \/ BuildReturn \/ Edit
    \/ RunCse \/ SkipCse \/ CseNext \/ RunDce \/ DceNext
    \/ Schedule \/ ScheduleNext \/ Finished

Spec == Init /\ [][Next]_vars

----------------------------------------------------------------------------
\* The passes leave what the function returns, and what each operation with a side
\* effect is given, as they were, also halfway through.
MeaningPreserved ==
    phase \in {"cse", "optimized", "dce", "clean"} => Computes = before

\* The operands are the same, in any order if the operation is commutative.
SameOperands(n, m) ==
    LET count(x, k) == Cardinality({i \in DOMAIN operands[k] : operands[k][i] = x}) IN
    \/ operands[n] = operands[m]
    \/ op[n] \in Commutative /\ \A x \in nodes : count(x, n) = count(x, m)

\* One run of each pass is enough.  Of the nodes that common subexpression
\* elimination keeps no two do the same operation on the same operands, also where it
\* finds these equal itself, and of the others none is used any more; dead code
\* elimination then leaves exactly the nodes that the return value or a side effect
\* depends on.
PassesExact ==
    /\ phase = "optimized" /\ kept # {} =>
          /\ \A n, m \in kept : op[n] = op[m] /\ SameOperands(n, m) => n = m
          /\ \A n \in nodes : n \in kept \/ op[n] \in SideEffecting \/ Removable(n)
    /\ phase = "clean" =>
          nodes = DependsOn({return_value} \cup {n \in nodes : op[n] \in SideEffecting})
=============================================================================
