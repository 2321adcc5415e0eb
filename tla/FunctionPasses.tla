--------------------------- MODULE FunctionPasses ---------------------------
(***************************************************************************)
(* Two passes over a function, a step per turn of their loops: common      *)
(* subexpression elimination (xls/passes/cse_pass.cc), which walks a       *)
(* topological sort taken before it changes the graph, and dead code       *)
(* elimination (xls/passes/dce_pass.cc), which works off a list it extends *)
(* from the user sets as it removes nodes.                                 *)
(***************************************************************************)
EXTENDS FunctionIr

VARIABLES pending,          \* cse: what is left of TopoSort(f)
          kept,             \* cse: the nodes in node_buckets
          worklist          \* dce

passVars == <<pending, kept, worklist>>

PassInit == pending = <<>> /\ kept = {} /\ worklist = <<>>

----------------------------------------------------------------------------
\* The ids of args in an order in which none is followed by a smaller one.
SortedById(args) ==
    LET p == CHOOSE p \in [DOMAIN args -> DOMAIN args] :
                /\ IsInjective(p)
                /\ \A i, j \in DOMAIN args : i < j => args[p[i]] <= args[p[j]]
    IN  [i \in DOMAIN args |-> args[p[i]]]

\* Fault: the operands of every operation are sorted, not only of the commutative.
GetOperandsForCseSorted(n) == SortedById(operands[n])

\* The operands of a commutative operation are compared in the order of their ids.
GetOperandsForCse(n) ==
    IF op[n] \in Commutative THEN SortedById(operands[n]) ELSE operands[n]

\* What the bucket lookup and IsDefinitelyEqualTo together find equal to n.
EqualTo(n, others) ==
    {c \in others : op[c] = op[n] /\ GetOperandsForCse(c) = GetOperandsForCse(n)}

CseStart ==
    /\ pending' = TopoSort
    /\ kept' = {}
    /\ UNCHANGED <<irVars, worklist>>

CseSkip(n) ==
    /\ op[n] \in SideEffecting
    /\ UNCHANGED <<irVars, kept>>

CseKeep(n) ==
    /\ op[n] \notin SideEffecting
    /\ EqualTo(n, kept) = {}
    /\ kept' = kept \cup {n}
    /\ UNCHANGED irVars

CseReplace(n) ==
    /\ op[n] \notin SideEffecting
    /\ \E candidate \in EqualTo(n, kept) : ReplaceUsesWith(n, candidate)
    /\ UNCHANGED kept

\* Fault: nodes are visited users first.
CseStepBackwards ==
    /\ pending # <<>>
    /\ LET n == pending[Len(pending)] IN CseSkip(n) \/ CseKeep(n) \/ CseReplace(n)
    /\ pending' = SubSeq(pending, 1, Len(pending) - 1)
    /\ UNCHANGED worklist

CseStep ==
    /\ pending # <<>>
    /\ LET n == Head(pending) IN CseSkip(n) \/ CseKeep(n) \/ CseReplace(n)
    /\ pending' = Tail(pending)
    /\ UNCHANGED worklist

----------------------------------------------------------------------------
is_deletable(n) == ~HasImplicitUse(n) /\ op[n] \notin SideEffecting

DceStart ==
    /\ worklist' = Filter(NodeList, {n \in nodes : users[n] = {} /\ is_deletable(n)})
    /\ UNCHANGED <<irVars, pending, kept>>

\* The operands whose only user goes are the next to go.
DceStep ==
    /\ worklist # <<>>
    /\ LET n    == Head(worklist)
           dead == {o \in nodes : Cardinality(users[o]) = 1 /\ is_deletable(o)}
       IN  /\ worklist' = Tail(worklist) \o Filter(Distinct(operands[n]), dead)
           /\ RemoveNode(n)
    /\ UNCHANGED <<pending, kept>>
=============================================================================
