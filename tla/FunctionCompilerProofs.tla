----------------------- MODULE FunctionCompilerProofs -----------------------
(***************************************************************************)
(* The node graph and the two passes over it, for every set of operations, *)
(* every number of nodes and any number of edits: the users of every node  *)
(* are exactly the nodes it is an operand of, TopoSort sorts the graph,    *)
(* and common subexpression and dead code elimination keep what the        *)
(* function computes and leave nothing for a second run.                   *)
(***************************************************************************)
EXTENDS FunctionCompiler, FunctionIrProofs

----------------------------------------------------------------------------
(***************************************************************************)
(* The invariant of the compiler.  That the users match the operands,      *)
(* which the properties ask for, needs the types, and CSE: a node that met *)
(* itself in the buckets would be replaced by itself and lose its users.   *)
(* So it needs that TopoSort lists no node twice, hence that the graph has *)
(* no cycle, and that needs the order in which CSE visits the nodes: a     *)
(* candidate comes before the node that it replaces, and so before the     *)
(* users of that node.                                                     *)
(***************************************************************************)
\* Every node has as many operands as its operation takes.
ArityInv == \A n \in nodes : Len(operands[n]) = Len(OperandTypes[op[n]])

\* The passes run on a function with a return value, and CSE starts without buckets.
PhaseInv ==
    /\ phase # "build" => return_value \in nodes
    /\ phase = "build" => kept = {}

\* What CSE has to visit comes in an order that operands precede, after all it kept.
VisitsInOrder(rank) ==
    /\ Ranking(rank)
    /\ \A i, j \in DOMAIN pending : i < j => rank[pending[i]] < rank[pending[j]]
    /\ \A k \in kept : \A i \in DOMAIN pending : rank[k] < rank[pending[i]]

\* No two nodes that CSE kept are equal, and what it did not keep is unused.
CseInv ==
    /\ phase = "cse" => pending \in Seq(nodes) /\ \E rank : VisitsInOrder(rank)
    /\ phase \in {"cse", "optimized"} =>
          /\ kept \subseteq nodes
          /\ \A n, m \in kept : op[n] = op[m] /\ GetOperandsForCse(n) = GetOperandsForCse(m) => n = m
    /\ phase = "cse" =>
          \A n \in nodes : \/ n \in kept \cup Range(pending)
                           \/ op[n] \in SideEffecting \/ Removable(n)
    /\ phase = "optimized" /\ kept # {} =>
          \A n \in nodes : n \in kept \/ op[n] \in SideEffecting \/ Removable(n)

\* The nodes that can go.
Dead == {n \in nodes : users[n] = {} /\ is_deletable(n)}

\* The worklist of DCE holds exactly these, each once.
DceInv ==
    /\ phase = "dce" => worklist \in Seq(nodes) /\ IsInjective(worklist) /\ Range(worklist) = Dead
    /\ phase = "clean" => Dead = {}

Inv == GraphInv /\ Acyclic /\ ArityInv /\ PhaseInv /\ CseInv /\ DceInv

----------------------------------------------------------------------------
\* What does not touch the graph leaves all that is said of it.
LEMMA GraphUnchanged ==
    ASSUME UNCHANGED irVars
    PROVE  /\ GraphInv' <=> GraphInv
           /\ Acyclic' <=> Acyclic
           /\ ArityInv' <=> ArityInv
<1>1. UNCHANGED <<nodes, next_id, op, operands, users, return_value>>
  BY DEF irVars
<1>2. GraphInv' <=> GraphInv
  BY <1>1 DEF GraphInv, IrTypeOK, UsersMatchOperands
<1>3. Acyclic' <=> Acyclic
  BY <1>1 DEF Acyclic
<1>4. ArityInv' <=> ArityInv
  BY <1>1 DEF ArityInv
<1> QED BY <1>2, <1>3, <1>4

\* Replacing the uses of a node, as it changes the graph.
LEMMA ReplaceUsesWithFacts ==
    ASSUME GraphInv, NEW n \in nodes, NEW replacement \in nodes, n # replacement,
           ReplaceUsesWith(n, replacement)
    PROVE  /\ nodes' = nodes /\ op' = op
           /\ \A u \in nodes : u \notin users[n] \ {replacement} => operands'[u] = operands[u]
           /\ \A u \in users[n] \ {replacement} :
                 operands'[u] = Substituted(operands[u], n, replacement)
           /\ users'[n] = users[n] \cap {replacement}
           /\ \A m \in nodes : m # n /\ m # replacement => users'[m] = users[m]
           /\ return_value' = IF return_value = n THEN replacement ELSE return_value
<1> DEFINE replaced == users[n] \ {replacement}
<1>1. /\ nodes' = nodes /\ op' = op
      /\ operands' = [u \in Ids |-> IF u \in replaced
                                    THEN Substituted(operands[u], n, replacement)
                                    ELSE operands[u]]
      /\ users' = [[users EXCEPT ![replacement] = @ \cup replaced] EXCEPT ![n] = @ \ replaced]
      /\ return_value' = IF return_value = n THEN replacement ELSE return_value
  BY Zenon DEF ReplaceUsesWith
<1>2. nodes \subseteq Ids /\ users \in [Ids -> SUBSET nodes]
  BY DEF GraphInv, IrTypeOK
<1>3. replaced \subseteq nodes
  BY <1>2, Zenon
<1>4. \A u \in nodes : u \notin replaced => operands'[u] = operands[u]
  BY <1>1, <1>2, Zenon
<1>5. \A u \in replaced : operands'[u] = Substituted(operands[u], n, replacement)
  BY <1>1, <1>2, <1>3, Zenon
<1>6. /\ users'[n] = users[n] \cap {replacement}
      /\ \A m \in nodes : m # n /\ m # replacement => users'[m] = users[m]
  BY <1>1, <1>2, Zenon
<1> QED BY <1>1, <1>4, <1>5, <1>6, Zenon

\* What a user's operands are after the replacement.
LEMMA SubstitutedFacts ==
    ASSUME NEW T, NEW args \in Seq(T), NEW old, NEW new
    PROVE  /\ DOMAIN Substituted(args, old, new) = DOMAIN args
           /\ Len(Substituted(args, old, new)) = Len(args)
           /\ Range(Substituted(args, old, new)) \subseteq (Range(args) \ {old}) \cup {new}
<1>1. Len(args) \in Nat /\ DOMAIN args = 1..Len(args)
  OBVIOUS
<1>2. DOMAIN Substituted(args, old, new) = 1..Len(args)
  BY <1>1 DEF Substituted
<1>3. Len(Substituted(args, old, new)) = Len(args)
  BY <1>1, <1>2
<1>4. Range(Substituted(args, old, new)) \subseteq (Range(args) \ {old}) \cup {new}
  BY DEF Substituted, Range
<1> QED BY <1>1, <1>2, <1>3, <1>4, Zenon

\* A replacement that depends on no user of the node closes no cycle.
LEMMA ReplaceUsesWithSafe ==
    ASSUME GraphInv, Acyclic, ArityInv, NEW n \in nodes, NEW replacement \in nodes,
           MayReplaceUses(n, replacement), ReplaceUsesWith(n, replacement)
    PROVE  GraphInv' /\ Acyclic' /\ ArityInv'
<1> DEFINE replaced == users[n] \ {replacement}
<1>1. n # replacement /\ \A u \in replaced : u \notin DependsOn({replacement})
  BY DEF MayReplaceUses
<1>2. /\ nodes' = nodes /\ op' = op
      /\ \A u \in nodes : u \notin replaced => operands'[u] = operands[u]
      /\ \A u \in replaced : operands'[u] = Substituted(operands[u], n, replacement)
  BY <1>1, ReplaceUsesWithFacts, Zenon
<1>3. replaced \subseteq nodes /\ \A u \in nodes : operands[u] \in Seq(nodes)
  BY GraphFacts, Zenon
<1> HIDE DEF replaced
<1>4. \A u \in replaced : /\ Range(operands'[u]) \subseteq Range(operands[u]) \cup {replacement}
                          /\ Len(operands'[u]) = Len(operands[u])
  <2> TAKE u \in replaced
  <2>1. operands[u] \in Seq(nodes)
    BY <1>3, Zenon
  <2>2. /\ Len(Substituted(operands[u], n, replacement)) = Len(operands[u])
        /\ Range(Substituted(operands[u], n, replacement)) \subseteq (Range(operands[u]) \ {n}) \cup {replacement}
    BY <2>1, SubstitutedFacts
  <2> QED BY <1>2, <2>2, Zenon
<1>5. GraphInv'
  BY <1>1, ReplaceUsesWithKeeps
<1>6. \A u \in nodes : \/ Range(operands'[u]) \subseteq Range(operands[u])
                       \/ /\ u \notin DependsOn({replacement})
                          /\ Range(operands'[u]) \subseteq Range(operands[u]) \cup {replacement}
  BY <1>1, <1>2, <1>4, Zenon
<1>7. Acyclic'
  BY <1>2, <1>6, AcyclicAfterEdit, Zenon
<1>8. ArityInv'
  <2>1. \A u \in nodes : Len(operands'[u]) = Len(operands[u])
    BY <1>2, <1>4
  <2> QED BY <1>2, <2>1, Zenon DEF ArityInv
<1> QED BY <1>5, <1>7, <1>8

\* Nor does an operand that does not depend on the node.
LEMMA ReplaceOperandNumberSafe ==
    ASSUME GraphInv, Acyclic, ArityInv, NEW n \in nodes, NEW new_operand \in nodes,
           NEW i \in DOMAIN operands[n],
           MayReplaceOperand(n, new_operand), ReplaceOperandNumber(n, i, new_operand)
    PROVE  GraphInv' /\ Acyclic' /\ ArityInv'
<1> DEFINE args == [operands[n] EXCEPT ![i] = new_operand]
<1>1. /\ nodes' = nodes /\ op' = op /\ operands' = [operands EXCEPT ![n] = args]
  BY DEF ReplaceOperandNumber
<1>2. nodes \subseteq Ids /\ operands \in [Ids -> Seq(nodes)]
  BY DEF GraphInv, IrTypeOK
<1>3. operands'[n] = args /\ \A u \in nodes : u # n => operands'[u] = operands[u]
  BY <1>1, <1>2, Zenon
<1>4. /\ Len(args) = Len(operands[n])
      /\ Range(args) \subseteq Range(operands[n]) \cup {new_operand}
  <2>1. operands[n] \in Seq(nodes)
    BY <1>2, Zenon
  <2>2. DOMAIN args = DOMAIN operands[n] /\ args \in Seq(nodes)
    BY <2>1
  <2>3. Len(args) = Len(operands[n])
    BY <2>1, <2>2
  <2> QED BY <2>1, <2>2, <2>3, Zenon DEF Range
<1>5. GraphInv'
  BY ReplaceOperandNumberKeeps
<1>6. \A u \in nodes : \/ Range(operands'[u]) \subseteq Range(operands[u])
                       \/ /\ u \notin DependsOn({new_operand})
                          /\ Range(operands'[u]) \subseteq Range(operands[u]) \cup {new_operand}
  <2> HIDE DEF args
  <2> QED BY <1>3, <1>4, Zenon DEF MayReplaceOperand
<1>7. Acyclic'
  BY <1>1, <1>6, AcyclicAfterEdit, Zenon
<1>8. ArityInv'
  <2> HIDE DEF args
  <2>1. \A u \in nodes : Len(operands'[u]) = Len(operands[u])
    BY <1>3, <1>4, Zenon
  <2> QED BY <1>1, <2>1, Zenon DEF ArityInv
<1> QED BY <1>5, <1>7, <1>8, Zenon

\* A new node has the operands of its operation.
LEMMA AddNodeSafe ==
    ASSUME GraphInv, Acyclic, ArityInv, NEW o \in Ops, NEW args, AddNode(o, args)
    PROVE  GraphInv' /\ Acyclic' /\ ArityInv'
<1>1. GraphInv' /\ Acyclic'
  BY AddNodeKeeps, AcyclicAfterAdd, Zenon
<1>2. /\ next_id \in Ids /\ next_id \notin nodes /\ nodes' = nodes \cup {next_id}
      /\ nodes \subseteq Ids /\ args \in Seq(nodes)
      /\ [i \in DOMAIN args |-> Type[op[args[i]]]] = OperandTypes[o]
  BY DEF AddNode, GraphInv, IrTypeOK, Ids
<1>3. /\ operands'[next_id] = args /\ op'[next_id] = o
      /\ \A n \in nodes : operands'[n] = operands[n] /\ op'[n] = op[n]
  BY <1>2, Zenon DEF AddNode, GraphInv, IrTypeOK
<1>4. Len(args) = Len(OperandTypes[o])
  <2>1. DOMAIN args = 1..Len(args) /\ Len(args) \in Nat
    BY <1>2
  <2>2. DOMAIN OperandTypes[o] = DOMAIN args
    BY <1>2, Zenon
  <2>3. OperandTypes[o] \in Seq(Nat)
    BY OpsAssumption
  <2> QED BY <2>1, <2>2, <2>3
<1>5. ArityInv'
  BY <1>2, <1>3, <1>4, Zenon DEF ArityInv
<1> QED BY <1>1, <1>5, Zenon

\* The nodes that stay keep their operands.
LEMMA RemoveNodeSafe ==
    ASSUME GraphInv, Acyclic, ArityInv, NEW n \in nodes, RemoveNode(n)
    PROVE  /\ GraphInv' /\ Acyclic' /\ ArityInv'
           /\ nodes' = nodes \ {n} /\ return_value' = return_value /\ return_value # n
           /\ \A m \in nodes' : /\ operands'[m] = operands[m] /\ op'[m] = op[m]
                                /\ users'[m] = users[m] \ {n}
                                /\ n \notin Range(operands[m])
<1>1. GraphInv' /\ Acyclic'
  BY RemoveNodeKeeps, AcyclicAfterRemove, Zenon
<1>2. nodes' = nodes \ {n} /\ return_value' = return_value /\ return_value # n /\ users[n] = {}
  BY DEF RemoveNode, Removable, HasImplicitUse
<1>3. \A m \in nodes' : operands'[m] = operands[m] /\ op'[m] = op[m]
  BY <1>2 DEF RemoveNode, GraphInv, IrTypeOK
<1>4. ASSUME NEW m \in nodes' PROVE users'[m] = users[m] \ {n}
  <2>1. m \in nodes /\ m \in Ids
    BY <1>2, Zenon DEF GraphInv, IrTypeOK
  <2>2. users'[m] = IF m \in Range(operands[n]) THEN users[m] \ {n} ELSE users[m]
    BY <2>1, Zenon DEF RemoveNode
  <2>3. n \in users[m] <=> m \in Range(operands[n])
    BY <2>1, GraphFacts, Zenon
  <2> QED BY <2>2, <2>3, Zenon
<1>5. \A m \in nodes' : n \notin Range(operands[m])
  BY <1>2, GraphFacts, Zenon
<1>6. ArityInv'
  BY <1>2, <1>3, Zenon DEF ArityInv
<1> QED BY <1>1, <1>2, <1>3, <1>4, <1>5, <1>6, ZenonT(60)

\* A turn of CSE that replaces a node keeps the ranks: the candidate comes before the
\* node, and the node before its users.
LEMMA CseReplaceKeeps ==
    ASSUME Inv, phase = "cse", NEW n \in nodes, op[n] \notin SideEffecting,
           NEW candidate \in kept, ReplaceUsesWith(n, candidate),
           NEW rank, Ranking(rank), \A k \in kept : rank[k] < rank[n]
    PROVE  /\ GraphInv' /\ Acyclic' /\ ArityInv' /\ Ranking(rank)'
           /\ nodes' = nodes /\ op' = op /\ return_value' \in nodes
           /\ \A k \in kept : operands'[k] = operands[k]
           /\ Removable(n)'
           /\ \A m \in nodes \ kept : Removable(m) => Removable(m)'
<1> DEFINE replaced == users[n] \ {candidate}
<1>1. /\ GraphInv /\ Acyclic /\ ArityInv /\ return_value \in nodes
      /\ kept \subseteq nodes /\ candidate \in nodes
  BY DEF Inv, PhaseInv, CseInv
<1>2. rank \in [nodes -> 1..MaxNodes] /\ MaxNodes \in Nat /\ \A m \in nodes : rank[m] \in 1..MaxNodes
  BY <1>1, GraphFacts, Zenon DEF Ranking
<1>3. rank[candidate] < rank[n] /\ candidate # n
  BY <1>1, <1>2, SMTT(60)
<1>4. /\ nodes' = nodes /\ op' = op
      /\ \A u \in nodes : u \notin replaced => operands'[u] = operands[u]
      /\ \A u \in replaced : operands'[u] = Substituted(operands[u], n, candidate)
      /\ users'[n] = users[n] \cap {candidate}
      /\ \A m \in nodes : m # n /\ m # candidate => users'[m] = users[m]
      /\ return_value' = IF return_value = n THEN candidate ELSE return_value
  BY <1>1, <1>3, ReplaceUsesWithFacts, Zenon
<1>5. GraphInv'
  BY <1>1, <1>3, ReplaceUsesWithKeeps, Zenon
<1>6. \A u \in users[n] : u \in nodes /\ rank[n] < rank[u]
  BY <1>1, GraphFacts, Zenon DEF Ranking
<1>7. \A k \in kept : k \notin users[n]
  <2> SUFFICES ASSUME NEW k \in kept, k \in users[n] PROVE FALSE
    BY Zenon
  <2>1. rank[k] < rank[n] /\ rank[n] < rank[k] /\ rank[n] \in Nat /\ rank[k] \in Nat
    BY <1>1, <1>2, <1>6, SMTT(60)
  <2> QED BY <2>1
<1>8. \A k \in kept : operands'[k] = operands[k]
  BY <1>1, <1>4, <1>7, Zenon
<1>9. Ranking(rank)'
  <2>1. ASSUME NEW u \in nodes, NEW o \in Range(operands'[u]) PROVE rank[o] < rank[u]
    <3>1. CASE o \in Range(operands[u])
      BY <3>1, Zenon DEF Ranking
    <3>2. CASE o \notin Range(operands[u])
      <4>1. u \in replaced /\ operands[u] \in Seq(nodes)
        BY <1>1, <1>4, <2>1, <3>2, GraphFacts, ZenonT(60)
      <4>2. Range(Substituted(operands[u], n, candidate)) \subseteq (Range(operands[u]) \ {n}) \cup {candidate}
        BY <4>1, SubstitutedFacts, SMTT(60)
      <4>3. o = candidate
        BY <1>4, <2>1, <3>2, <4>1, <4>2, ZenonT(60)
      <4>4. rank[candidate] < rank[n] /\ rank[n] < rank[u]
        BY <1>3, <1>6, <4>1, Zenon
      <4>5. rank[candidate] \in Nat /\ rank[n] \in Nat /\ rank[u] \in Nat
        BY <1>1, <1>2
      <4> QED BY <4>3, <4>4, <4>5, SMTT(60)
    <3> QED BY <3>1, <3>2, Zenon
  <2> QED BY <1>2, <1>4, <2>1, Zenon DEF Ranking
<1>10. Acyclic'
  <2>1. GraphInv' /\ Ranked' => Acyclic'
    BY RankedAcyclic, PTL
  <2>2. Ranked'
    BY <1>9, Zenon DEF Ranked
  <2> QED BY <1>5, <2>1, <2>2, Zenon
<1>11. ArityInv'
  <2>1. ASSUME NEW u \in nodes PROVE Len(operands'[u]) = Len(operands[u])
    <3>1. operands[u] \in Seq(nodes)
      BY <1>1, GraphFacts, Zenon
    <3>2. Len(Substituted(operands[u], n, candidate)) = Len(operands[u])
      BY <3>1, SubstitutedFacts, Zenon
    <3> QED BY <1>4, <3>2, Zenon
  <2> QED BY <1>1, <1>4, <2>1, Zenon DEF ArityInv
<1>12. Removable(n)'
  <2>1. users'[n] = {}
    BY <1>4, <1>7, Zenon
  <2>2. return_value' # n
    BY <1>3, <1>4, Zenon
  <2> QED BY <2>1, <2>2, Zenon DEF Removable, HasImplicitUse
<1>13. ASSUME NEW m \in nodes \ kept, Removable(m) PROVE Removable(m)'
  <2>1. CASE m = n
    BY <1>12, <2>1, Zenon
  <2>2. CASE m # n
    <3>1. m # candidate /\ users[m] = {} /\ m # return_value
      BY <1>13, Zenon DEF Removable, HasImplicitUse
    <3>2. users'[m] = {} /\ m # return_value'
      BY <1>4, <2>2, <3>1, Zenon
    <3> QED BY <3>2 DEF Removable, HasImplicitUse
  <2> QED BY <2>1, <2>2, Zenon
<1> QED BY <1>1, <1>4, <1>5, <1>8, <1>9, <1>10, <1>11, <1>12, <1>13, ZenonT(60)

\* A turn of CSE.
LEMMA CseNextKeeps ==
    ASSUME Inv, CseNext
    PROVE  Inv'
<1> DEFINE rest == Tail(pending)
<1>1. phase = "cse" /\ phase' \in {"cse", "optimized"} /\ (phase' = "optimized" => pending' = <<>>)
  BY Zenon DEF CseNext
<1>2. /\ GraphInv /\ Acyclic /\ ArityInv /\ return_value \in nodes
      /\ pending \in Seq(nodes) /\ kept \subseteq nodes
      /\ \A k, m \in kept : op[k] = op[m] /\ GetOperandsForCse(k) = GetOperandsForCse(m) => k = m
      /\ \A m \in nodes : m \in kept \cup Range(pending) \/ op[m] \in SideEffecting \/ Removable(m)
  BY <1>1, Zenon DEF Inv, PhaseInv, CseInv
<1>3. PICK rank : VisitsInOrder(rank)
  BY <1>1, Zenon DEF Inv, CseInv
<1>4. pending # <<>> /\ pending' = rest
  BY DEF CseNext, CseStep
<1>5. PICK n : n = Head(pending)
  OBVIOUS
<1>6. CseSkip(n) \/ CseKeep(n) \/ CseReplace(n)
  BY <1>5, Zenon DEF CseNext, CseStep
<1>7. /\ n \in nodes /\ rest \in Seq(nodes) /\ n = pending[1] /\ Range(pending) = {n} \cup Range(rest)
      /\ Len(rest) = Len(pending) - 1 /\ \A i \in 1..Len(pending) - 1 : rest[i] = pending[i + 1]
  BY <1>2, <1>4, <1>5, TailFacts, ZenonT(60)
<1>8. /\ Len(pending) \in Nat /\ Len(pending) >= 1 /\ DOMAIN pending = 1..Len(pending)
      /\ DOMAIN rest = 1..Len(pending) - 1
  BY <1>2, <1>4, <1>7, SMTT(60)
<1> HIDE DEF rest
<1>9. /\ Ranking(rank) /\ \A k \in kept : rank[k] < rank[n]
      /\ \A i \in DOMAIN rest : rank[n] < rank[rest[i]]
      /\ \A k \in kept : \A i \in DOMAIN rest : rank[k] < rank[rest[i]]
      /\ \A i, j \in DOMAIN rest : i < j => rank[rest[i]] < rank[rest[j]]
  <2>1. /\ Ranking(rank)
        /\ \A i, j \in DOMAIN pending : i < j => rank[pending[i]] < rank[pending[j]]
        /\ \A k \in kept : \A i \in DOMAIN pending : rank[k] < rank[pending[i]]
    BY <1>3, Zenon DEF VisitsInOrder
  <2>2. 1 \in DOMAIN pending
    BY <1>8
  <2>3. \A i \in DOMAIN rest : i + 1 \in DOMAIN pending /\ 1 < i + 1 /\ rest[i] = pending[i + 1]
    BY <1>7, <1>8
  <2>4. \A i, j \in DOMAIN rest : i < j => i + 1 < j + 1
    BY <1>8
  <2>5. \A i, j \in DOMAIN rest : i < j => rank[rest[i]] < rank[rest[j]]
    <3> SUFFICES ASSUME NEW i \in DOMAIN rest, NEW j \in DOMAIN rest, i < j
                 PROVE  rank[rest[i]] < rank[rest[j]]
      BY Zenon
    <3>1. rank[pending[i + 1]] < rank[pending[j + 1]]
      BY <2>1, <2>3, <2>4, Zenon
    <3> QED BY <2>3, <3>1, Zenon
  <2>6. \A i \in DOMAIN rest : rank[n] < rank[rest[i]]
    BY <1>7, <2>1, <2>2, <2>3, ZenonT(60)
  <2>7. \A k \in kept : \A i \in DOMAIN rest : rank[k] < rank[rest[i]]
    BY <2>1, <2>3
  <2>8. \A k \in kept : rank[k] < rank[n]
    BY <1>7, <2>1, <2>2, Zenon
  <2> QED BY <2>1, <2>5, <2>6, <2>7, <2>8, ZenonT(60)
\* The three kinds of turn have this in common.
<1>10. ASSUME GraphInv', Acyclic', ArityInv', nodes' = nodes, return_value' \in nodes,
             Ranking(rank)', kept' \subseteq kept \cup {n},
             \A k,
             m \in kept' : op'[k] = op'[m] /\ GetOperandsForCse(k)' = GetOperandsForCse(m)'
                                    => k = m,
             \A m \in nodes : m \in kept' \cup Range(rest) \/ op'[m] \in SideEffecting \/ Removable(m)'
      PROVE  Inv'
  <2>1. VisitsInOrder(rank)'
    <3>1. \A k \in kept' : \A i \in DOMAIN rest : rank[k] < rank[rest[i]]
      BY <1>9, <1>10, Zenon
    <3> QED BY <1>4, <1>9, <1>10, <3>1, ZenonT(60) DEF VisitsInOrder
  <2>2. kept' \subseteq nodes'
    BY <1>2, <1>7, <1>10, Zenon
  <2>3. CseInv'
    <3>1. phase' = "optimized" => Range(rest) = {}
      BY <1>1, <1>4, SMTT(60) DEF Range
    <3>2. pending' \in Seq(nodes') /\ \E r : VisitsInOrder(r)'
      BY <1>4, <1>7, <1>10, <2>1, ZenonT(60)
    <3>3. \A m \in nodes' : m \in kept' \cup Range(pending') \/ op'[m] \in SideEffecting \/ Removable(m)'
      BY <1>4, <1>10
    <3>4. phase' = "optimized" =>
             \A m \in nodes' : m \in kept' \/ op'[m] \in SideEffecting \/ Removable(m)'
      BY <1>4, <3>1, <3>3, Zenon
    <3> QED BY <1>10, <2>2, <3>2, <3>3, <3>4, ZenonT(60) DEF CseInv
  <2>4. PhaseInv' /\ DceInv'
    BY <1>1, <1>10, Zenon DEF PhaseInv, DceInv
  <2> QED BY <1>10, <2>3, <2>4, Zenon DEF Inv
<1>11. CASE CseSkip(n)
  <2>1. UNCHANGED irVars /\ kept' = kept /\ op[n] \in SideEffecting
    BY <1>11 DEF CseSkip
  <2>2. GraphInv' /\ Acyclic' /\ ArityInv'
    BY <1>2, <2>1, GraphUnchanged, SMTT(60)
  <2>3. UNCHANGED <<nodes, op, operands, users, return_value>>
    BY <2>1, SMTT(60) DEF irVars
  <2>4. Ranking(rank)'
    BY <1>9, <2>3, Zenon DEF Ranking
  <2>5. /\ \A m : Removable(m)' <=> Removable(m)
        /\ \A m : GetOperandsForCse(m)' = GetOperandsForCse(m)
    BY <2>3 DEF Removable, HasImplicitUse, GetOperandsForCse
  <2>6. \A k, m \in kept' : op'[k] = op'[m] /\ GetOperandsForCse(k)' = GetOperandsForCse(m)' => k = m
    BY <1>2, <2>1, <2>3, <2>5, ZenonT(60)
  <2>7. \A m \in nodes : m \in kept' \cup Range(rest) \/ op'[m] \in SideEffecting \/ Removable(m)'
    BY <1>2, <1>7, <2>1, <2>3, <2>5, ZenonT(60)
  <2> QED BY <1>2, <1>10, <2>1, <2>2, <2>3, <2>4, <2>6, <2>7, ZenonT(60)
<1>12. CASE CseKeep(n)
  <2>1. UNCHANGED irVars /\ kept' = kept \cup {n} /\ EqualTo(n, kept) = {}
    BY <1>12 DEF CseKeep
  <2>2. GraphInv' /\ Acyclic' /\ ArityInv'
    BY <1>2, <2>1, GraphUnchanged
  <2>3. UNCHANGED <<nodes, op, operands, users, return_value>>
    BY <2>1, Zenon DEF irVars
  <2>4. Ranking(rank)'
    BY <1>9, <2>3, Zenon DEF Ranking
  <2>5. /\ \A m : Removable(m)' <=> Removable(m)
        /\ \A m : GetOperandsForCse(m)' = GetOperandsForCse(m)
    BY <2>3 DEF Removable, HasImplicitUse, GetOperandsForCse
  <2>6. \A k, m \in kept' : op'[k] = op'[m] /\ GetOperandsForCse(k)' = GetOperandsForCse(m)' => k = m
    <3>1. \A k \in kept : ~(op[k] = op[n] /\ GetOperandsForCse(k) = GetOperandsForCse(n))
      BY <2>1, Zenon DEF EqualTo
    <3> QED BY <1>2, <2>1, <2>3, <2>5, <3>1, Zenon
  <2>7. \A m \in nodes : m \in kept' \cup Range(rest) \/ op'[m] \in SideEffecting \/ Removable(m)'
    BY <1>2, <1>7, <2>1, <2>3, <2>5, ZenonT(60)
  <2> QED BY <1>2, <1>10, <2>1, <2>2, <2>3, <2>4, <2>6, <2>7, ZenonT(60)
<1>13. CASE CseReplace(n)
  <2>1. PICK candidate \in EqualTo(n, kept) : ReplaceUsesWith(n, candidate)
    BY <1>13 DEF CseReplace
  <2>2. candidate \in kept /\ op[n] \notin SideEffecting /\ kept' = kept
    BY <1>13 DEF EqualTo, CseReplace
  <2>3. /\ GraphInv' /\ Acyclic' /\ ArityInv' /\ Ranking(rank)'
        /\ nodes' = nodes /\ op' = op /\ return_value' \in nodes
        /\ \A k \in kept : operands'[k] = operands[k]
        /\ Removable(n)'
        /\ \A m \in nodes \ kept : Removable(m) => Removable(m)'
    <3>1. n \in nodes /\ Ranking(rank) /\ \A k \in kept : rank[k] < rank[n]
      BY <1>7, <1>9, Zenon
    <3>2. Inv /\ phase = "cse" /\ ReplaceUsesWith(n, candidate)
      BY <1>1, <2>1, Zenon
    <3> QED BY <2>2, <3>1, <3>2, CseReplaceKeeps, Zenon
  <2>4. \A k \in kept : GetOperandsForCse(k)' = GetOperandsForCse(k)
    BY <2>3, ZenonT(60) DEF GetOperandsForCse
  <2>5. \A k, m \in kept' : op'[k] = op'[m] /\ GetOperandsForCse(k)' = GetOperandsForCse(m)' => k = m
    <3> SUFFICES ASSUME NEW k \in kept, NEW m \in kept, op'[k] = op'[m],
                        GetOperandsForCse(k)' = GetOperandsForCse(m)'
                 PROVE  k = m
      BY <2>2, Zenon
    <3>1. op[k] = op[m] /\ GetOperandsForCse(k) = GetOperandsForCse(m)
      BY <2>3, <2>4, Zenon
    <3> QED BY <1>2, <3>1, Zenon
  <2>6. \A m \in nodes : m \in kept' \cup Range(rest) \/ op'[m] \in SideEffecting \/ Removable(m)'
    <3> TAKE m \in nodes
    <3>1. m \in kept \cup Range(pending) \/ op[m] \in SideEffecting \/ Removable(m)
      BY <1>2, SMTT(60)
    <3>2. m \in Range(pending) => m = n \/ m \in Range(rest)
      BY <1>7, Zenon
    <3>3. m = n => Removable(m)'
      BY <2>3, Zenon
    <3>4. op'[m] = op[m] /\ (m \notin kept /\ Removable(m) => Removable(m)')
      BY <2>3, Zenon
    <3> QED BY <2>2, <3>1, <3>2, <3>3, <3>4, ZenonT(60)
  <2> QED BY <1>2, <1>10, <2>2, <2>3, <2>5, <2>6, ZenonT(60)
<1> QED BY <1>6, <1>11, <1>12, <1>13, Zenon

\* A turn of DCE: an operand that loses its only user is dead from then on.
LEMMA DceNextKeeps ==
    ASSUME Inv, DceNext
    PROVE  Inv'
<1>1. /\ GraphInv /\ Acyclic /\ ArityInv /\ return_value \in nodes
      /\ worklist \in Seq(nodes) /\ IsInjective(worklist) /\ Range(worklist) = Dead
  BY DEF DceNext, Inv, PhaseInv, DceInv
<1>2. PICK n : n = Head(worklist)
  OBVIOUS
<1> DEFINE dead == {o \in nodes : Cardinality(users[o]) = 1 /\ is_deletable(o)}
           args == operands[n]
           each == Distinct(args)
           more == Filter(each, dead)
           rest == Tail(worklist)
<1>3. /\ worklist # <<>> /\ worklist' = rest \o more /\ RemoveNode(n)
      /\ phase' \in {"dce", "clean"} /\ (phase' = "clean" => worklist' = <<>>)
  BY <1>2, Zenon DEF DceNext, DceStep
<1>4. /\ n \in nodes /\ rest \in Seq(nodes) /\ Range(worklist) = {n} \cup Range(rest)
      /\ IsInjective(rest) /\ n \notin Range(rest)
  BY <1>1, <1>2, <1>3, TailFacts, Zenon
<1>5. /\ GraphInv' /\ Acyclic' /\ ArityInv'
      /\ nodes' = nodes \ {n} /\ return_value' = return_value /\ return_value # n
      /\ \A m \in nodes' : /\ operands'[m] = operands[m] /\ op'[m] = op[m]
                           /\ users'[m] = users[m] \ {n}
                           /\ n \notin Range(operands[m])
  BY <1>1, <1>3, <1>4, RemoveNodeSafe, ZenonT(60)
<1>6. operands[n] \in Seq(nodes) /\ n \notin Range(operands[n])
  <2>1. operands[n] \in Seq(nodes)
    BY <1>1, <1>4, GraphFacts, SMTT(60)
  <2>2. users[n] = {}
    BY <1>1, <1>4, Zenon DEF Dead
  <2> QED BY <1>1, <1>4, <2>1, <2>2, GraphFacts, ZenonT(60)
<1>7. each \in Seq(nodes) /\ Range(each) = Range(args) /\ IsInjective(each)
  <2> HIDE DEF args
  <2> QED BY <1>6, DistinctFacts, SMTT(60) DEF args
<1>8. more \in Seq(nodes) /\ Range(more) = Range(args) \cap dead /\ IsInjective(more)
  <2> HIDE DEF each, dead
  <2> QED BY <1>7, FilterFacts, SMTT(60)
<1>9. \A o \in Range(args) : o \in dead <=> o \in nodes /\ users[o] = {n} /\ is_deletable(o)
  <2> SUFFICES ASSUME NEW o \in Range(args), o \in nodes
               PROVE  Cardinality(users[o]) = 1 <=> users[o] = {n}
    BY <1>6 DEF Range
  <2>1. n \in users[o] /\ IsFiniteSet(users[o])
    <3>1. users[o] \in SUBSET nodes /\ IsFiniteSet(nodes) /\ n \in users[o]
      BY <1>1, <1>4, GraphFacts, Zenon
    <3> QED BY <3>1, FS_Subset, ZenonT(60)
  <2>2. ASSUME Cardinality(users[o]) = 1 PROVE users[o] = {n}
    <3>1. \E x : users[o] = {x}
      BY <2>1, <2>2, FS_Singleton, Zenon
    <3> QED BY <2>1, <3>1, SMTT(60)
  <2>3. Cardinality({n}) = 1
    BY FS_Singleton
  <2> QED BY <2>2, <2>3, Zenon
<1> HIDE DEF dead, more, rest, args, each
<1>10. Dead' = Range(rest) \cup Range(more)
  <2>1. \A m \in nodes' : is_deletable(m)' <=> is_deletable(m)
    BY <1>5, SMTT(60) DEF is_deletable, HasImplicitUse
  <2>2. \A m \in nodes' : m \in nodes /\ m # n
    BY <1>5, SMTT(60)
  <2>3. ASSUME NEW m \in Dead' PROVE m \in Range(rest) \cup Range(more)
    <3>1. m \in nodes' /\ users'[m] = {} /\ is_deletable(m)'
      BY <2>3, SMTT(60) DEF Dead
    <3>2. users[m] \subseteq {n} /\ is_deletable(m)
      BY <1>5, <2>1, <3>1, Zenon
    <3>3. CASE users[m] = {}
      <4>1. m \in Dead
        BY <2>2, <3>1, <3>2, <3>3, Zenon DEF Dead
      <4> QED BY <1>1, <1>4, <2>2, <3>1, <4>1, ZenonT(60)
    <3>4. CASE users[m] = {n}
      <4>1. m \in Range(args)
        BY <1>1, <1>4, <2>2, <3>1, <3>4, GraphFacts, ZenonT(60) DEF args
      <4>2. m \in dead
        BY <1>9, <2>2, <3>1, <3>2, <3>4, <4>1, ZenonT(60)
      <4> QED BY <1>8, <4>1, <4>2, Zenon
    <3> QED BY <3>2, <3>3, <3>4, Zenon
  <2>4. ASSUME NEW m \in Range(rest) PROVE m \in Dead'
    <3>1. m \in Dead /\ m # n
      BY <1>1, <1>4, Zenon
    <3>2. m \in nodes' /\ users[m] = {} /\ is_deletable(m)
      BY <1>5, <3>1, SMTT(60) DEF Dead
    <3>3. users'[m] = {} /\ is_deletable(m)'
      BY <1>5, <2>1, <3>2, Zenon
    <3> QED BY <3>2, <3>3, SMTT(60) DEF Dead
  <2>5. ASSUME NEW m \in Range(more) PROVE m \in Dead'
    <3>1. m \in Range(args) /\ m \in nodes /\ users[m] = {n} /\ is_deletable(m)
      BY <1>8, <1>9, Zenon
    <3>2. m \in nodes'
      BY <1>5, <1>6, <3>1, Zenon DEF args
    <3>3. users'[m] = {} /\ is_deletable(m)'
      BY <1>5, <2>1, <3>1, <3>2, Zenon
    <3> QED BY <3>2, <3>3, Zenon DEF Dead
  <2> QED BY <2>3, <2>4, <2>5, Zenon
<1>11. Range(rest) \cap Range(more) = {}
  <2> SUFFICES ASSUME NEW m \in Range(rest), m \in Range(more) PROVE FALSE
    BY SMTT(60)
  <2>1. users[m] = {n}
    BY <1>8, <1>9, SMTT(60)
  <2>2. users[m] = {}
    BY <1>1, <1>4, SMTT(60) DEF Dead
  <2> QED BY <2>1, <2>2, SMTT(60)
<1>12. worklist' \in Seq(nodes) /\ Range(worklist') = Dead' /\ IsInjective(worklist')
  BY <1>3, <1>4, <1>8, <1>10, <1>11, ConcatFacts, SMTT(60)
<1>13. worklist' \in Seq(nodes')
  <2>1. Range(worklist') \subseteq nodes'
    BY <1>12 DEF Dead
  <2> QED BY <1>12, <2>1, SeqOver, Zenon
<1>14. DceInv'
  <2>1. phase' = "clean" => Dead' = {}
    <3>1. worklist' = <<>> => Range(worklist') = {}
      BY SMTT(60) DEF Range
    <3> QED BY <1>3, <1>12, <3>1, Zenon
  <2> QED BY <1>12, <1>13, <2>1, SMTT(60) DEF DceInv
<1>15. PhaseInv' /\ CseInv'
  BY <1>1, <1>3, <1>5, Zenon DEF PhaseInv, CseInv
<1> QED BY <1>5, <1>14, <1>15, Zenon DEF Inv

\* The function that building starts from satisfies the invariant.
LEMMA InitHolds == Init => Inv
<1> SUFFICES ASSUME Init PROVE Inv
  OBVIOUS
<1>1. IrTypeOK
  <2>1. MaxNodes \in Nat /\ "param" \in Ops
    BY OpsAssumption
  <2> QED BY <2>1 DEF Init, IrInit, IrTypeOK, Ids
<1>2. UsersMatchOperands
  BY DEF Init, IrInit, UsersMatchOperands
<1>3. nodes = {} /\ kept = {} /\ phase = "build"
  BY DEF Init, IrInit, PassInit
<1>4. Acyclic
  <2> DEFINE none == [n \in nodes |-> 0]
  <2>1. none \in [nodes -> Nat] /\ \A n \in nodes : \A o \in Range(operands[n]) : none[n] < none[o]
    BY <1>3, SMTT(60)
  <2> HIDE DEF none
  <2> QED BY <2>1, Zenon DEF Acyclic
<1>5. ArityInv /\ PhaseInv /\ CseInv /\ DceInv
  BY <1>3 DEF ArityInv, PhaseInv, CseInv, DceInv
<1> QED BY <1>1, <1>2, <1>4, <1>5, Zenon DEF Inv, GraphInv

\* Every edit, pass step and scheduling step keeps the invariant.
LEMMA NextKeeps ==
    ASSUME Inv, [Next]_vars
    PROVE  Inv'
<1>1. /\ GraphInv /\ Acyclic /\ ArityInv /\ PhaseInv /\ CseInv /\ DceInv
      /\ return_value \in nodes \cup {0}
  BY Zenon DEF Inv, GraphInv, IrTypeOK
<1>2. CASE BuildNode
  <2>1. PICK o \in Ops : \E args \in [DOMAIN OperandTypes[o] -> nodes] : AddNode(o, args)
    BY <1>2 DEF BuildNode
  <2>2. PICK args : AddNode(o, args)
    BY <2>1
  <2>3. GraphInv' /\ Acyclic' /\ ArityInv'
    BY <1>1, <2>2, AddNodeSafe, SMTT(60)
  <2>4. phase' = "build" /\ kept' = {}
    BY <1>1, <1>2, Zenon DEF BuildNode, passVars, PhaseInv
  <2> QED BY <2>3, <2>4, SMTT(60) DEF Inv, PhaseInv, CseInv, DceInv
<1>3. CASE BuildReturn
  <2>1. PICK n \in nodes : set_return_value(n)
    BY <1>3, SMTT(60) DEF BuildReturn
  <2>2. UNCHANGED <<nodes, next_id, op, operands, users>> /\ return_value' \in nodes
    BY <2>1, Zenon DEF set_return_value
  <2>3. GraphInv'
    BY <1>1, <2>2, SMTT(60) DEF GraphInv, IrTypeOK, UsersMatchOperands
  <2>4. Acyclic' /\ ArityInv'
    BY <1>1, <2>2, SMTT(60) DEF Acyclic, ArityInv
  <2>5. phase' = "build" /\ kept' = {}
    BY <1>1, <1>3, Zenon DEF BuildReturn, passVars, PhaseInv
  <2> QED BY <2>3, <2>4, <2>5, Zenon DEF Inv, PhaseInv, CseInv, DceInv
<1>4. CASE Edit
  <2>1. ASSUME NEW n \in nodes, NEW replacement \in nodes,
               MayReplaceUses(n, replacement), ReplaceUsesWith(n, replacement)
        PROVE  GraphInv' /\ Acyclic' /\ ArityInv'
    BY <1>1, <2>1, ReplaceUsesWithSafe, SMTT(60)
  <2>2. ASSUME NEW n \in nodes, NEW new_operand \in nodes, NEW i \in DOMAIN operands[n],
               MayReplaceOperand(n, new_operand), ReplaceOperandNumber(n, i, new_operand)
        PROVE  GraphInv' /\ Acyclic' /\ ArityInv'
    BY <1>1, <2>2, ReplaceOperandNumberSafe, SMTT(60)
  <2>3. GraphInv' /\ Acyclic' /\ ArityInv'
    BY <1>4, <2>1, <2>2, ZenonT(60) DEF Edit
  <2>4. phase' = "build" /\ kept' = {}
    BY <1>1, <1>4, SMTT(60) DEF Edit, passVars, PhaseInv
  <2> QED BY <2>3, <2>4, SMTT(60) DEF Inv, PhaseInv, CseInv, DceInv
<1>5. CASE RunCse
  <2>1. UNCHANGED irVars /\ pending' = TopoSort /\ kept' = {} /\ phase' = "cse" /\ return_value # 0
    BY <1>5 DEF RunCse, CseStart
  <2>2. GraphInv' /\ Acyclic' /\ ArityInv'
    BY <1>1, <2>1, GraphUnchanged, Zenon
  <2>3. UNCHANGED <<nodes, op, operands, users, return_value>>
    BY <2>1, SMTT(60) DEF irVars
  <2>4. PICK rank : Ranking(rank) /\ \A i \in DOMAIN TopoSort : rank[TopoSort[i]] = i
    BY <1>1, PlacesRank, SMTT(60)
  <2>5. TopoSort \in Seq(nodes) /\ Range(TopoSort) = nodes
    BY <1>1, TopoSortOrders, SMTT(60)
  <2>6. VisitsInOrder(rank)'
    <3>1. Ranking(rank)'
      BY <2>3, <2>4, SMTT(60) DEF Ranking
    <3>2. \A i, j \in DOMAIN TopoSort : i < j => rank[TopoSort[i]] < rank[TopoSort[j]]
      BY <2>4, SMTT(60)
    <3> QED BY <2>1, <3>1, <3>2, SMTT(60) DEF VisitsInOrder
  <2>7. CseInv'
    BY <2>1, <2>3, <2>5, <2>6, Zenon DEF CseInv
  <2>8. PhaseInv' /\ DceInv'
    BY <1>1, <2>1, <2>3, SMTT(60) DEF PhaseInv, DceInv
  <2> QED BY <2>2, <2>7, <2>8, SMTT(60) DEF Inv
<1>6. CASE SkipCse
  <2>1. UNCHANGED irVars /\ kept' = {} /\ phase' = "optimized" /\ return_value # 0
    BY <1>1, <1>6, SMTT(60) DEF SkipCse, passVars, PhaseInv
  <2>2. GraphInv' /\ Acyclic' /\ ArityInv'
    BY <1>1, <2>1, GraphUnchanged, Zenon
  <2>3. CseInv' /\ PhaseInv' /\ DceInv'
    BY <1>1, <2>1, SMTT(60) DEF irVars, CseInv, PhaseInv, DceInv
  <2> QED BY <2>2, <2>3, SMTT(60) DEF Inv
<1>7. CASE CseNext
  BY <1>7, CseNextKeeps, SMTT(60)
<1>8. CASE RunDce
  <2>1. /\ UNCHANGED irVars /\ phase' \in {"dce", "clean"} /\ (phase' = "clean" => worklist' = <<>>)
        /\ worklist' = Filter(NodeList, Dead) /\ phase = "optimized"
    BY <1>8, Zenon DEF RunDce, DceStart, Dead
  <2>2. GraphInv' /\ Acyclic' /\ ArityInv'
    BY <1>1, <2>1, GraphUnchanged, SMTT(60)
  <2>3. UNCHANGED <<nodes, op, operands, users, return_value>>
    BY <2>1, SMTT(60) DEF irVars
  <2>4. Dead' = Dead
    BY <2>3 DEF Dead, is_deletable, HasImplicitUse
  <2>5. worklist' \in Seq(nodes) /\ Range(worklist') = nodes \cap Dead /\ IsInjective(worklist')
    <3>1. NodeList \in Seq(nodes) /\ Range(NodeList) = nodes /\ IsInjective(NodeList)
      BY <1>1, NodeListFacts, SMTT(60)
    <3> QED BY <2>1, <3>1, FilterFacts, SMTT(60)
  <2>6. DceInv'
    <3>1. nodes \cap Dead = Dead
      BY DEF Dead
    <3>2. worklist' = <<>> => Range(worklist') = {}
      BY SMTT(60) DEF Range
    <3> QED BY <2>1, <2>3, <2>4, <2>5, <3>1, <3>2, ZenonT(60) DEF DceInv
  <2>7. CseInv' /\ PhaseInv'
    BY <1>1, <2>1, <2>3, Zenon DEF CseInv, PhaseInv
  <2> QED BY <2>2, <2>6, <2>7, SMTT(60) DEF Inv
<1>9. CASE DceNext
  BY <1>9, DceNextKeeps
<1>10. CASE Schedule \/ ScheduleNext
  <2>1. UNCHANGED irVars /\ phase' = "schedule" /\ phase \in {"clean", "schedule"}
    BY <1>10 DEF Schedule, ScheduleNext
  <2>2. GraphInv' /\ Acyclic' /\ ArityInv'
    BY <1>1, <2>1, GraphUnchanged, SMTT(60)
  <2>3. CseInv' /\ PhaseInv' /\ DceInv'
    BY <1>1, <2>1 DEF irVars, CseInv, PhaseInv, DceInv
  <2> QED BY <2>2, <2>3 DEF Inv
<1>11. CASE Finished \/ UNCHANGED vars
  <2>1. UNCHANGED <<irVars, pending, kept, worklist, phase>>
    BY <1>11 DEF Finished, vars, passVars
  <2>2. GraphInv' /\ Acyclic' /\ ArityInv'
    BY <1>1, <2>1, GraphUnchanged, SMTT(60)
  <2>3. UNCHANGED <<nodes, op, operands, users, return_value>>
    BY <2>1, Zenon DEF irVars
  <2>4. PhaseInv' /\ DceInv'
    BY <1>1, <2>1, <2>3, Zenon DEF PhaseInv, DceInv, Dead, is_deletable, HasImplicitUse
  <2>5. CseInv'
    <3>1. \A rank : VisitsInOrder(rank)' <=> VisitsInOrder(rank)
      BY <2>1, <2>3, SMTT(60) DEF VisitsInOrder, Ranking
    <3>2. /\ \A m : Removable(m)' <=> Removable(m)
          /\ \A m : GetOperandsForCse(m)' = GetOperandsForCse(m)
      BY <2>3 DEF Removable, HasImplicitUse, GetOperandsForCse
    <3> QED BY <1>1, <2>1, <2>3, <3>1, <3>2, Zenon DEF CseInv
  <2> QED BY <2>2, <2>4, <2>5, SMTT(60) DEF Inv
<1> QED BY <1>2, <1>3, <1>4, <1>5, <1>6, <1>7, <1>8, <1>9, <1>10, <1>11, ZenonT(60)
           DEF Next

\* The invariant holds throughout.
LEMMA InvHolds == Spec => []Inv
<1>1. Inv /\ [Next]_vars => Inv'
  BY NextKeeps
<1> QED BY <1>1, InitHolds, PTL DEF Spec

\* Whatever edits and passes do to the graph it can be sorted: TopoSort lists every node
\* once and its operands before it, and none of its checks can fail.
THEOREM AlwaysSorts == Spec => []TopoSortSorts
<1>1. Inv => TopoSortSorts
  BY Sorts, SMTT(60) DEF Inv
<1> QED BY <1>1, InvHolds, PTL

\* Through any sequence of edits, CSE replacements and DCE removals the user sets
\* stay in step with the operands.
THEOREM UsersAlwaysMatch == Spec => []UsersMatchOperands
<1>1. Inv => UsersMatchOperands
  BY DEF Inv, GraphInv
<1> QED BY <1>1, InvHolds, PTL

----------------------------------------------------------------------------
(***************************************************************************)
(* What the function computes: Values is the one solution of the equations *)
(* that the operations state.                                              *)
(***************************************************************************)
\* The value of a node from those of its operands.
Eval(n, v) ==
    IF op[n] = "param" THEN Meaning("param", <<n>>)
    ELSE Meaning(op[n], [i \in DOMAIN operands[n] |-> v[operands[n][i]]])

\* Values that agree with every node's operation.
Solves(v) == v = [n \in nodes |-> Eval(n, v)]

\* The value of a node depends on its operands' only.
LEMMA EvalAgrees ==
    ASSUME NEW n, NEW u, NEW v, \A o \in Range(operands[n]) : u[o] = v[o]
    PROVE  Eval(n, u) = Eval(n, v)
<1>1. \A i \in DOMAIN operands[n] : u[operands[n][i]] = v[operands[n][i]]
  BY SMTT(60) DEF Range
<1>2. [i \in DOMAIN operands[n] |-> u[operands[n][i]]]
        = [i \in DOMAIN operands[n] |-> v[operands[n][i]]]
  BY <1>1
<1> QED BY <1>2, ZenonT(60) DEF Eval

\* Values computes such values.
LEMMA ValuesSolve == GraphInv /\ Acyclic => Solves(Values)
<1> SUFFICES ASSUME GraphInv, Acyclic PROVE Solves(Values)
  BY SMTT(60)
<1> DEFINE N == MaxNodes
           zero == [n \in nodes |-> 0]
           Turn(v) == [n \in nodes |-> Eval(n, v)]
           F(M, g) == [k \in 0..M |-> IF k = 0 THEN zero ELSE Turn(g[k - 1])]
           value == CHOOSE g : g = F(N, g)
           S == {M \in 0..N : \E g : g = F(M, g)}
<1>1. N \in Nat
  BY GraphFacts
<1>2. Values = value[N]
  BY Zenon DEF Values, Eval
<1> HIDE DEF zero, Turn, N
<1>3. 0 \in S
  <2> DEFINE g == [k \in 0..0 |-> zero]
  <2>1. g = F(0, g)
    OBVIOUS
  <2>2. 0 \in 0..N
    BY <1>1
  <2> HIDE DEF g
  <2> QED BY <2>1, <2>2, Zenon
<1>4. ASSUME NEW M \in 0..N - 1, M \in S PROVE M + 1 \in S
  <2>1. PICK g : g = F(M, g)
    BY <1>4
  <2> DEFINE h == [k \in 0..M + 1 |-> IF k = M + 1 THEN Turn(g[M]) ELSE g[k]]
  <2>2. M \in Nat /\ M + 1 \in 0..N
    BY <1>1, SMTT(60)
  <2>3. \A k \in 0..M : h[k] = g[k]
    BY <2>2, SMTT(60)
  <2>4. \A k \in 0..M + 1 : h[k] = IF k = 0 THEN zero ELSE Turn(h[k - 1])
    <3> TAKE k \in 0..M + 1
    <3>1. CASE k = 0
      <4>1. 0 \in 0..M
        BY <2>2, SMTT(60)
      <4>2. h[0] = g[0] /\ g[0] = zero
        BY <2>1, <2>3, <4>1, SMTT(60)
      <4> QED BY <3>1, <4>2, SMTT(60)
    <3>2. CASE k = M + 1
      <4>1. k - 1 = M /\ k # 0 /\ M \in 0..M /\ M + 1 \in 0..M + 1
        BY <2>2, <3>2, SMTT(60)
      <4>2. h[M] = g[M] /\ h[M + 1] = Turn(g[M])
        BY <2>3, <4>1, SMTT(60)
      <4> HIDE DEF h
      <4> QED BY <3>2, <4>1, <4>2, SMTT(60)
    <3>3. CASE k # 0 /\ k # M + 1
      <4>1. k \in 0..M /\ k - 1 \in 0..M
        BY <2>2, <3>3, SMTT(60)
      <4>2. h[k] = g[k] /\ h[k - 1] = g[k - 1]
        BY <2>3, <4>1, SMTT(60)
      <4>3. g[k] = Turn(g[k - 1])
        BY <2>1, <3>3, <4>1, SMTT(60)
      <4> HIDE DEF h
      <4> QED BY <3>3, <4>2, <4>3, SMTT(60)
    <3> QED BY <3>1, <3>2, <3>3, SMTT(60)
  <2>5. h = F(M + 1, h)
    <3>1. h = [k \in 0..M + 1 |-> h[k]]
      OBVIOUS
    <3> HIDE DEF h
    <3> QED BY <2>4, <3>1, Zenon
  <2> HIDE DEF h
  <2> QED BY <2>2, <2>5, Zenon
<1> HIDE DEF S
<1>5. \E g : g = F(N, g)
  <2>1. \A k \in 0..N : k \in S
    BY <1>1, <1>3, <1>4, UpTo, Zenon
  <2>2. N \in S
    BY <1>1, <2>1
  <2> QED BY <2>2 DEF S
<1>6. value = F(N, value)
  BY <1>5, Zenon
<1> HIDE DEF value
<1>7. \A k \in 1..N : value[k] = Turn(value[k - 1])
  <2>1. \A k \in 1..N : k \in 0..N /\ k # 0
    BY <1>1
  <2> QED BY <1>6, <2>1, Zenon
<1>8. PICK rank : Ranking(rank)
  BY PlacesRank
<1>9. \A n \in nodes : rank[n] \in 1..N
  BY <1>8 DEF Ranking, N
<1> DEFINE Same(k) == \A n \in nodes : rank[n] <= k => value[k + 1][n] = value[k][n]
           K == {k \in 0..N - 1 : Same(k)}
<1>10. ASSUME N # 0 PROVE Solves(value[N])
  <2>1. 0 \in K
    BY <1>1, <1>9, <1>10, SMTT(60)
  <2>2. ASSUME NEW k \in 0..(N - 1) - 1, k \in K PROVE k + 1 \in K
    <3>1. /\ k + 1 \in 0..N - 1 /\ k + 1 \in 1..N /\ (k + 1) + 1 \in 1..N
          /\ (k + 1) - 1 = k /\ ((k + 1) + 1) - 1 = k + 1
      BY <1>1, SMTT(60)
    <3>2. value[(k + 1) + 1] = Turn(value[k + 1]) /\ value[k + 1] = Turn(value[k])
      BY <1>7, <3>1, SMTT(60)
    <3>3. ASSUME NEW n \in nodes, rank[n] <= k + 1
          PROVE  value[(k + 1) + 1][n] = value[k + 1][n]
      <4>1. \A o \in Range(operands[n]) : value[k + 1][o] = value[k][o]
        <5> TAKE o \in Range(operands[n])
        <5>1. o \in nodes /\ rank[o] < rank[n]
          BY <1>8, GraphFacts, SMTT(60) DEF Ranking
        <5>2. rank[o] <= k
          BY <1>9, <3>3, <5>1, SMTT(60)
        <5> QED BY <2>2, <5>1, <5>2, SMTT(60)
      <4>2. Eval(n, value[k + 1]) = Eval(n, value[k])
        BY <4>1, EvalAgrees, Zenon
      <4> QED BY <3>2, <4>2, SMTT(60) DEF Turn
    <3> QED BY <3>1, <3>3, SMTT(60)
  <2>3. N - 1 \in K
    <3>1. N - 1 \in Nat /\ N - 1 \in 0..N - 1
      BY <1>1, <1>10, SMTT(60)
    <3> HIDE DEF K
    <3>2. \A k \in 0..N - 1 : k \in K
      BY <2>1, <2>2, <3>1, UpTo, SMTT(60)
    <3> QED BY <3>1, <3>2, SMTT(60)
  <2>4. (N - 1) + 1 = N /\ N \in 1..N /\ value[N] = Turn(value[N - 1])
    BY <1>1, <1>7, <1>10, SMTT(60)
  <2>5. ASSUME NEW n \in nodes PROVE Eval(n, value[N - 1]) = Eval(n, value[N])
    <3>1. \A o \in Range(operands[n]) : value[N - 1][o] = value[N][o]
      <4> TAKE o \in Range(operands[n])
      <4>1. o \in nodes /\ rank[o] < rank[n]
        BY <1>8, GraphFacts, SMTT(60) DEF Ranking
      <4>2. rank[o] <= N - 1
        BY <1>1, <1>9, <4>1, SMTT(60)
      <4> QED BY <2>3, <2>4, <4>1, <4>2, SMTT(60)
    <3> QED BY <3>1, EvalAgrees, Zenon
  <2> QED BY <2>4, <2>5 DEF Turn, Solves
<1>11. ASSUME N = 0 PROVE Solves(value[N])
  <2>1. nodes = {}
    BY <1>11, GraphFacts DEF N, Ids
  <2>2. value[N] = zero
    BY <1>6, <1>11
  <2> QED BY <2>1, <2>2, SMTT(60) DEF zero, Solves
<1> QED BY <1>2, <1>10, <1>11, SMTT(60)

\* There is only one choice of such values.
OneSolution == \A u, v : Solves(u) /\ Solves(v) => u = v

\* An acyclic graph leaves no other choice.
LEMMA SolutionUnique == GraphInv /\ Acyclic => OneSolution
<1> SUFFICES ASSUME GraphInv, Acyclic, NEW u, NEW v, Solves(u), Solves(v) PROVE u = v
  BY DEF OneSolution
<1>1. PICK rank : Ranking(rank)
  BY PlacesRank
<1> DEFINE bad == {n \in nodes : u[n] # v[n]}
           T == {rank[n] : n \in bad}
<1>2. \A n \in nodes : u[n] = Eval(n, u) /\ v[n] = Eval(n, v)
  BY SMTT(60) DEF Solves
<1>3. bad = {}
  <2> SUFFICES ASSUME bad # {} PROVE FALSE
    BY SMTT(60)
  <2>1. \A n \in nodes : rank[n] \in Nat
    BY <1>1, OpsAssumption, SMTT(60) DEF Ranking
  <2>2. T \in SUBSET Nat /\ T # {}
    BY <2>1
  <2>3. PICK x \in T : \A y \in T : x <= y
    BY <2>2, Least, Zenon
  <2>4. PICK n \in bad : rank[n] = x
    BY <2>3, SMTT(60)
  <2>5. \A o \in Range(operands[n]) : u[o] = v[o]
    <3> SUFFICES ASSUME NEW o \in Range(operands[n]), u[o] # v[o] PROVE FALSE
      BY Zenon
    <3>1. o \in nodes /\ rank[o] < rank[n]
      BY <1>1, GraphFacts, SMTT(60) DEF Ranking
    <3>2. rank[o] \in T
      BY <3>1, Zenon
    <3>3. rank[n] <= rank[o] /\ rank[o] \in Nat /\ rank[n] \in Nat
      BY <2>1, <2>3, <2>4, <3>1, <3>2, SMTT(60)
    <3> HIDE DEF T
    <3> QED BY <3>1, <3>3, SMTT(60)
  <2>6. Eval(n, u) = Eval(n, v)
    BY <2>5, EvalAgrees, Zenon
  <2> QED BY <1>2, <2>6
<1>4. \A n \in nodes : u[n] = v[n]
  BY <1>3
<1>5. u = [n \in nodes |-> u[n]] /\ v = [n \in nodes |-> v[n]]
  BY <1>2, ZenonT(60) DEF Solves
<1> QED BY <1>4, <1>5

----------------------------------------------------------------------------
(***************************************************************************)
(* The passes are exact, and they keep what the function computes.         *)
(***************************************************************************)
\* Two nodes that do the same on the same operands compare equal in CSE, whatever order
\* a commutative operation has them in.
LEMMA SameForCse ==
    ASSUME GraphInv, ArityInv, NEW n \in nodes, NEW m \in nodes, op[n] = op[m],
           SameOperands(n, m)
    PROVE  GetOperandsForCse(n) = GetOperandsForCse(m)
<1>1. CASE operands[n] = operands[m]
  BY <1>1 DEF GetOperandsForCse
<1>2. CASE op[n] \in Commutative /\ operands[n] # operands[m]
  <2> DEFINE a == operands[n]
             b == operands[m]
             N == Len(a)
  <2>1. /\ a \in Seq(nodes) /\ b \in Seq(nodes) /\ Range(a) \cup Range(b) \subseteq nodes
        /\ nodes \subseteq Nat
    BY GraphFacts, SMTT(60) DEF Ids
  <2>2. Len(b) = N /\ N \in Nat /\ DOMAIN a = 1..N /\ DOMAIN b = 1..N
    <3>1. Len(b) = N
      BY Zenon DEF ArityInv
    <3> HIDE DEF a, b
    <3> QED BY <2>1, <3>1
  <2>3. a \in [1..N -> Nat] /\ b \in [1..N -> Nat] /\ a \in Seq(Nat) /\ b \in Seq(Nat)
    <3>1. Range(a) \subseteq Nat /\ Range(b) \subseteq Nat
      BY <2>1, Zenon
    <3>2. a \in Seq(Nat) /\ b \in Seq(Nat)
      BY <2>1, <3>1, SeqOver
    <3> HIDE DEF a, b
    <3> QED BY <2>2, <3>2
  <2>4. SameCounts(N, a, b)
    <3>1. \A x \in nodes : Cardinality({i \in DOMAIN a : a[i] = x})
                             = Cardinality({i \in DOMAIN b : b[i] = x})
      BY <1>2, Zenon DEF SameOperands
    <3> HIDE DEF a, b, N
    <3> QED BY <2>1, <2>2, <3>1, Zenon DEF Count, SameCounts
  <2>5. GetOperandsForCse(n) = SortedById(a) /\ GetOperandsForCse(m) = SortedById(b)
    BY <1>2, SMTT(60) DEF GetOperandsForCse
  <2> HIDE DEF a, b, N
  <2>6. SortedById(a) = SortedById(b)
    BY <2>2, <2>3, <2>4, SortedByCounts, Zenon
  <2> QED BY <2>5, <2>6, SMTT(60)
<1> QED BY <1>1, <1>2, SMTT(60) DEF SameOperands

\* When nothing is dead, every node is needed by the return value or a side effect.
LEMMA AllNeeded ==
    ASSUME GraphInv, Acyclic, return_value \in nodes, Dead = {}
    PROVE  nodes = DependsOn({return_value} \cup {n \in nodes : op[n] \in SideEffecting})
<1> DEFINE roots == {return_value} \cup {n \in nodes : op[n] \in SideEffecting}
           D == DependsOn(roots)
<1>1. roots \in SUBSET nodes
  BY SMTT(60)
<1> HIDE DEF roots
<1>2. D \subseteq nodes /\ roots \subseteq D /\ \A n \in D : Range(operands[n]) \subseteq D
  BY <1>1, DependsOnFacts, SMTT(60)
<1> HIDE DEF D
<1>3. PICK height \in [nodes -> Nat] :
          \A n \in nodes : \A o \in Range(operands[n]) : height[n] < height[o]
  BY SMTT(60) DEF Acyclic
<1> DEFINE T == {height[n] : n \in nodes \ D}
<1>4. ASSUME nodes \ D # {} PROVE FALSE
  <2>1. T \in SUBSET Nat /\ T # {}
    BY <1>4
  <2>2. PICK x \in T : \A y \in T : x <= y
    BY <2>1, Least, Zenon
  <2>3. PICK n \in nodes \ D : height[n] = x
    BY <2>2
  <2>4. n \notin roots
    BY <1>2, <2>3, SMTT(60)
  <2>5. is_deletable(n)
    BY <2>3, <2>4, SMTT(60) DEF roots, is_deletable, HasImplicitUse
  <2>6. users[n] # {}
    BY <2>3, <2>5, SMTT(60) DEF Dead
  <2>7. PICK u \in users[n] : TRUE
    BY <2>6, Zenon
  <2>8. u \in nodes /\ n \in Range(operands[u])
    BY <2>3, <2>7, GraphFacts, SMTT(60)
  <2>9. height[u] < height[n] /\ height[u] \in Nat /\ height[n] \in Nat
    BY <1>3, <2>3, <2>8, Zenon
  <2>10. u \notin D
    BY <1>2, <2>3, <2>8, Zenon
  <2>11. height[n] <= height[u]
    BY <2>2, <2>3, <2>8, <2>10, ZenonT(60)
  <2> QED BY <2>9, <2>11, SMTT(60)
<1>5. nodes = D
  BY <1>2, <1>4
<1> QED BY <1>5 DEF D, roots

\* One run of CSE leaves no two nodes that do the same operation on the same operands,
\* in any order if it is commutative, and one run of DCE after it leaves exactly what
\* the return value and the side effects depend on.
THEOREM PassesAreExact == Spec => []PassesExact
<1>1. Inv => PassesExact
  <2> SUFFICES ASSUME Inv PROVE PassesExact
    OBVIOUS
  <2>1. GraphInv /\ Acyclic /\ ArityInv /\ PhaseInv /\ CseInv /\ DceInv
    BY DEF Inv
  <2>2. ASSUME phase = "optimized", kept # {}
        PROVE  /\ \A n, m \in kept : op[n] = op[m] /\ SameOperands(n, m) => n = m
               /\ \A n \in nodes : n \in kept \/ op[n] \in SideEffecting \/ Removable(n)
    <3>1. /\ kept \subseteq nodes
          /\ \A n, m \in kept : op[n] = op[m] /\ GetOperandsForCse(n) = GetOperandsForCse(m) => n = m
          /\ \A n \in nodes : n \in kept \/ op[n] \in SideEffecting \/ Removable(n)
      BY <2>1, <2>2, SMTT(60) DEF CseInv
    <3>2. ASSUME NEW n \in kept, NEW m \in kept, op[n] = op[m], SameOperands(n, m) PROVE n = m
      <4>1. GetOperandsForCse(n) = GetOperandsForCse(m)
        BY <2>1, <3>1, <3>2, SameForCse, SMTT(60)
      <4> QED BY <3>1, <3>2, <4>1, SMTT(60)
    <3> QED BY <3>1, <3>2, Zenon
  <2>3. ASSUME phase = "clean"
        PROVE  nodes = DependsOn({return_value} \cup {n \in nodes : op[n] \in SideEffecting})
    <3>1. return_value \in nodes /\ Dead = {}
      BY <2>1, <2>3, Zenon DEF PhaseInv, DceInv
    <3> QED BY <2>1, <3>1, AllNeeded, SMTT(60)
  <2> QED BY <2>2, <2>3 DEF PassesExact
<1> QED BY <1>1, InvHolds, PTL

\* What a proof needs of the operations' meanings: they stay among the values Val, and
\* there a commutative one does not tell apart the orders of its operands.
Meanings(Val) ==
    /\ \A n \in Ids : Meaning("param", <<n>>) \in Val
    /\ \A o \in Ops \ {"param"} : \A s \in [DOMAIN OperandTypes[o] -> Val] : Meaning(o, s) \in Val
    /\ CommutativeOn(Val)

\* The values that the operands of a node are given.
LEMMA GivenValues ==
    ASSUME GraphInv, ArityInv, NEW n \in nodes, NEW Val, NEW v,
           \A o \in Range(operands[n]) : v[o] \in Val
    PROVE  /\ DOMAIN operands[n] = DOMAIN OperandTypes[op[n]]
           /\ [i \in DOMAIN operands[n] |-> v[operands[n][i]]] \in [DOMAIN OperandTypes[op[n]] -> Val]
<1>1. operands[n] \in Seq(nodes) /\ op[n] \in Ops
  BY GraphFacts, Zenon DEF GraphInv, IrTypeOK
<1>2. OperandTypes[op[n]] \in Seq(Nat)
  BY <1>1, OpsAssumption, SMTT(60)
<1>3. DOMAIN operands[n] = DOMAIN OperandTypes[op[n]]
  BY <1>1, <1>2, SMTT(60) DEF ArityInv
<1>4. \A i \in DOMAIN operands[n] : v[operands[n][i]] \in Val
  BY DEF Range
<1> QED BY <1>3, <1>4, SMTT(60)

\* All that the function computes is among the values.
LEMMA ValuesTyped ==
    ASSUME GraphInv, Acyclic, ArityInv, NEW Val, Meanings(Val), NEW v, Solves(v)
    PROVE  \A n \in nodes : v[n] \in Val
<1>1. PICK rank : Ranking(rank)
  BY PlacesRank
<1> DEFINE bad == {n \in nodes : v[n] \notin Val}
           T == {rank[n] : n \in bad}
<1>2. ASSUME bad # {} PROVE FALSE
  <2>1. \A n \in nodes : rank[n] \in Nat
    BY <1>1, OpsAssumption, SMTT(60) DEF Ranking
  <2>2. T \in SUBSET Nat /\ T # {}
    BY <1>2, <2>1
  <2>3. PICK x \in T : \A y \in T : x <= y
    BY <2>2, Least, Zenon
  <2>4. PICK n \in bad : rank[n] = x
    BY <2>3, SMTT(60)
  <2>5. ASSUME NEW o \in Range(operands[n]) PROVE v[o] \in Val
    <3>1. o \in nodes /\ rank[o] < rank[n] /\ rank[o] \in Nat /\ rank[n] \in Nat
      BY <1>1, <2>1, <2>4, GraphFacts, Zenon DEF Ranking
    <3>2. v[o] \notin Val => rank[n] <= rank[o]
      BY <2>3, <2>4, <3>1, SMTT(60)
    <3> QED BY <3>1, <3>2, SMTT(60)
  <2>6. n \in nodes /\ v[n] = Eval(n, v) /\ v[n] \notin Val /\ n \in Ids /\ op[n] \in Ops
    BY <2>4, SMTT(60) DEF Solves, GraphInv, IrTypeOK
  <2>7. [i \in DOMAIN operands[n] |-> v[operands[n][i]]] \in [DOMAIN OperandTypes[op[n]] -> Val]
    BY <2>5, <2>6, GivenValues, ZenonT(60)
  <2> QED BY <2>6, <2>7, Zenon DEF Eval, Meanings
<1> QED BY <1>2, SMTT(60)

\* Nodes that compare equal in CSE have the same value.
LEMMA EqualMeansSame ==
    ASSUME GraphInv, Acyclic, ArityInv, NEW Val, Meanings(Val), NEW v, Solves(v),
           NEW n \in nodes, NEW m \in nodes, op[n] = op[m], op[n] # "param",
           GetOperandsForCse(n) = GetOperandsForCse(m)
    PROVE  v[n] = v[m]
<1> DEFINE o == op[n]
           places == DOMAIN OperandTypes[o]
           Given(k) == [i \in DOMAIN operands[k] |-> v[operands[k][i]]]
<1>1. v[n] = Meaning(o, Given(n)) /\ v[m] = Meaning(o, Given(m))
  <2>1. v[n] = Eval(n, v) /\ v[m] = Eval(m, v)
    BY Zenon DEF Solves
  <2> QED BY <2>1, Zenon DEF Eval
<1>2. CASE o \notin Commutative
  <2>1. operands[n] = operands[m]
    BY <1>2, Zenon DEF GetOperandsForCse
  <2> QED BY <1>1, <2>1, SMTT(60)
<1>3. CASE o \in Commutative
  \* The sorted operands give the same value as the operands.
  <2>1. ASSUME NEW k \in nodes, op[k] = o
        PROVE  LET s == SortedById(operands[k])
               IN  Meaning(o, [i \in DOMAIN s |-> v[s[i]]]) = Meaning(o, Given(k))
    <3> DEFINE a == operands[k]
               w == Given(k)
    <3>1. a \in Seq(nodes) /\ Range(a) \subseteq nodes /\ nodes \subseteq Nat
      BY GraphFacts, SMTT(60) DEF Ids
    <3>2. \A x \in Range(a) : v[x] \in Val
      BY <3>1, ValuesTyped, ZenonT(60)
    <3>3. DOMAIN a = places /\ w \in [places -> Val]
      BY <2>1, <3>2, GivenValues
    <3>4. a \in Seq(Nat)
      <4>1. Range(a) \subseteq Nat
        BY <3>1, Zenon
      <4> QED BY <3>1, <4>1, SeqOver, SMTT(60)
    <3>5. PICK p : PutsInOrder(a, p) /\ SortedById(a) = [i \in DOMAIN a |-> a[p[i]]]
      BY <3>4, SortedByIdFacts, Zenon
    <3>6. p \in [places -> places] /\ IsInjective(p)
      BY <3>3, <3>5 DEF PutsInOrder
    <3>7. Meaning(o, [i \in places |-> w[p[i]]]) = Meaning(o, w)
      <4> HIDE DEF w
      <4> QED BY <1>3, <3>3, <3>6, ZenonT(60) DEF Meanings, CommutativeOn
    <3> DEFINE s == SortedById(a)
    <3>8. DOMAIN s = places /\ \A i \in places : v[s[i]] = w[p[i]]
      BY <3>3, <3>5, <3>6, ZenonT(60)
    <3> HIDE DEF s, w
    <3>9. [i \in DOMAIN s |-> v[s[i]]] = [i \in places |-> w[p[i]]]
      BY <3>8, ZenonT(60)
    <3> QED BY <3>7, <3>9, ZenonT(60) DEF s, w
  <2>2. SortedById(operands[n]) = SortedById(operands[m])
    BY <1>3 DEF GetOperandsForCse
  <2> HIDE DEF Given, o
  <2>3. Meaning(o, Given(n)) = Meaning(o, Given(m))
    BY <2>1, <2>2, Zenon DEF o
  <2> QED BY <1>1, <2>3, SMTT(60)
<1> QED BY <1>2, <1>3, SMTT(60)

\* The values after a step are those that agree with the operations then.
LEMMA ValuesAfter ==
    ASSUME GraphInv', Acyclic', NEW v, v = [n \in nodes' |-> Eval(n, v)']
    PROVE  Values' = v
<1>1. Solves(Values)'
  BY ValuesSolve, PTL
<1>2. OneSolution'
  BY SolutionUnique, PTL
<1>3. Solves(v)'
  BY DEF Solves
<1> QED BY <1>1, <1>2, <1>3, SMTT(60) DEF OneSolution

\* The values, as a function of the nodes.
LEMMA ValuesFacts ==
    ASSUME GraphInv, Acyclic
    PROVE  \E v : v = Values /\ Solves(v) /\ v = [n \in nodes |-> v[n]]
                  /\ \A n \in nodes : v[n] = Eval(n, v)
<1>1. PICK v : v = Values
  OBVIOUS
<1>2. Solves(v)
  BY <1>1, ValuesSolve, SMTT(60)
<1>3. v = [n \in nodes |-> Eval(n, v)]
  BY <1>2 DEF Solves
<1>4. \A n \in nodes : v[n] = Eval(n, v)
  BY <1>3
<1>5. v = [n \in nodes |-> v[n]]
  BY <1>3, SMTT(60)
<1> QED BY <1>1, <1>2, <1>4, <1>5, ZenonT(60)

\* A step that leaves the graph leaves what it computes.
LEMMA ComputesUnchanged ==
    ASSUME GraphInv, Acyclic, UNCHANGED irVars
    PROVE  Computes' = Computes
<1>1. UNCHANGED <<nodes, op, operands, return_value>> /\ GraphInv' /\ Acyclic'
  BY GraphUnchanged, SMTT(60) DEF irVars
<1>2. PICK v : v = Values /\ Solves(v) /\ v = [n \in nodes |-> v[n]]
               /\ \A n \in nodes : v[n] = Eval(n, v)
  BY ValuesFacts
<1>3. \A n : Eval(n, v)' = Eval(n, v)
  BY <1>1, Zenon DEF Eval
<1>4. v = [n \in nodes' |-> Eval(n, v)']
  BY <1>1, <1>2, <1>3, SMTT(60)
<1>5. Values' = v
  BY <1>1, <1>4, ValuesAfter, SMTT(60)
<1> QED BY <1>1, <1>2, <1>5, Zenon DEF Computes

\* Replacing a node by one of the same value leaves what the function computes.
LEMMA ComputesAfterReplace ==
    ASSUME GraphInv, Acyclic, GraphInv', Acyclic', NEW n \in nodes, NEW candidate \in nodes,
           n # candidate, ReplaceUsesWith(n, candidate), Values[n] = Values[candidate],
           return_value \in nodes
    PROVE  Computes' = Computes
<1> DEFINE replaced == users[n] \ {candidate}
<1>1. /\ nodes' = nodes /\ op' = op
      /\ \A u \in nodes : u \notin replaced => operands'[u] = operands[u]
      /\ \A u \in replaced : operands'[u] = Substituted(operands[u], n, candidate)
      /\ return_value' = IF return_value = n THEN candidate ELSE return_value
  BY ReplaceUsesWithFacts
<1>2. PICK v : v = Values /\ Solves(v) /\ v = [m \in nodes |-> v[m]]
               /\ \A m \in nodes : v[m] = Eval(m, v)
  BY ValuesFacts
<1>3. v[n] = v[candidate]
  BY <1>2, Zenon
<1>4. ASSUME NEW u \in nodes PROVE Eval(u, v)' = Eval(u, v)
  <2>1. CASE operands'[u] = operands[u]
    BY <1>1, <2>1, Zenon DEF Eval
  <2>2. CASE operands'[u] = Substituted(operands[u], n, candidate)
    <3>1. DOMAIN operands'[u] = DOMAIN operands[u]
      BY <2>2, SMTT(60) DEF Substituted
    <3>2. \A i \in DOMAIN operands[u] : v[operands'[u][i]] = v[operands[u][i]]
      BY <1>3, <2>2, SMTT(60) DEF Substituted
    <3>3. [i \in DOMAIN operands'[u] |-> v[operands'[u][i]]]
            = [i \in DOMAIN operands[u] |-> v[operands[u][i]]]
      BY <3>1, <3>2, SMTT(60)
    <3> QED BY <1>1, <3>3, ZenonT(60) DEF Eval
  <2> QED BY <1>1, <2>1, <2>2, SMTT(60)
<1>5. v = [u \in nodes' |-> Eval(u, v)']
  BY <1>1, <1>2, <1>4, SMTT(60)
<1>6. Values' = v
  BY <1>5, ValuesAfter, Zenon
<1>7. v[return_value'] = v[return_value]
  BY <1>1, <1>3
<1> QED BY <1>1, <1>2, <1>6, <1>7, Zenon DEF Computes

\* Removing a node that nobody uses and that has no side effect leaves it too.
LEMMA ComputesAfterRemove ==
    ASSUME GraphInv, Acyclic, ArityInv, NEW n \in nodes, RemoveNode(n), op[n] \notin SideEffecting,
           return_value \in nodes
    PROVE  Computes' = Computes
<1>1. /\ GraphInv' /\ Acyclic'
      /\ nodes' = nodes \ {n} /\ return_value' = return_value /\ return_value # n
      /\ \A m \in nodes' : /\ operands'[m] = operands[m] /\ op'[m] = op[m]
                           /\ n \notin Range(operands[m])
  BY RemoveNodeSafe, SMTT(60)
<1>2. PICK v : v = Values /\ Solves(v) /\ v = [m \in nodes |-> v[m]]
               /\ \A m \in nodes : v[m] = Eval(m, v)
  BY ValuesFacts, SMTT(60)
<1>3. PICK w : w = [m \in nodes \ {n} |-> v[m]]
  BY ZenonT(60)
<1>4. \A m \in nodes : m # n => w[m] = v[m]
  BY <1>3
<1>5. ASSUME NEW m \in nodes' PROVE Eval(m, w)' = w[m]
  <2>1. m \in nodes /\ m # n /\ w[m] = v[m] /\ v[m] = Eval(m, v)
    BY <1>1, <1>2, <1>4, Zenon
  <2>2. \A o \in Range(operands[m]) : w[o] = v[o]
    BY <1>1, <1>4, <2>1, GraphFacts, SMTT(60)
  <2>3. Eval(m, w) = Eval(m, v)
    BY <2>2, EvalAgrees, Zenon
  <2>4. Eval(m, w)' = Eval(m, w)
    BY <1>1, Zenon DEF Eval
  <2> QED BY <2>1, <2>3, <2>4
<1>6. w = [m \in nodes' |-> Eval(m, w)']
  <2>1. w = [m \in nodes' |-> w[m]]
    BY <1>1, <1>3, SMTT(60)
  <2> QED BY <1>5, <2>1, Zenon
<1>7. Values' = w
  BY <1>1, <1>6, ValuesAfter, ZenonT(60)
<1>8. w[return_value'] = v[return_value]
  BY <1>1, <1>4
<1>9. {<<m, w[m]>> : m \in {k \in nodes' : op'[k] \in SideEffecting}}
        = {<<m, v[m]>> : m \in {k \in nodes : op[k] \in SideEffecting}}
  <2>1. {k \in nodes' : op'[k] \in SideEffecting} = {k \in nodes : op[k] \in SideEffecting}
    BY <1>1, Zenon
  <2>2. \A m \in {k \in nodes : op[k] \in SideEffecting} : w[m] = v[m]
    BY <1>4, SMTT(60)
  <2> QED BY <2>1, <2>2, Zenon
<1> QED BY <1>2, <1>7, <1>8, <1>9, ZenonT(60) DEF Computes

\* Every step of a pass leaves what the function computes.
LEMMA PassesKeep ==
    ASSUME NEW Val, Meanings(Val), Inv, MeaningPreserved, [Next]_vars
    PROVE  MeaningPreserved'
<1>1. GraphInv /\ Acyclic /\ ArityInv /\ PhaseInv /\ CseInv /\ DceInv
  BY DEF Inv
<1>2. GraphInv' /\ Acyclic'
  BY NextKeeps, SMTT(60) DEF Inv
<1>3. CASE BuildNode \/ BuildReturn \/ Edit
  <2>1. phase' = "build"
    BY <1>3, SMTT(60) DEF BuildNode, BuildReturn, Edit
  <2> QED BY <2>1, Zenon DEF MeaningPreserved
<1>4. CASE RunCse \/ SkipCse
  <2>1. UNCHANGED irVars /\ before' = Computes
    BY <1>4, SMTT(60) DEF RunCse, SkipCse, CseStart
  <2>2. Computes' = Computes
    BY <1>1, <2>1, ComputesUnchanged, SMTT(60)
  <2> QED BY <2>1, <2>2, SMTT(60) DEF MeaningPreserved
<1>5. CASE CseNext
  <2>1. /\ phase = "cse" /\ before' = before /\ kept \subseteq nodes /\ pending \in Seq(nodes)
        /\ pending # <<>> /\ return_value \in nodes /\ Computes = before
    BY <1>1, <1>5, SMTT(60) DEF CseNext, CseStep, CseInv, PhaseInv, MeaningPreserved
  <2>2. PICK n : n = Head(pending)
    OBVIOUS
  <2>3. CseSkip(n) \/ CseKeep(n) \/ CseReplace(n)
    BY <1>5, <2>2, Zenon DEF CseNext, CseStep
  <2>4. n \in nodes /\ n = pending[1] /\ 1 \in DOMAIN pending
    BY <2>1, <2>2, SMTT(60)
  <2>5. Computes' = Computes
    <3>1. CASE CseSkip(n) \/ CseKeep(n)
      BY <1>1, <3>1, ComputesUnchanged, Zenon DEF CseSkip, CseKeep
    <3>2. CASE CseReplace(n)
      <4>1. PICK candidate \in EqualTo(n, kept) : ReplaceUsesWith(n, candidate)
        BY <3>2, SMTT(60) DEF CseReplace
      <4>2. /\ candidate \in kept /\ candidate \in nodes /\ op[n] = op[candidate]
            /\ GetOperandsForCse(n) = GetOperandsForCse(candidate)
        BY <2>1, <4>1, SMTT(60) DEF EqualTo
      <4>3. op[n] # "param"
        BY <3>2, OpsAssumption, SMTT(60) DEF CseReplace
      <4>4. n # candidate
        <5>1. PICK rank : VisitsInOrder(rank)
          BY <1>1, <2>1, Zenon DEF CseInv
        <5>2. rank[candidate] < rank[n] /\ rank[n] \in 1..MaxNodes /\ rank[candidate] \in 1..MaxNodes
          BY <2>4, <4>2, <5>1, SMTT(60) DEF VisitsInOrder, Ranking
        <5> QED BY <5>2, SMTT(60)
      <4>5. PICK v : v = Values
        OBVIOUS
      <4>6. Solves(v)
        BY <1>1, <4>5, ValuesSolve, Zenon
      <4>7. v[n] = v[candidate]
        BY <1>1, <2>4, <4>2, <4>3, <4>6, EqualMeansSame, ZenonT(60)
      <4> QED BY <1>1, <1>2, <2>1, <2>4, <4>1, <4>2, <4>4, <4>5, <4>7,
                 ComputesAfterReplace, ZenonT(60)
    <3> QED BY <2>3, <3>1, <3>2, SMTT(60)
  <2> QED BY <2>1, <2>5, SMTT(60) DEF MeaningPreserved
<1>6. CASE RunDce
  <2>1. UNCHANGED irVars /\ before' = before /\ phase = "optimized"
    BY <1>6, SMTT(60) DEF RunDce, DceStart
  <2>2. Computes' = Computes
    BY <1>1, <2>1, ComputesUnchanged, SMTT(60)
  <2> QED BY <2>1, <2>2, SMTT(60) DEF MeaningPreserved
<1>7. CASE DceNext
  <2>1. /\ phase = "dce" /\ before' = before /\ return_value \in nodes /\ Computes = before
        /\ worklist \in Seq(nodes) /\ worklist # <<>> /\ Range(worklist) = Dead
    BY <1>1, <1>7, SMTT(60) DEF DceNext, DceStep, DceInv, PhaseInv, MeaningPreserved
  <2>2. PICK n : n = Head(worklist)
    OBVIOUS
  <2>3. n \in nodes /\ n \in Dead
    BY <2>1, <2>2, TailFacts, ZenonT(60)
  <2>4. RemoveNode(n) /\ op[n] \notin SideEffecting
    BY <1>7, <2>2, <2>3, Zenon DEF DceNext, DceStep, Dead, is_deletable
  <2>5. Computes' = Computes
    BY <1>1, <2>1, <2>3, <2>4, ComputesAfterRemove, ZenonT(60)
  <2> QED BY <2>1, <2>5, Zenon DEF MeaningPreserved
<1>8. CASE Schedule \/ ScheduleNext
  <2>1. phase' = "schedule"
    BY <1>8 DEF Schedule, ScheduleNext
  <2> QED BY <2>1, SMTT(60) DEF MeaningPreserved
<1>9. CASE Finished \/ UNCHANGED vars
  <2>1. UNCHANGED <<irVars, phase, before>>
    BY <1>9 DEF Finished, vars
  <2>2. Computes' = Computes
    BY <1>1, <2>1, ComputesUnchanged, SMTT(60)
  <2> QED BY <2>1, <2>2, SMTT(60) DEF MeaningPreserved
<1> QED BY <1>3, <1>4, <1>5, <1>6, <1>7, <1>8, <1>9, ZenonT(60) DEF Next

\* For all operations whose commutative ones really are commutative, CSE and DCE leave
\* what the function returns and what its side effects are given as they were, after
\* each turn of their loops.
THEOREM PassesKeepMeaning ==
    ASSUME NEW Val, Meanings(Val)
    PROVE  Spec => []MeaningPreserved
<1>1. Init => MeaningPreserved
  BY DEF Init, MeaningPreserved
<1>2. Inv /\ MeaningPreserved /\ [Next]_vars => MeaningPreserved'
  BY PassesKeep
<1> QED BY <1>1, <1>2, InvHolds, PTL DEF Spec
=============================================================================
