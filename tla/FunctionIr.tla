----------------------------- MODULE FunctionIr -----------------------------
(***************************************************************************)
(* The node graph of an IR function (xls/ir/node.cc, function_base.cc,     *)
(* function.h) and the operations that change it.  Each node keeps its     *)
(* operands, in order, and the set of its users; every operation must keep *)
(* the two in step.  A node is its id: nodes are created with increasing   *)
(* ids and appended to the function's list, so the list is in id order.    *)
(*                                                                         *)
(* That the graph stays acyclic is the callers' obligation: they ask for   *)
(* no replacement that closes a cycle.                                     *)
(***************************************************************************)
EXTENDS Integers, Sequences, FiniteSets, Functions

CONSTANTS Ops,              \* operations, with their attributes
          SideEffecting,    \* those with Property.SIDE_EFFECTING
          Commutative,      \* those with Property.COMMUTATIVE
          OperandTypes,     \* the types of the operands of each
          Type,             \* and of its result, as a bit count
          MaxNodes          \* how many nodes are created: a bound

ASSUME OpsAssumption ==
    /\ "param" \in SideEffecting
    /\ SideEffecting \subseteq Ops /\ Commutative \subseteq Ops
    /\ OperandTypes \in [Ops -> Seq(Nat)] /\ OperandTypes["param"] = <<>>
    /\ Type \in [Ops -> Nat]
    /\ MaxNodes \in Nat

Ids == 1..MaxNodes

VARIABLES nodes,            \* the ids of the nodes in the function
          next_id,          \* Package::next_node_id_
          op, operands, users,
          return_value      \* 0 before it is set

irVars == <<nodes, next_id, op, operands, users, return_value>>

----------------------------------------------------------------------------
(***************************************************************************)
(* Lists.  These are recursive functions over the length, which proofs can *)
(* expand.                                                                 *)
(***************************************************************************)
\* The elements of s that are in S, in the order of s.
Filter(s, S) ==
    LET found[i \in 0..Len(s)] ==
            IF i = 0 THEN <<>>
            ELSE IF s[i] \in S THEN Append(found[i - 1], s[i])
            ELSE found[i - 1]
    IN  found[Len(s)]

\* Fault: an operand counts once for each time it is used.
DistinctNot(s) == s

\* The distinct elements of s, in the order of their first occurrence.
Distinct(s) ==
    LET seen[i \in 0..Len(s)] ==
            IF i = 0 THEN <<>>
            ELSE IF s[i] \in Range(seen[i - 1]) THEN seen[i - 1]
            ELSE Append(seen[i - 1], s[i])
    IN  seen[Len(s)]

Reversed(s) == [i \in 1..Len(s) |-> s[Len(s) + 1 - i]]

----------------------------------------------------------------------------
HasImplicitUse(n) == n = return_value

\* nodes_: the nodes in list order.
NodeList == Filter([i \in Ids |-> i], nodes)

IrInit ==
    /\ nodes = {} /\ next_id = 1 /\ return_value = 0
    /\ op = [n \in Ids |-> "param"]
    /\ operands = [n \in Ids |-> <<>>]
    /\ users = [n \in Ids |-> {}]

\* Node's constructor with AddOperand for each argument, and AddNodeInternal.
AddNode(o, args) ==
    /\ next_id \in Ids
    /\ args \in Seq(nodes) /\ [i \in DOMAIN args |-> Type[op[args[i]]]] = OperandTypes[o]
    /\ nodes' = nodes \cup {next_id}
    /\ next_id' = next_id + 1
    /\ op' = [op EXCEPT ![next_id] = o]
    /\ operands' = [operands EXCEPT ![next_id] = args]
    /\ users' = [n \in Ids |->
                   IF n \in Range(args) THEN users[n] \cup {next_id} ELSE users[n]]
    /\ UNCHANGED return_value

set_return_value(n) ==
    /\ return_value' = n
    /\ UNCHANGED <<nodes, next_id, op, operands, users>>

Substituted(args, old, new) ==
    [i \in DOMAIN args |-> IF args[i] = old THEN new ELSE args[i]]

\* ReplaceUsesWith calls ReplaceOperand on every user.  A user that is the
\* replacement itself keeps its operand, and stays a user.
ReplaceUsesWith(n, replacement) ==
    LET replaced == users[n] \ {replacement} IN
    /\ Type[op[n]] = Type[op[replacement]]
    /\ operands' = [u \in Ids |->
          IF u \in replaced THEN Substituted(operands[u], n, replacement)
          ELSE operands[u]]
    /\ users' = [[users EXCEPT ![replacement] = @ \cup replaced]
                        EXCEPT ![n] = @ \ replaced]
    /\ return_value' = IF return_value = n THEN replacement ELSE return_value
    /\ UNCHANGED <<nodes, next_id, op>>

\* Fault: the old operand loses its user although another slot still holds it.
ReplaceOperandNumberDrops(n, i, new_operand) ==
    LET old  == operands[n][i]
        args == [operands[n] EXCEPT ![i] = new_operand]
        with == [users EXCEPT ![new_operand] = @ \cup {n}]
    IN  /\ Type[op[old]] = Type[op[new_operand]]
        /\ operands' = [operands EXCEPT ![n] = args]
        /\ users' = [with EXCEPT ![old] = @ \ {n}]
        /\ UNCHANGED <<nodes, next_id, op, return_value>>

ReplaceOperandNumber(n, i, new_operand) ==
    LET old  == operands[n][i]
        args == [operands[n] EXCEPT ![i] = new_operand]
        with == [users EXCEPT ![new_operand] = @ \cup {n}]
    IN  /\ Type[op[old]] = Type[op[new_operand]]
        /\ operands' = [operands EXCEPT ![n] = args]
        /\ users' = IF old \in Range(args) THEN with
                    ELSE [with EXCEPT ![old] = @ \ {n}]
        /\ UNCHANGED <<nodes, next_id, op, return_value>>

\* The early returns of RemoveNode: only a node nobody uses may go.
Removable(n) == users[n] = {} /\ ~HasImplicitUse(n)

RemoveNode(n) ==
    /\ Removable(n)
    /\ nodes' = nodes \ {n}
    /\ users' = [m \in Ids |->
                   IF m \in Range(operands[n]) THEN users[m] \ {n} ELSE users[m]]
    /\ operands' = [operands EXCEPT ![n] = <<>>]
    /\ op' = [op EXCEPT ![n] = "param"]
    /\ UNCHANGED <<next_id, return_value>>

----------------------------------------------------------------------------
(***************************************************************************)
(* TopoSort: NodeIterator::Initialize, reversed.  The roots are the nodes  *)
(* without users, pushed to the front in list order, the return value      *)
(* last; a node joins the back of the queue when the last of its users has *)
(* been placed.                                                            *)
(***************************************************************************)
Roots ==
    LET seeds == Filter(NodeList, {n \in nodes : users[n] = {}})
        rest  == Filter(Reversed(seeds), nodes \ {return_value})
    IN  IF return_value \in Range(seeds) THEN <<return_value>> \o rest ELSE rest

\* One turn of the loop: place the first node that is ready.
PlaceNext(state) ==
    IF state.ready = <<>> THEN state
    ELSE LET r == Head(state.ready)
             ordered == Append(state.ordered, r)
             released == Filter(Distinct(Reversed(operands[r])),
                                {o \in nodes : users[o] \subseteq Range(ordered)})
         IN  [ordered |-> ordered, ready |-> Tail(state.ready) \o released]

ReverseTopoSort ==
    LET placed[k \in 0..Cardinality(nodes)] ==
            IF k = 0 THEN [ordered |-> <<>>, ready |-> Roots]
            ELSE PlaceNext(placed[k - 1])
    IN  placed[Cardinality(nodes)].ordered

TopoSort == Reversed(ReverseTopoSort)

----------------------------------------------------------------------------
(***************************************************************************)
(* Reachability, for the callers' obligation and for the properties.       *)
(***************************************************************************)
\* The nodes that roots depend on, roots included.
DependsOn(roots) ==
    LET reach[k \in 0..MaxNodes] ==
            IF k = 0 THEN roots
            ELSE reach[k - 1] \cup UNION {Range(operands[n]) : n \in reach[k - 1]}
    IN  reach[MaxNodes]

\* What passes ask of the graph: the replacement is another node and depends on
\* no other user of the node it replaces.
MayReplaceUses(n, replacement) ==
    /\ n # replacement
    /\ DependsOn({replacement}) \cap (users[n] \ {replacement}) = {}

MayReplaceOperand(n, new_operand) == n \notin DependsOn({new_operand})

----------------------------------------------------------------------------
(***************************************************************************)
(* Properties.                                                             *)
(***************************************************************************)
IrTypeOK ==
    /\ nodes \subseteq Ids /\ next_id \in 1..MaxNodes + 1
    /\ op \in [Ids -> Ops]
    /\ operands \in [Ids -> Seq(nodes)]
    /\ users \in [Ids -> SUBSET nodes]
    /\ return_value \in nodes \cup {0}
    /\ \A n \in Ids : n >= next_id => n \notin nodes
    /\ \A n \in Ids \ nodes : operands[n] = <<>>

\* A node is in the user set of exactly the nodes that are its operands,
\* whatever passes do to the graph: no user is stale and none is missing.
UsersMatchOperands ==
    \A n \in Ids : users[n] = {m \in nodes : n \in Range(operands[m])}

\* TopoSort places every node exactly once, each after its operands; none of the
\* checks on the way can fail.
TopoSortSorts ==
    LET order == TopoSort IN
    /\ order \in Seq(nodes) /\ nodes \subseteq Range(order) /\ IsInjective(order)
    /\ \A i \in DOMAIN order : \A o \in Range(operands[order[i]]) :
          \E j \in 1..i - 1 : order[j] = o
=============================================================================
