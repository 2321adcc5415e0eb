-------------------- MODULE ProcNetworkInterpreterProofs --------------------
(***************************************************************************)
(* TickRunsToFixpoint and the refinement of ProcNetwork for every number   *)
(* of procs, every program and every network.  The inductive invariant     *)
(* says what a pass has established about the procs it has been through,   *)
(* as long as it has executed nothing, and what a run of one proc has      *)
(* established about the nodes before the one it is at.                    *)
(***************************************************************************)
EXTENDS ProcNetworkInterpreter, TLAPS

Phases == {"user", "proc", "fresh", "node"}

\* A visitor in an iteration; one that has executed nothing has no results.
IsVisitor(p, v) ==
    /\ v \in [in : {"iteration"}, state : {v.state}, fresh : BOOLEAN,
              done : SUBSET DOMAIN Program[p], got : {v.got}]
    /\ v.fresh => v.done = {} /\ v.got = [i \in DOMAIN Program[p] |-> NoData]

Shapes ==
    /\ main \in [at : Phases, proc : 0..(NumProcs + 1), node : Nat]
    /\ run \in [complete : BOOLEAN, progress : BOOLEAN, blocked : SUBSET Channels]
    /\ tick \in [completed : SUBSET Procs, blocked : SUBSET Channels,
                 pass : BOOLEAN, global : BOOLEAN]
    /\ DOMAIN visitor = Procs
    /\ \A p \in Procs : visitor[p] = NoVisitor \/ IsVisitor(p, visitor[p])

\* The proc being run has a visitor and has not completed in this tick.
InRun == main.at \in {"fresh", "node"}

RunPlace ==
    /\ main.at # "user" => main.proc \in 1..(NumProcs + 1)
    /\ InRun => /\ main.proc \in Procs \ tick.completed
                /\ visitor[main.proc] # NoVisitor
    /\ main.at = "fresh" => run = NewRun /\ ~Complete(main.proc, visitor[main.proc])
    /\ main.at = "node" => /\ ~visitor[main.proc].fresh
                           /\ main.node \in 1..(Len(Program[main.proc]) + 1)

\* What TickInternal counts as completed is complete, and stays so in this tick.
CompletedComplete ==
    main.at # "user" => \A p \in tick.completed :
                            visitor[p] # NoVisitor /\ Complete(p, visitor[p])

\* A run that has met no blocked receive has executed every node so far: the order
\* is topological.
RunInOrder ==
    main.at = "node" /\ run.complete =>
        1..(main.node - 1) \subseteq visitor[main.proc].done

\* A run that has executed nothing has found every node so far unready or blocked,
\* and the iteration is not complete.
RunIdle ==
    main.at = "node" /\ ~run.progress =>
        LET p == main.proc
            seen == 1..(main.node - 1)
        IN  /\ ~Complete(p, visitor[p])
            /\ \A i \in seen : Ready(p, i) => Blocked(p, i)
            /\ run.blocked = {Program[p][i].ch :
                                 i \in {j \in seen : Ready(p, j) /\ Blocked(p, j)}}

\* As long as a pass has executed nothing, each proc it has been through has
\* completed in an earlier pass or is stuck, and the channels they wait for are
\* those collected.
Quiet == main.at # "user" /\ ~tick.pass /\ (InRun => ~run.progress)

PassIdle ==
    Quiet =>
        /\ \A p \in 1..(main.proc - 1) : p \in tick.completed \/ Stuck(p)
        /\ tick.blocked = UNION {AwaitedBy(p) : p \in 1..(main.proc - 1)}

\* No proc completes in a tick that has executed nothing.
NothingCompleted ==
    main.at # "user" /\ ~tick.global /\ ~tick.pass => tick.completed = {}

IInv ==
    /\ Shapes /\ RunPlace /\ CompletedComplete /\ RunInOrder /\ RunIdle
    /\ PassIdle /\ NothingCompleted

------------------------------------------------------------------------------
(* The invariant is inductive *)

\* The operations of a proc are numbered from 1, in topological order.
LEMMA ProgramFacts ==
  /\ NumProcs \in Nat \ {0} /\ Procs = 1..NumProcs
  /\ \A p \in Procs :
        /\ Len(Program[p]) \in Nat /\ DOMAIN Program[p] = 1..Len(Program[p])
        /\ \A i \in DOMAIN Program[p] :
              /\ Program[p][i].kind \in {"send", "recv", "nbrecv"}
              /\ Program[p][i].ch \in Channels
              /\ Program[p][i].deps \subseteq 1..(i - 1)
  BY ProgramAssumption DEF Procs

\* A new visitor is a visitor.
LEMMA NewVisitorFacts ==
  ASSUME NEW p \in Procs, NEW s
  PROVE  /\ IsVisitor(p, NewVisitor(p, s)) /\ NewVisitor(p, s) # NoVisitor
         /\ NewVisitor(p, s).fresh /\ NewVisitor(p, s).state = s
         /\ NewVisitor(p, s).done = {}
         /\ NewVisitor(p, s).got = [i \in DOMAIN Program[p] |-> NoData]
  <1>1. NewVisitor(p, s).in = "iteration" /\ NoVisitor.in = "null"
    BY DEF NewVisitor, NoVisitor
  <1>2. NewVisitor(p, s) # NoVisitor
    BY <1>1
  <1> QED
    BY <1>2 DEF NewVisitor, IsVisitor

\* Between calls the invariant only speaks of shapes.
LEMMA UserIInv ==
  ASSUME Shapes', main'.at = "user"
  PROVE  IInv'
  BY DEF IInv, RunPlace, InRun, CompletedComplete, RunInOrder, RunIdle, PassIdle, Quiet,
         NothingCompleted

\* A tick begins: it has been through no proc.
LEMMA TickIInv ==
  ASSUME Shapes', main' = At("proc", 1, 0), tick' = NewTick
  PROVE  IInv'
  <1>1. main'.at = "proc" /\ main'.proc = 1 /\ ~InRun' /\ 1 \in 1..(NumProcs + 1)
    BY ProgramFacts DEF At, InRun
  <1>2. tick'.completed = {} /\ tick'.blocked = {} /\ 1..(main'.proc - 1) = {}
    BY <1>1 DEF NewTick
  <1> QED
    BY <1>1, <1>2
       DEF IInv, RunPlace, CompletedComplete, RunInOrder, RunIdle, PassIdle, Quiet,
                      NothingCompleted

\* At first no call is in progress.
LEMMA InitIInv == Init => IInv
  <1> SUFFICES ASSUME Init PROVE IInv
    OBVIOUS
  <1>1. Shapes /\ main.at = "user"
    BY ProgramFacts, SMTT(60) DEF Init, Shapes, At, NewRun, NewTick, Phases
  <1> QED
    BY <1>1
       DEF IInv, RunPlace, InRun, CompletedComplete, RunInOrder, RunIdle, PassIdle, Quiet,
                NothingCompleted

\* The calls of the caller, and what it does with queues and state between them.
LEMMA CallerIInv ==
  ASSUME IInv, AtUser,
         \/ Tick \/ TickUntilBlocked \/ ResetState
         \/ \E counts \in OutputCounts : TickUntilOutput(counts)
         \/ \E c \in Inputs, v \in Values : Enqueue(c, v)
         \/ \E c \in Outputs : Dequeue(c)
  PROVE  IInv'
  <1>1. CASE UNCHANGED <<visitor, main, run, tick>>
    <2>1. Shapes' /\ main'.at = "user"
      BY <1>1 DEF IInv, Shapes, AtUser
    <2> QED
      BY <2>1, UserIInv
  <1>2. CASE ResetState
    <2>1. \A p \in Procs : IsVisitor(p, visitor'[p])
      BY <1>2, NewVisitorFacts, Zenon DEF ResetState
    <2>2. Shapes' /\ main'.at = "user"
      BY <1>2, <2>1 DEF ResetState, IInv, Shapes, AtUser
    <2> QED
      BY <2>2, UserIInv
  <1>3. CASE \E c : Again(c) /\ UNCHANGED <<visitor, run>>
    <2>1. tick' = NewTick /\ main' = At("proc", 1, 0) /\ UNCHANGED <<visitor, run>>
      BY <1>3 DEF Again
    <2>2. Shapes'
      BY <2>1, ProgramFacts DEF IInv, Shapes, At, NewTick, Phases
    <2> QED
      BY <2>1, <2>2, TickIInv
  <1>4. CASE \E o : Return(o) /\ UNCHANGED <<visitor, run>>
    <2>1. tick' = NewTick /\ main' = At("user", 0, 0) /\ UNCHANGED <<visitor, run>>
      BY <1>4 DEF Return
    <2>2. Shapes' /\ main'.at = "user"
      BY <2>1, ProgramFacts DEF IInv, Shapes, At, NewTick, Phases
    <2> QED
      BY <2>2, UserIInv
  <1> QED
    BY <1>1, <1>2, <1>3, <1>4, Zenon
    DEF Tick, TickUntilBlocked, TickUntilOutput, UntilOutput, UntilBlocked, Enqueue, Dequeue

\* TickInternal takes up a proc, or skips one that has completed.
LEMMA RunProcIInv ==
  ASSUME IInv, RunProc
  PROVE  IInv'
  <1> DEFINE p == main.proc
  <1>1. main.at = "proc" /\ p \in Procs /\ p \in Nat /\ tick' = tick /\ queue' = queue
    BY ProgramFacts DEF RunProc
  <1>2. CASE p \in tick.completed /\ main' = At("proc", p + 1, 0) /\ UNCHANGED <<visitor, run>>
    <2>1. main'.at = "proc" /\ main'.proc = p + 1 /\ ~InRun' /\ ~InRun
      BY <1>1, <1>2 DEF At, InRun
    <2>2. p + 1 \in 1..(NumProcs + 1) /\ 1..(main'.proc - 1) = 1..(p - 1) \cup {p}
      BY <1>1, <2>1, ProgramFacts, SMTT(60)
    <2>3. Shapes'
      BY <1>1, <1>2, <2>2 DEF IInv, Shapes, At, Phases
    <2>4. RunPlace' /\ RunInOrder' /\ RunIdle'
      BY <2>1, <2>2, SMTT(60) DEF RunPlace, RunInOrder, RunIdle
    <2>5. CompletedComplete' /\ NothingCompleted'
      BY <1>1, <1>2, <2>1 DEF IInv, CompletedComplete, NothingCompleted, Complete
    <2>6. PassIdle'
      <3>1. SUFFICES ASSUME Quiet' PROVE PassIdle'
        BY DEF PassIdle
      <3>2. Quiet
        BY <1>1, <1>2, <2>1, <3>1, SMTT(60) DEF Quiet
      <3>3. \A q \in Procs : (Stuck(q) => Stuck(q)') /\ AwaitedBy(q)' = AwaitedBy(q)
        BY <1>1, <1>2, SMTT(60) DEF Stuck, AwaitedBy, Ready, Blocked, Enabled, Complete
      <3>4. AwaitedBy(p) = {}
        BY <1>1, <1>2 DEF IInv, CompletedComplete, AwaitedBy, Ready, Complete
      <3>5. \A q \in 1..(p - 1) : q \in Procs
        BY <1>1, ProgramFacts, SMTT(60)
      <3>6. \A q \in 1..(main'.proc - 1) : q \in tick'.completed \/ Stuck(q)'
        BY <1>1, <1>2, <2>2, <3>2, <3>3, <3>5 DEF IInv, PassIdle
      <3>7. tick'.blocked = UNION {AwaitedBy(q)' : q \in 1..(main'.proc - 1)}
        <4>1. tick.blocked = UNION {AwaitedBy(q) : q \in 1..(p - 1)}
          BY <3>2 DEF IInv, PassIdle
        <4>2. UNION {AwaitedBy(q)' : q \in 1..(main'.proc - 1)}
                = (UNION {AwaitedBy(q) : q \in 1..(p - 1)}) \cup AwaitedBy(p)
          BY <1>1, <2>2, <3>3, <3>5, SMTT(60)
        <4> QED
          BY <1>1, <3>4, <4>1, <4>2
      <3> QED
        BY <3>6, <3>7 DEF PassIdle
    <2> QED
      BY <2>3, <2>4, <2>5, <2>6 DEF IInv
  <1>3. CASE /\ p \notin tick.completed /\ visitor' = [visitor EXCEPT ![p] = CurrentVisitor(p)]
             /\ run' = NewRun /\ main' = At("fresh", p, 0)
    <2>1. main'.at = "fresh" /\ main'.proc = p /\ ~InRun /\ InRun'
      BY <1>1, <1>3 DEF At, InRun
    <2>2. /\ visitor'[p] = CurrentVisitor(p) /\ DOMAIN visitor' = Procs
          /\ \A q \in Procs \ {p} : visitor'[q] = visitor[q]
      BY <1>1, <1>3, SMTT(60) DEF IInv, Shapes
    <2>3. /\ IsVisitor(p, CurrentVisitor(p)) /\ CurrentVisitor(p) # NoVisitor
          /\ ~Complete(p, CurrentVisitor(p))
      <3>1. visitor[p] = NoVisitor \/ IsVisitor(p, visitor[p])
        BY <1>1 DEF IInv, Shapes
      <3> QED
        BY <1>1, <3>1, NewVisitorFacts, ZenonT(60) DEF CurrentVisitor, Complete
    <2>4. Shapes'
      BY <1>1, <1>3, <2>2, <2>3, ProgramFacts, SMTT(60)
         DEF IInv, Shapes, At, NewRun, Phases
    <2>5. RunPlace' /\ RunInOrder' /\ RunIdle'
      <3>1. RunInOrder' /\ RunIdle'
        BY <2>1, Zenon DEF RunInOrder, RunIdle
      <3>2. ~Complete(p, visitor'[p]) /\ visitor'[p] # NoVisitor
        BY <2>2, <2>3, Zenon
      <3>3. p \in Procs \ tick'.completed /\ p \in 1..(NumProcs + 1)
        BY <1>1, <1>3, ProgramFacts
      <3> QED
        BY <1>3, <2>1, <3>1, <3>2, <3>3, Zenon DEF RunPlace, Complete
    <2>6. CompletedComplete' /\ NothingCompleted'
      BY <1>1, <1>3, <2>1, <2>2
      DEF IInv, Shapes, CompletedComplete, NothingCompleted, Complete
    <2>7. PassIdle'
      <3>1. SUFFICES ASSUME Quiet' PROVE PassIdle'
        BY DEF PassIdle
      <3>2. Quiet
        BY <1>1, <2>1, <3>1 DEF Quiet
      <3>3. \A q \in 1..(p - 1) : q \in Procs \ {p}
        BY <1>1, ProgramFacts, SMTT(60)
      <3>4. \A q \in Procs \ {p} : (Stuck(q) => Stuck(q)') /\ AwaitedBy(q)' = AwaitedBy(q)
        BY <1>1, <2>2, SMTT(60) DEF Stuck, AwaitedBy, Ready, Blocked, Enabled, Complete
      <3>5. \A q \in 1..(p - 1) : q \in tick'.completed \/ Stuck(q)'
        BY <1>1, <3>2, <3>3, <3>4 DEF IInv, PassIdle
      <3>6. tick.blocked = UNION {AwaitedBy(q) : q \in 1..(p - 1)}
        BY <3>2 DEF IInv, PassIdle
      <3>7. tick'.blocked = UNION {AwaitedBy(q)' : q \in 1..(p - 1)}
        BY <1>1, <3>3, <3>4, <3>6
      <3> QED
        BY <2>1, <3>5, <3>7 DEF PassIdle
    <2> QED
      BY <2>4, <2>5, <2>6, <2>7 DEF IInv
  <1> QED
    BY <1>1, <1>2, <1>3 DEF RunProc

\* The nodes that need no channel operation are executed.
LEMMA RunFreshIInv ==
  ASSUME IInv, RunFreshNodes
  PROVE  IInv'
  <1> DEFINE p == main.proc
  <1> DEFINE v == visitor[p]
  <1>1. /\ main.at = "fresh" /\ p \in Procs \ tick.completed /\ InRun
        /\ IsVisitor(p, v) /\ v # NoVisitor /\ run = NewRun /\ ~Complete(p, v)
        /\ UNCHANGED <<queue, tick>>
    BY DEF IInv, RunPlace, InRun, Shapes, RunFreshNodes
  <1>2. /\ visitor'[p] = [v EXCEPT !.fresh = FALSE] /\ DOMAIN visitor' = Procs
        /\ \A q \in Procs \ {p} : visitor'[q] = visitor[q]
    BY <1>1 DEF IInv, Shapes, RunFreshNodes
  <1>3. /\ main'.at = "node" /\ main'.proc = p /\ main'.node = 1 /\ InRun'
        /\ run'.progress = v.fresh /\ run'.complete = TRUE /\ run'.blocked = {}
    BY <1>1 DEF RunFreshNodes, At, NewRun, InRun, IsVisitor
  <1>4. /\ visitor'[p].in = "iteration" /\ visitor'[p].state = v.state
        /\ visitor'[p].fresh = FALSE /\ visitor'[p].done = v.done /\ visitor'[p].got = v.got
        /\ IsVisitor(p, visitor'[p])
    BY <1>1, <1>2, Zenon DEF IsVisitor
  <1>5. visitor'[p] # NoVisitor
    BY <1>4 DEF NoVisitor
  <1>6. Shapes'
    <2>1. \A q \in Procs : visitor'[q] = NoVisitor \/ IsVisitor(q, visitor'[q])
      BY <1>2, <1>4, Zenon DEF IInv, Shapes
    <2>2. main' = At("node", p, 1) /\ p \in 0..(NumProcs + 1)
      BY <1>1, Zenon DEF IInv, Shapes, RunFreshNodes
    <2>3. main' \in [at : Phases, proc : 0..(NumProcs + 1), node : Nat]
      BY <2>2 DEF At, Phases
    <2>4. run' = [NewRun EXCEPT !.progress = v.fresh] /\ v.fresh \in BOOLEAN
      <3>1. v.fresh \in BOOLEAN /\ run' = [NewRun EXCEPT !.progress = @ \/ v.fresh]
        BY <1>1, Zenon DEF RunFreshNodes, IsVisitor
      <3> QED
        BY <3>1 DEF NewRun
    <2>5. run' \in [complete : BOOLEAN, progress : BOOLEAN, blocked : SUBSET Channels]
      BY <2>4, ZenonT(60) DEF NewRun
    <2> QED
      BY <1>1, <1>2, <2>1, <2>3, <2>5, Zenon DEF IInv, Shapes, IsVisitor
  <1>7. RunPlace'
    BY <1>1, <1>3, <1>4, <1>5, ProgramFacts DEF RunPlace
  <1>8. CompletedComplete' /\ NothingCompleted'
    BY <1>1, <1>2, <1>3 DEF IInv, Shapes, CompletedComplete, NothingCompleted, Complete
  <1>9. 1..(main'.node - 1) = {}
    BY <1>3
  <1>10. RunInOrder' /\ RunIdle'
    BY <1>1, <1>3, <1>4, <1>9, SMTT(60) DEF RunInOrder, RunIdle, Complete
  <1>11. PassIdle'
    <2>1. SUFFICES ASSUME Quiet' PROVE PassIdle'
      BY DEF PassIdle
    <2>2. Quiet
      BY <1>1, <1>3, <2>1, SMTT(60) DEF Quiet, NewRun
    <2>3. \A q \in 1..(p - 1) : q \in Procs \ {p}
      BY <1>1, ProgramFacts, SMTT(60)
    <2>4. \A q \in Procs \ {p} : (Stuck(q) => Stuck(q)') /\ AwaitedBy(q)' = AwaitedBy(q)
      BY <1>1, <1>2, Zenon DEF Stuck, AwaitedBy, Ready, Blocked, Enabled, Complete
    <2>5. \A q \in 1..(p - 1) : q \in tick'.completed \/ Stuck(q)'
      BY <1>1, <2>2, <2>3, <2>4, Zenon DEF IInv, PassIdle
    <2>6. tick.blocked = UNION {AwaitedBy(q) : q \in 1..(p - 1)}
      BY <2>2 DEF IInv, PassIdle
    <2>7. tick'.blocked = UNION {AwaitedBy(q)' : q \in 1..(p - 1)}
      BY <1>1, <2>3, <2>4, <2>6, Zenon
    <2> QED
      BY <1>3, <2>5, <2>7, Zenon DEF PassIdle
  <1> QED
    BY <1>6, <1>7, <1>8, <1>10, <1>11 DEF IInv

\* What the invariant says of a proc that is being run.
LEMMA NodeFacts ==
  ASSUME IInv, main.at = "node"
  PROVE  /\ main.proc \in Procs \ tick.completed /\ InRun /\ main.proc \in Nat
         /\ IsVisitor(main.proc, visitor[main.proc]) /\ visitor[main.proc] # NoVisitor
         /\ ~visitor[main.proc].fresh
         /\ main.node \in 1..(Len(Program[main.proc]) + 1) /\ main.node \in Nat
         /\ Len(Program[main.proc]) \in Nat
         /\ DOMAIN Program[main.proc] = 1..Len(Program[main.proc])
  <1>1. /\ main.proc \in Procs \ tick.completed /\ InRun
        /\ visitor[main.proc] # NoVisitor /\ ~visitor[main.proc].fresh
        /\ main.node \in 1..(Len(Program[main.proc]) + 1)
    BY DEF IInv, RunPlace, InRun
  <1>2. IsVisitor(main.proc, visitor[main.proc])
    BY <1>1 DEF IInv, Shapes
  <1> QED
    BY <1>1, <1>2, ProgramFacts, SMTT(60)

\* A visitor that has executed operation i is a visitor.
ExecutedVisitor(v, i, r) == [[v EXCEPT !.done = @ \cup {i}] EXCEPT !.got[i] = r]

\* It is in the same iteration, with one more operation done.
LEMMA ExecutedFacts ==
  ASSUME NEW p, NEW v, IsVisitor(p, v), ~v.fresh, NEW i \in DOMAIN Program[p], NEW r,
         NEW w, w = ExecutedVisitor(v, i, r)
  PROVE  /\ IsVisitor(p, w) /\ w.in = "iteration" /\ w.state = v.state /\ ~w.fresh
         /\ w.done = v.done \cup {i} /\ w.got = [v.got EXCEPT ![i] = r]
  <1>1. v \in [in : {"iteration"}, state : {v.state}, fresh : BOOLEAN,
               done : SUBSET DOMAIN Program[p], got : {v.got}]
    BY DEF IsVisitor
  <1>2. /\ w \in [in : {"iteration"}, state : {w.state}, fresh : BOOLEAN,
                  done : SUBSET DOMAIN Program[p], got : {w.got}]
        /\ w.state = v.state /\ w.fresh = v.fresh /\ w.in = "iteration"
        /\ w.done = v.done \cup {i} /\ w.got = [v.got EXCEPT ![i] = r]
    BY <1>1, ZenonT(60) DEF ExecutedVisitor
  <1> QED
    BY <1>1, <1>2 DEF IsVisitor

\* A node is executed with result r: it joins the results of the visitor.
LEMMA ExecuteFacts ==
  ASSUME IInv, main.at = "node", main.node \in DOMAIN Program[main.proc], NEW r, Execute(r)
  PROVE  LET p == main.proc
         IN  /\ DOMAIN visitor' = Procs
             /\ \A q \in Procs \ {p} : visitor'[q] = visitor[q]
             /\ IsVisitor(p, visitor'[p]) /\ visitor'[p] # NoVisitor
             /\ ~visitor'[p].fresh /\ visitor'[p].state = visitor[p].state
             /\ visitor'[p].done = visitor[p].done \cup {main.node}
             /\ visitor'[p].got = [visitor[p].got EXCEPT ![main.node] = r]
             /\ run' = [run EXCEPT !.progress = TRUE]
  <1> DEFINE p == main.proc
  <1>1. p \in Procs /\ IsVisitor(p, visitor[p]) /\ ~visitor[p].fresh /\ DOMAIN visitor = Procs
    BY NodeFacts, SMTT(60) DEF IInv, Shapes
  <1>2. visitor'[p] = ExecutedVisitor(visitor[p], main.node, r)
    BY <1>1, ZenonT(60) DEF Execute, ExecutedVisitor
  <1>3. DOMAIN visitor' = Procs /\ \A q \in Procs \ {p} : visitor'[q] = visitor[q]
    BY <1>1, Zenon DEF Execute
  <1>4. /\ visitor'[p].in = "iteration" /\ visitor'[p].state = visitor[p].state
        /\ ~visitor'[p].fresh /\ visitor'[p].done = visitor[p].done \cup {main.node}
        /\ visitor'[p].got = [visitor[p].got EXCEPT ![main.node] = r]
        /\ IsVisitor(p, visitor'[p])
    BY <1>1, <1>2, ExecutedFacts, SMTT(60)
  <1>5. visitor'[p] # NoVisitor
    BY <1>4 DEF NoVisitor
  <1> QED
    BY <1>3, <1>4, <1>5, Zenon DEF Execute

\* A node is executed, or passed over.
LEMMA RunNodeIInv ==
  ASSUME IInv, RunNode
  PROVE  IInv'
  <1> DEFINE p == main.proc
  <1> DEFINE i == main.node
  <1>1. /\ main.at = "node" /\ i \in DOMAIN Program[p] /\ main' = At("node", p, i + 1)
        /\ UNCHANGED tick
    BY DEF RunNode
  <1>2. /\ p \in Procs \ tick.completed /\ InRun /\ p \in Nat
        /\ IsVisitor(p, visitor[p]) /\ visitor[p] # NoVisitor /\ ~visitor[p].fresh
        /\ i \in 1..(Len(Program[p]) + 1) /\ i \in Nat /\ Len(Program[p]) \in Nat
        /\ DOMAIN Program[p] = 1..Len(Program[p])
    BY <1>1, NodeFacts, Zenon
  <1>3. /\ main'.at = "node" /\ main'.proc = p /\ main'.node = i + 1 /\ InRun'
        /\ i + 1 \in 1..(Len(Program[p]) + 1) /\ 1..(main'.node - 1) = 1..(i - 1) \cup {i}
    BY <1>1, <1>2, SMTT(60) DEF At, InRun
  <1>4. main' \in [at : Phases, proc : 0..(NumProcs + 1), node : Nat]
    BY <1>1, <1>2, ProgramFacts, SMTT(60) DEF At, Phases
  <1>5. ASSUME NEW r, Execute(r), ~run.complete \/ 1..(i - 1) \subseteq visitor[p].done
        PROVE  IInv'
    <2>1. /\ DOMAIN visitor' = Procs /\ \A q \in Procs \ {p} : visitor'[q] = visitor[q]
          /\ IsVisitor(p, visitor'[p]) /\ visitor'[p] # NoVisitor
          /\ ~visitor'[p].fresh /\ visitor'[p].done = visitor[p].done \cup {i}
          /\ run' = [run EXCEPT !.progress = TRUE]
      BY <1>1, <1>5, ExecuteFacts, Zenon
    <2>2. /\ run' \in [complete : BOOLEAN, progress : BOOLEAN, blocked : SUBSET Channels]
          /\ run'.progress = TRUE /\ run'.complete = run.complete
      BY <2>1, Zenon DEF IInv, Shapes
    <2>3. Shapes'
      BY <1>1, <1>2, <1>4, <2>1, <2>2, Zenon DEF IInv, Shapes
    <2>4. RunPlace'
      <3>1. p \in 1..(NumProcs + 1)
        <4>1. p \in 1..NumProcs /\ NumProcs \in Nat
          BY <1>2, ProgramFacts, Zenon
        <4> QED
          BY <4>1
      <3> QED
        BY <1>1, <1>2, <1>3, <2>1, <3>1, Zenon DEF RunPlace
    <2>5. CompletedComplete' /\ NothingCompleted'
      BY <1>1, <1>2, <1>3, <2>1
         DEF IInv, Shapes, CompletedComplete, NothingCompleted, Complete
    <2>6. RunInOrder'
      BY <1>3, <1>5, <2>1, <2>2 DEF RunInOrder
    <2>7. RunIdle' /\ PassIdle'
      BY <1>3, <2>2 DEF RunIdle, PassIdle, Quiet
    <2> QED
      BY <2>3, <2>4, <2>5, <2>6, <2>7 DEF IInv
  <1>6. ~run.complete \/ 1..(i - 1) \subseteq visitor[p].done
    <2>1. RunInOrder
      BY Zenon DEF IInv
    <2> QED
      BY <1>1, <2>1, Zenon DEF RunInOrder
  <1>7. CASE HandleSend(p, i)
    BY <1>5, <1>6, <1>7, Zenon DEF HandleSend
  <1>8. CASE HandleReceive(p, i)
    BY <1>5, <1>6, <1>8, Zenon DEF HandleReceive
  <1>9. CASE PassOver(p, i)
    <2>1. /\ UNCHANGED <<queue, visitor>> /\ (Ready(p, i) => Blocked(p, i))
          /\ run' = IF Ready(p, i)
                    THEN [run EXCEPT !.complete = FALSE,
                                     !.blocked = @ \cup {Program[p][i].ch}]
                    ELSE run
      BY <1>9 DEF PassOver
    <2>2. /\ run' \in [complete : BOOLEAN, progress : BOOLEAN, blocked : SUBSET Channels]
          /\ run'.progress = run.progress
          /\ Ready(p, i) => run'.complete = FALSE
                            /\ run'.blocked = run.blocked \cup {Program[p][i].ch}
          /\ ~Ready(p, i) => run' = run
      <3>1. run \in [complete : BOOLEAN, progress : BOOLEAN, blocked : SUBSET Channels]
            /\ Program[p][i].ch \in Channels
        BY <1>1, <1>2, ProgramFacts, Zenon DEF IInv, Shapes
      <3> QED
        BY <2>1, <3>1, Zenon
    <2>3. Shapes'
      BY <1>1, <1>4, <2>1, <2>2, Zenon DEF IInv, Shapes
    <2>4. RunPlace'
      <3>1. p \in 1..(NumProcs + 1)
        <4>1. p \in 1..NumProcs /\ NumProcs \in Nat
          BY <1>2, ProgramFacts, Zenon
        <4> QED
          BY <4>1
      <3> QED
        BY <1>1, <1>2, <1>3, <2>1, <3>1, Zenon DEF RunPlace
    <2>5. CompletedComplete' /\ NothingCompleted'
      BY <1>1, <1>3, <2>1 DEF IInv, CompletedComplete, NothingCompleted, Complete
    <2>6. \A q, j : (Ready(q, j)' <=> Ready(q, j)) /\ (Blocked(q, j)' <=> Blocked(q, j))
      BY <2>1 DEF Ready, Blocked, Enabled
    <2>7. RunInOrder'
      <3>1. SUFFICES ASSUME run'.complete
                     PROVE  1..(main'.node - 1) \subseteq visitor'[p].done
        BY <1>3 DEF RunInOrder
      <3>2. ~Ready(p, i) /\ run.complete
        BY <2>2, <3>1
      <3>3. Program[p][i].deps \subseteq 1..(i - 1) /\ 1..(i - 1) \subseteq visitor[p].done
        BY <1>1, <1>2, <1>6, <3>2, ProgramFacts, Zenon
      <3>4. i \in visitor[p].done
        BY <3>2, <3>3 DEF Ready
      <3> QED
        BY <1>3, <2>1, <3>3, <3>4
    <2>8. RunIdle'
      <3>1. SUFFICES ASSUME ~run'.progress PROVE RunIdle'
        BY Zenon DEF RunIdle
      <3>2. /\ ~Complete(p, visitor[p])
            /\ \A j \in 1..(i - 1) : Ready(p, j) => Blocked(p, j)
            /\ run.blocked = {Program[p][k].ch :
                                 k \in {j \in 1..(i - 1) : Ready(p, j) /\ Blocked(p, j)}}
        BY <1>1, <2>2, <3>1 DEF IInv, RunIdle
      <3>3. run'.blocked = {Program[p][k].ch :
                              k \in {j \in 1..(i - 1) \cup {i} : Ready(p, j) /\ Blocked(p, j)}}
        <4>1. CASE Ready(p, i)
          <5>1. Blocked(p, i) /\ run'.blocked = run.blocked \cup {Program[p][i].ch}
            BY <2>1, <2>2, <4>1, Zenon
          <5>2. {j \in 1..(i - 1) \cup {i} : Ready(p, j) /\ Blocked(p, j)}
                  = {j \in 1..(i - 1) : Ready(p, j) /\ Blocked(p, j)} \cup {i}
            BY <4>1, <5>1, Zenon
          <5> QED
            BY <3>2, <5>1, <5>2, Zenon
        <4>2. CASE ~Ready(p, i)
          BY <2>2, <3>2, <4>2
        <4> QED
          BY <4>1, <4>2, Zenon
      <3>4. ~Complete(p, visitor'[p])
        BY <2>1, <3>2
      <3>5. \A j \in 1..(main'.node - 1) : Ready(p, j)' => Blocked(p, j)'
        BY <1>3, <2>1, <2>6, <3>2
      <3>6. run'.blocked = {Program[p][k].ch :
                k \in {j \in 1..(main'.node - 1) : Ready(p, j)' /\ Blocked(p, j)'}}
        BY <1>3, <2>6, <3>3
      <3> QED
        BY <1>3, <3>4, <3>5, <3>6, Zenon DEF RunIdle, Complete
    <2>9. PassIdle'
      <3>1. Quiet' => Quiet
        BY <1>1, <1>2, <1>3, <2>2, Zenon DEF Quiet
      <3>2. \A q : (Stuck(q)' <=> Stuck(q)) /\ AwaitedBy(q)' = AwaitedBy(q)
        BY <2>1 DEF Stuck, AwaitedBy, Ready, Blocked, Enabled, Complete
      <3> QED
        BY <1>1, <1>3, <3>1, <3>2, Zenon DEF IInv, PassIdle
    <2> QED
      BY <2>3, <2>4, <2>5, <2>7, <2>8, <2>9 DEF IInv
  <1> QED
    BY <1>7, <1>8, <1>9 DEF RunNode

\* A run ends: what it found out about its proc becomes part of the pass.
LEMMA EndRunIInv ==
  ASSUME IInv, EndRun
  PROVE  IInv'
  <1> DEFINE p == main.proc
  <1>1. /\ main.at = "node" /\ main.node \notin DOMAIN Program[p]
        /\ main' = At("proc", p + 1, 0) /\ UNCHANGED <<queue, visitor, run>>
        /\ tick' = [tick EXCEPT !.pass = @ \/ run.progress,
                                !.completed = IF run.complete THEN @ \cup {p} ELSE @,
                                !.blocked = @ \cup run.blocked]
    BY DEF EndRun
  <1>2. /\ p \in Procs \ tick.completed /\ InRun /\ p \in Nat
        /\ visitor[p] # NoVisitor /\ ~visitor[p].fresh /\ IsVisitor(p, visitor[p])
        /\ DOMAIN Program[p] = 1..(main.node - 1)
    BY <1>1, NodeFacts
  <1>3. /\ main'.at = "proc" /\ main'.proc = p + 1 /\ ~InRun'
        /\ p + 1 \in 1..(NumProcs + 1) /\ 1..(main'.proc - 1) = 1..(p - 1) \cup {p}
    BY <1>1, <1>2, ProgramFacts DEF At, InRun
  <1>4. /\ tick \in [completed : SUBSET Procs, blocked : SUBSET Channels,
                     pass : BOOLEAN, global : BOOLEAN]
        /\ run \in [complete : BOOLEAN, progress : BOOLEAN, blocked : SUBSET Channels]
    BY DEF IInv, Shapes
  <1>5. /\ tick' \in [completed : SUBSET Procs, blocked : SUBSET Channels,
                      pass : BOOLEAN, global : BOOLEAN]
        /\ tick'.pass = (tick.pass \/ run.progress) /\ tick'.global = tick.global
        /\ tick'.completed = IF run.complete THEN tick.completed \cup {p} ELSE tick.completed
        /\ tick'.blocked = tick.blocked \cup run.blocked
    BY <1>1, <1>2, <1>4, Zenon
  <1>6. run.complete => Complete(p, visitor[p])
    BY <1>1, <1>2, Zenon DEF IInv, RunInOrder, Complete, IsVisitor
  <1>7. ~run.progress => Stuck(p) /\ run.blocked = AwaitedBy(p) /\ ~run.complete
    BY <1>1, <1>2, <1>6 DEF IInv, RunIdle, Stuck, AwaitedBy
  <1>8. Shapes'
    BY <1>1, <1>3, <1>5, ProgramFacts, SMTT(60) DEF IInv, Shapes, At, Phases
  <1>9. RunPlace' /\ RunInOrder' /\ RunIdle'
    BY <1>3 DEF RunPlace, RunInOrder, RunIdle
  <1>10. CompletedComplete'
    BY <1>1, <1>2, <1>3, <1>5, <1>6 DEF IInv, CompletedComplete, Complete
  <1>11. NothingCompleted'
    BY <1>1, <1>3, <1>5, <1>7, Zenon DEF IInv, NothingCompleted
  <1>12. PassIdle'
    <2>1. SUFFICES ASSUME Quiet' PROVE PassIdle'
      BY DEF PassIdle
    <2>2. Quiet /\ ~run.progress
      BY <1>1, <1>4, <1>5, <2>1 DEF Quiet
    <2>3. \A q : (Stuck(q)' <=> Stuck(q)) /\ AwaitedBy(q)' = AwaitedBy(q)
      BY <1>1 DEF Stuck, AwaitedBy, Ready, Blocked, Enabled, Complete
    <2>4. \A q \in 1..(main'.proc - 1) : q \in tick'.completed \/ Stuck(q)'
      BY <1>3, <1>5, <1>7, <2>2, <2>3 DEF IInv, PassIdle
    <2>5. tick.blocked = UNION {AwaitedBy(q) : q \in 1..(p - 1)}
      BY <2>2 DEF IInv, PassIdle
    <2>6. UNION {AwaitedBy(q)' : q \in 1..(main'.proc - 1)}
            = (UNION {AwaitedBy(q) : q \in 1..(p - 1)}) \cup AwaitedBy(p)
      BY <1>3, <2>3
    <2>7. tick'.blocked = UNION {AwaitedBy(q)' : q \in 1..(main'.proc - 1)}
      BY <1>5, <1>7, <2>2, <2>5, <2>6
    <2> QED
      BY <2>4, <2>7 DEF PassIdle
  <1> QED
    BY <1>8, <1>9, <1>10, <1>11, <1>12 DEF IInv

\* The next pass starts with no proc.
LEMMA NextPassIInv ==
  ASSUME IInv, NextPass
  PROVE  IInv'
  <1>1. /\ main.at = "proc" /\ main' = At("proc", 1, 0) /\ UNCHANGED <<queue, visitor, run>>
        /\ tick' = [tick EXCEPT !.pass = FALSE, !.global = TRUE, !.blocked = {}]
    BY DEF NextPass
  <1>2. main'.at = "proc" /\ main'.proc = 1 /\ ~InRun' /\ 1..(main'.proc - 1) = {}
    BY <1>1 DEF At, InRun
  <1>3. /\ tick' \in [completed : SUBSET Procs, blocked : SUBSET Channels,
                      pass : BOOLEAN, global : BOOLEAN]
        /\ tick'.global = TRUE /\ tick'.completed = tick.completed /\ tick'.blocked = {}
    BY <1>1, Zenon DEF IInv, Shapes
  <1>4. Shapes' /\ RunPlace' /\ RunInOrder' /\ RunIdle'
    BY <1>1, <1>2, <1>3, ProgramFacts
       DEF IInv, Shapes, At, Phases, RunPlace, RunInOrder, RunIdle
  <1>5. CompletedComplete' /\ NothingCompleted'
    BY <1>1, <1>2, <1>3 DEF IInv, CompletedComplete, NothingCompleted, Complete
  <1>6. PassIdle'
    BY <1>2, <1>3 DEF PassIdle
  <1> QED
    BY <1>4, <1>5, <1>6 DEF IInv

\* A tick ends: the call returns or another tick begins.
LEMMA EndTickIInv ==
  ASSUME IInv, EndTick
  PROVE  IInv'
  <1>1. UNCHANGED <<visitor, run>>
    BY DEF EndTick
  <1>2. (\E c : Again(c)) \/ (\E o : Return(o))
    BY DEF EndTick, UntilOutput, UntilBlocked
  <1>3. CASE \E c : Again(c)
    <2>1. tick' = NewTick /\ main' = At("proc", 1, 0)
      BY <1>3, Zenon DEF Again
    <2>2. Shapes'
      BY <1>1, <2>1, ProgramFacts DEF IInv, Shapes, At, NewTick, Phases
    <2> QED
      BY <2>1, <2>2, TickIInv
  <1>4. CASE \E o : Return(o)
    <2>1. tick' = NewTick /\ main' = At("user", 0, 0)
      BY <1>4 DEF Return
    <2>2. Shapes' /\ main'.at = "user"
      BY <1>1, <2>1, ProgramFacts DEF IInv, Shapes, At, NewTick, Phases
    <2> QED
      BY <2>2, UserIInv
  <1> QED
    BY <1>2, <1>3, <1>4

\* Every step of the interpreter and of its caller keeps the invariant.
LEMMA NextIInv == IInv /\ [Next]_vars => IInv'
  <1> SUFFICES ASSUME IInv, [Next]_vars PROVE IInv'
    OBVIOUS
  <1>1. CASE Step
    BY <1>1, RunProcIInv, RunFreshIInv, RunNodeIInv, EndRunIInv, NextPassIInv,
       EndTickIInv, SMTT(60)
    DEF Step
  <1>2. CASE Next /\ ~Step
    BY <1>2, CallerIInv, Zenon
    DEF Next, AtUser, Tick, TickUntilBlocked, TickUntilOutput, ResetState, Enqueue, Dequeue
  <1>3. CASE UNCHANGED vars
    <2>1. UNCHANGED <<queue, visitor, main, run, tick>>
      BY <1>3, Zenon DEF vars
    <2>2. /\ \A p, i : (Ready(p, i)' <=> Ready(p, i)) /\ (Blocked(p, i)' <=> Blocked(p, i))
          /\ \A p : (Stuck(p)' <=> Stuck(p)) /\ AwaitedBy(p)' = AwaitedBy(p)
      BY <2>1, Zenon DEF Stuck, AwaitedBy, Ready, Blocked, Enabled, Complete
    <2>3. Shapes' /\ RunPlace' /\ CompletedComplete' /\ RunInOrder' /\ NothingCompleted'
      BY <2>1, Zenon DEF IInv, Shapes, RunPlace, InRun, CompletedComplete, RunInOrder,
                  NothingCompleted, Complete
    <2>4. RunIdle'
      BY <2>1, <2>2 DEF IInv, RunIdle, Complete
    <2>5. PassIdle'
      BY <2>1, <2>2 DEF IInv, PassIdle, Quiet, InRun
    <2> QED
      BY <2>3, <2>4, <2>5 DEF IInv
  <1> QED
    BY <1>1, <1>2, <1>3

\* So the invariant always holds.
LEMMA SpecIInv == Spec => []IInv
  BY InitIInv, NextIInv, PTL DEF Spec

\* In every network, a tick runs to the fixpoint: when it ends, every proc has
\* completed its iteration or can execute no node, and one that executed nothing
\* leaves every proc waiting for data on exactly the channels reported.
THEOREM TicksRunToFixpoint == Spec => TickRunsToFixpoint
  <1>1. ASSUME IInv, EndTick
        PROVE  /\ \A p \in Procs : (p \in tick.completed /\ Complete(p, visitor[p])) \/ Stuck(p)
               /\ ~tick.global =>
                     /\ \A p \in Procs : Stuck(p)
                     /\ tick.blocked = UNION {AwaitedBy(p) : p \in Procs}
    <2>1. main.at = "proc" /\ main.proc \notin Procs /\ ~tick.pass /\ ~InRun
      BY <1>1 DEF EndTick, InRun
    <2>2. 1..(main.proc - 1) = Procs
      <3>1. main.proc \in 1..(NumProcs + 1)
        BY <1>1, <2>1, Zenon DEF IInv, RunPlace
      <3>2. Procs = 1..NumProcs /\ NumProcs \in Nat \ {0}
        BY ProgramFacts, Zenon
      <3> QED
        BY <2>1, <3>1, <3>2
    <2>3. /\ \A p \in Procs : p \in tick.completed \/ Stuck(p)
          /\ tick.blocked = UNION {AwaitedBy(p) : p \in Procs}
      BY <1>1, <2>1, <2>2, Zenon DEF IInv, PassIdle, Quiet
    <2>4. \A p \in tick.completed : Complete(p, visitor[p])
      BY <1>1, <2>1 DEF IInv, CompletedComplete
    <2>5. ~tick.global => tick.completed = {}
      BY <1>1, <2>1, Zenon DEF IInv, NothingCompleted
    <2> QED
      BY <2>3, <2>4, <2>5
  <1> QED
    BY <1>1, SpecIInv, PTL DEF Spec, TickRunsToFixpoint

------------------------------------------------------------------------------
(* The interpreter implements the network of procs *)

\* An executed node is an executed operation of the network.
LEMMA ExecuteImplements ==
  ASSUME IInv, main.at = "node", main.node \in DOMAIN Program[main.proc],
         Ready(main.proc, main.node), NEW r, Execute(r)
  PROVE  /\ main.proc \in Running /\ main.node \notin NetDone[main.proc]
         /\ Program[main.proc][main.node].deps \subseteq NetDone[main.proc]
         /\ NetState[main.proc] = visitor[main.proc].state
         /\ NetGot[main.proc] = visitor[main.proc].got
         /\ Network!Executed(main.proc, main.node, r)
  <1> DEFINE p == main.proc
  <1> DEFINE i == main.node
  <1>1. p \in Procs /\ visitor[p] # NoVisitor /\ ~visitor[p].fresh
    BY NodeFacts
  <1>2. /\ DOMAIN visitor' = Procs /\ \A q \in Procs \ {p} : visitor'[q] = visitor[q]
        /\ visitor'[p] # NoVisitor
        /\ ~visitor'[p].fresh /\ visitor'[p].state = visitor[p].state
        /\ visitor'[p].done = visitor[p].done \cup {i}
        /\ visitor'[p].got = [visitor[p].got EXCEPT ![i] = r]
    BY ExecuteFacts, Zenon
  <1>3. p \in Running /\ Running' = Running
    BY <1>1, <1>2, Zenon DEF Running
  <1>4. NetDone[p] = visitor[p].done /\ NetGot[p] = visitor[p].got
        /\ NetState[p] = visitor[p].state
    BY <1>1, SMTT(60) DEF NetDone, NetGot, NetState
  <1>5. NetDone' = [NetDone EXCEPT ![p] = @ \cup {i}]
    BY <1>1, <1>2, <1>4, ZenonT(60) DEF NetDone
  <1>6. NetGot' = [NetGot EXCEPT ![p][i] = r]
    BY <1>1, <1>2, <1>4, Zenon DEF NetGot
  <1>7. NetState' = NetState
    BY <1>1, <1>2, <1>4, Zenon DEF NetState
  <1> QED
    BY <1>3, <1>4, <1>5, <1>6, <1>7, Zenon DEF Ready, Network!Executed

\* A step that changes neither queues nor visitors is a stutter of the network.
LEMMA Stutters == UNCHANGED <<queue, visitor>> => UNCHANGED Network!vars
  BY DEF Network!vars, Running, NetDone, NetGot, NetState

\* Each step of a run and of a tick.
LEMMA StepImplements ==
  ASSUME IInv, Step
  PROVE  Network!Next \/ UNCHANGED Network!vars
  <1> DEFINE p == main.proc
  <1> DEFINE i == main.node
  <1>1. CASE RunProc
    <2>1. CASE UNCHANGED visitor
      BY <1>1, <2>1, Stutters DEF RunProc
    <2>2. CASE p \in Procs /\ visitor' = [visitor EXCEPT ![p] = CurrentVisitor(p)]
      <3>1. UNCHANGED queue
        BY <1>1 DEF RunProc
      <3>2. /\ visitor'[p] = CurrentVisitor(p) /\ DOMAIN visitor' = Procs
            /\ \A q \in Procs \ {p} : visitor'[q] = visitor[q]
        BY <2>2 DEF IInv, Shapes
      <3>3. CASE visitor[p] = NoVisitor
        <4>1. visitor'[p] = NewVisitor(p, InitState[p])
          BY <3>2, <3>3, Zenon DEF CurrentVisitor
        <4>2. /\ visitor'[p] # NoVisitor /\ visitor'[p].fresh /\ visitor'[p].done = {}
              /\ visitor'[p].state = InitState[p]
              /\ visitor'[p].got = [j \in DOMAIN Program[p] |-> NoData]
          BY <2>2, <4>1, NewVisitorFacts
        <4>3. Running' = Running
          BY <3>2, <3>3, <4>2, Zenon DEF Running
        <4>4. NetDone' = NetDone /\ NetGot' = NetGot /\ NetState' = NetState
          BY <3>2, <3>3, <4>2, SMTT(60) DEF NetDone, NetGot, NetState
        <4> QED
          BY <3>1, <4>3, <4>4, Zenon DEF Network!vars
      <3>4. CASE visitor[p] # NoVisitor /\ Complete(p, visitor[p])
        <4>1. visitor'[p] = NewVisitor(p, NextState(p, visitor[p].state, visitor[p].got))
          BY <3>2, <3>4, Zenon DEF CurrentVisitor
        <4>2. /\ visitor'[p] # NoVisitor /\ visitor'[p].fresh /\ visitor'[p].done = {}
              /\ visitor'[p].state = NextState(p, visitor[p].state, visitor[p].got)
              /\ visitor'[p].got = [j \in DOMAIN Program[p] |-> NoData]
          BY <2>2, <4>1, NewVisitorFacts
        <4>3. p \in Running /\ Running' = Running \ {p}
          BY <2>2, <3>2, <3>4, <4>2, Zenon DEF Running, Complete
        <4>4. /\ NetDone[p] = DOMAIN Program[p] /\ NetState[p] = visitor[p].state
              /\ NetGot[p] = visitor[p].got
          BY <2>2, <3>4 DEF NetDone, NetState, NetGot, Complete
        <4>5. NetDone' = [NetDone EXCEPT ![p] = {}]
          BY <2>2, <3>2, <4>2, ZenonT(60) DEF NetDone
        <4>6. NetGot' = [NetGot EXCEPT ![p] = [j \in DOMAIN Program[p] |-> NoData]]
          BY <2>2, <3>2, <4>2, ZenonT(60) DEF NetGot
        <4>7. NetState' = [NetState EXCEPT ![p] = NextState(p, NetState[p], NetGot[p])]
          BY <2>2, <3>2, <4>2, <4>4, SMTT(60) DEF NetState
        <4>8. Network!Finish(p)
          BY <3>1, <4>3, <4>4, <4>5, <4>6, <4>7, Zenon
          DEF Network!Finish, Network!Ops, Network!NoResults
        <4> QED
          BY <2>2, <4>8, Zenon DEF Network!Next
      <3>5. CASE visitor[p] # NoVisitor /\ ~Complete(p, visitor[p])
        <4>1. \A q \in Procs : visitor'[q] = visitor[q]
          BY <3>2, <3>5 DEF CurrentVisitor
        <4> QED
          BY <3>1, <4>1, Zenon DEF Network!vars, Running, NetDone, NetGot, NetState
      <3> QED
        BY <3>3, <3>4, <3>5
    <2> QED
      BY <1>1, <2>1, <2>2 DEF RunProc
  <1>2. CASE RunFreshNodes
    <2>1. /\ p \in Procs /\ IsVisitor(p, visitor[p]) /\ visitor[p] # NoVisitor
          /\ UNCHANGED queue
      BY <1>2 DEF IInv, RunPlace, InRun, Shapes, RunFreshNodes
    <2>2. /\ visitor'[p] = [visitor[p] EXCEPT !.fresh = FALSE] /\ DOMAIN visitor' = Procs
          /\ \A q \in Procs \ {p} : visitor'[q] = visitor[q]
      BY <1>2, <2>1 DEF IInv, Shapes, RunFreshNodes
    <2>3. /\ visitor'[p].in = "iteration" /\ visitor'[p].state = visitor[p].state
          /\ ~visitor'[p].fresh /\ visitor'[p].done = visitor[p].done
          /\ visitor'[p].got = visitor[p].got
      BY <2>1, <2>2 DEF IsVisitor
    <2>4. visitor'[p] # NoVisitor
      BY <2>3 DEF NoVisitor
    <2>5. Running' = Running \cup {p}
      BY <2>1, <2>2, <2>3, <2>4, Zenon DEF Running
    <2>6. NetDone' = NetDone /\ NetGot' = NetGot /\ NetState' = NetState
      BY <2>1, <2>2, <2>3, <2>4, ZenonT(60) DEF NetDone, NetGot, NetState
    <2>7. CASE p \in Running
      BY <2>1, <2>5, <2>6, <2>7 DEF Network!vars
    <2>8. CASE p \notin Running
      <3>1. Network!Start(p)
        BY <2>1, <2>5, <2>6, <2>8 DEF Network!Start
      <3> QED
        BY <2>1, <3>1 DEF Network!Next
    <2> QED
      BY <2>7, <2>8
  <1>3. CASE RunNode
    <2>1. main.at = "node" /\ i \in DOMAIN Program[p] /\ p \in Procs
      BY <1>3, NodeFacts DEF RunNode
    <2>2. CASE PassOver(p, i)
      BY <2>2, Stutters DEF PassOver
    <2>3. ASSUME Network!Execute(p, i) PROVE Network!Next
      BY <2>1, <2>3, Zenon DEF Network!Next, Network!Ops
    <2>4. ASSUME NEW r, Ready(p, i), Execute(r)
          PROVE  /\ p \in Running /\ i \notin NetDone[p]
                 /\ Program[p][i].deps \subseteq NetDone[p]
                 /\ NetState[p] = visitor[p].state /\ NetGot[p] = visitor[p].got
                 /\ Network!Executed(p, i, r)
      BY <2>1, <2>4, ExecuteImplements
    <2>5. CASE HandleSend(p, i)
      <3> DEFINE c == Program[p][i].ch
      <3>1. /\ Ready(p, i) /\ Program[p][i].kind = "send" /\ Execute(NoData)
            /\ queue' = IF Enabled(p, i)
                        THEN [queue EXCEPT ![c] = AfterEnqueue(c, queue[c],
                                SentValue(p, i, visitor[p].state, visitor[p].got))]
                        ELSE queue
        BY <2>5, Zenon DEF HandleSend
      <3>2. /\ p \in Running /\ i \notin NetDone[p]
            /\ Program[p][i].deps \subseteq NetDone[p]
            /\ NetState[p] = visitor[p].state /\ NetGot[p] = visitor[p].got
            /\ Network!Executed(p, i, NoData)
        BY <2>4, <3>1, Zenon
      <3>3. CASE Enabled(p, i)
        <4>1. /\ NetState[p] \in Program[p][i].when
              /\ queue' = [queue EXCEPT ![c] = Network!AfterSend(c, queue[c],
                              SentValue(p, i, NetState[p], NetGot[p]))]
          BY <3>1, <3>2, <3>3, Zenon DEF Enabled, AfterEnqueue, Network!AfterSend
        <4>2. Network!Execute(p, i)
          BY <3>1, <3>2, <4>1, ZenonT(60) DEF Network!Execute
        <4> QED
          BY <2>3, <4>2, Zenon
      <3>4. CASE ~Enabled(p, i)
        <4>1. NetState[p] \notin Program[p][i].when /\ UNCHANGED queue
          BY <3>1, <3>2, <3>4, Zenon DEF Enabled
        <4>2. Network!Execute(p, i)
          BY <3>1, <3>2, <4>1, ZenonT(60) DEF Network!Execute
        <4> QED
          BY <2>3, <4>2
      <3> QED
        BY <3>3, <3>4, Zenon
    <2>6. CASE HandleReceive(p, i)
      <3> DEFINE c == Program[p][i].ch
      <3>1. Ready(p, i) /\ Program[p][i].kind # "send" /\ ~Blocked(p, i)
        BY <2>6, ZenonT(60) DEF HandleReceive
      <3>2. CASE ~Enabled(p, i) /\ Execute(Zero) /\ UNCHANGED queue
        <4>1. NetState[p] \notin Program[p][i].when
          BY <2>4, <3>1, <3>2, Zenon DEF Enabled
        <4>2. Network!Execute(p, i)
          BY <2>4, <3>1, <3>2, <4>1, ZenonT(60) DEF Network!Execute
        <4> QED
          BY <2>3, <4>2
      <3>3. CASE Enabled(p, i) /\ queue[c] = <<>> /\ Execute(NoData) /\ UNCHANGED queue
        <4>1. NetState[p] \in Program[p][i].when
          BY <2>4, <3>1, <3>3, Zenon DEF Enabled
        <4>2. Program[p][i].kind = "nbrecv"
          BY <2>1, <3>1, <3>3, ProgramFacts, SMTT(60) DEF Blocked
        <4>3. Network!Execute(p, i)
          BY <2>4, <3>1, <3>3, <4>1, <4>2, ZenonT(60) DEF Network!Execute
        <4> QED
          BY <2>3, <4>3
      <3>4. CASE /\ Enabled(p, i) /\ queue[c] # <<>> /\ Execute(Head(queue[c]))
                 /\ queue' = [queue EXCEPT ![c] = AfterDequeue(c, queue[c])]
        <4>1. NetState[p] \in Program[p][i].when
          BY <2>4, <3>1, <3>4, ZenonT(60) DEF Enabled
        <4>2. queue' = [queue EXCEPT ![c] = Network!AfterRecv(c, queue[c])]
          BY <3>4, ZenonT(60) DEF AfterDequeue, Network!AfterRecv
        <4>3. Network!Executed(p, i, Head(queue[c])) /\ p \in Running /\ i \notin NetDone[p]
              /\ Program[p][i].deps \subseteq NetDone[p]
          BY <2>4, <3>1, <3>4, ZenonT(60)
        <4>4. Network!Execute(p, i)
          BY <3>1, <3>4, <4>1, <4>2, <4>3, Zenon DEF Network!Execute
        <4> QED
          BY <2>3, <4>4
      <3> QED
        BY <2>6, <3>2, <3>3, <3>4, ZenonT(60) DEF HandleReceive
    <2> QED
      BY <1>3, <2>2, <2>5, <2>6, Zenon DEF RunNode
  <1>4. CASE EndRun \/ NextPass \/ EndTick
    BY <1>4, Stutters DEF EndRun, NextPass, EndTick
  <1> QED
    BY <1>1, <1>2, <1>3, <1>4, SMTT(60) DEF Step

\* What the caller does.
LEMMA CallerImplements ==
  ASSUME IInv, [Next]_vars, ~Step
  PROVE  Network!Next \/ UNCHANGED Network!vars
  <1>1. CASE \/ Tick \/ TickUntilBlocked \/ UNCHANGED vars
             \/ \E counts \in OutputCounts : TickUntilOutput(counts)
    BY <1>1, Stutters, ZenonT(60) DEF Tick, TickUntilBlocked, TickUntilOutput, vars
  <1>2. ASSUME UNCHANGED visitor PROVE UNCHANGED <<Running, NetDone, NetGot, NetState>>
    BY <1>2 DEF Running, NetDone, NetGot, NetState
  <1>3. ASSUME NEW c \in Inputs, NEW v \in Values, Enqueue(c, v)
        PROVE  Network!Next
    <2>1. Network!Enqueue(c, v)
      BY <1>2, <1>3 DEF Enqueue, Network!Enqueue, Network!AfterSend, AfterEnqueue
    <2> QED
      BY <2>1 DEF Network!Next
  <1>4. ASSUME NEW c \in Outputs, Dequeue(c)
        PROVE  Network!Next
    <2>1. Network!Dequeue(c)
      BY <1>2, <1>4 DEF Dequeue, Network!Dequeue, Network!AfterRecv, AfterDequeue
    <2> QED
      BY <2>1 DEF Network!Next
  <1>5. CASE ResetState
    <2>1. UNCHANGED queue /\ visitor' = [p \in Procs |-> NewVisitor(p, InitState[p])]
      BY <1>5, Zenon DEF ResetState
    <2>2. \A p \in Procs :
             /\ visitor'[p] # NoVisitor /\ visitor'[p].fresh /\ visitor'[p].done = {}
             /\ visitor'[p].state = InitState[p]
             /\ visitor'[p].got = [i \in DOMAIN Program[p] |-> NoData]
      BY <2>1, NewVisitorFacts
    <2>3. Running' = {} /\ Running \ Procs = {}
      BY <2>2, Zenon DEF Running
    <2>4. /\ NetDone' = [p \in Procs |-> {}] /\ NetState' = [p \in Procs |-> InitState[p]]
          /\ NetGot' = [p \in Procs |-> [i \in DOMAIN Program[p] |-> NoData]]
      BY <2>2, Zenon DEF NetDone, NetState, NetGot
    <2>5. Network!Reset
      BY <2>1, <2>3, <2>4 DEF Network!Reset, Network!NoResults, Network!Ops
    <2> QED
      BY <2>5 DEF Network!Next
  <1> QED
    BY <1>1, <1>3, <1>4, <1>5, SMTT(60) DEF Next

\* For every network of procs the interpreter does what a network of procs may do:
\* every channel operation of an iteration exactly once, after those it depends on,
\* also when one overtakes a blocked receive and when a reset cuts an iteration.
THEOREM InterpreterImplementsNetwork == Spec => ImplementsNetwork
  <1>1. Init => Network!Init
    BY DEF Init, Network!Init, Running, NetDone, NetGot, NetState, Network!NoResults,
           Network!Ops
  <1>2. IInv /\ [Next]_vars => [Network!Next]_(Network!vars)
    BY StepImplements, CallerImplements
  <1> QED
    BY <1>1, <1>2, SpecIInv, PTL DEF Spec, ImplementsNetwork, Network!Spec
=============================================================================
