----------------------- MODULE ProcNetworkInterpreter -----------------------
(***************************************************************************)
(* ProcNetworkInterpreter and the ProcInterpreters it drives: one thread   *)
(* runs the procs round robin, each as far as its blocked receives allow,  *)
(* until a pass over all procs executes nothing.  A proc's visitor holds   *)
(* the results of the nodes executed in its current iteration; of those,   *)
(* the model keeps the channel operations, and in fresh whether the nodes  *)
(* that depend on none of them (the parameters, to begin with) are still   *)
(* to be executed.  Operations are in the order of topo_sort_.             *)
(***************************************************************************)
EXTENDS Integers, Sequences, FiniteSets

CONSTANTS
    NumProcs, Program,
    Channels, Inputs, Outputs, SingleValue, InitialValues,
    Values, Zero, NoData,
    InitState, SentValue(_, _, _, _), NextState(_, _, _),
    OutputCounts,            \* the output_counts a caller may ask for
    MaxTicks,                \* the max_ticks of TickUntilOutput and -Blocked
    MaxQueued                \* bound: elements in a channel when a call is made

Procs == 1..NumProcs

ASSUME ProgramAssumption ==
    /\ NumProcs \in Nat \ {0}
    /\ \A p \in Procs :
          /\ Len(Program[p]) \in Nat /\ DOMAIN Program[p] = 1..Len(Program[p])
          /\ \A i \in DOMAIN Program[p] :
                /\ Program[p][i].kind \in {"send", "recv", "nbrecv"}
                /\ Program[p][i].ch \in Channels
                /\ Program[p][i].deps \subseteq 1..(i - 1)

VARIABLES
    queue,      \* the contents of each ChannelQueue
    visitor,    \* ProcInterpreter::visitor_ of each proc
    main,       \* where the interpreter is: in which pass step, proc and node
    run,        \* RunResult of the proc being run
    tick,       \* the locals of TickInternal
    call,       \* the call in progress: kind, ticks so far, output_counts
    result      \* the outcome of the latest call

vars == <<queue, visitor, main, run, tick, call, result>>

NoVisitor == [in |-> "null"]

\* A ProcIrInterpreter that has executed nothing.
NewVisitor(p, s) ==
    [in |-> "iteration", state |-> s, fresh |-> TRUE, done |-> {},
     got |-> [i \in DOMAIN Program[p] |-> NoData]]

\* IsIterationComplete, for a visitor: the next token is computed, and with it
\* every channel operation (VerifyTokenConnectivity).
Complete(p, v) == ~v.fresh /\ v.done = DOMAIN Program[p]

\* Enqueue and Dequeue of FifoChannelQueue and SingleValueChannelQueue.
AfterEnqueue(c, q, v) == IF c \in SingleValue THEN <<v>> ELSE Append(q, v)

\* Fault: the front of the queue is read and left there.
AfterDequeuePeek(c, q) == q

AfterDequeue(c, q) == IF c \in SingleValue THEN q ELSE Tail(q)

At(where, p, i) == [at |-> where, proc |-> p, node |-> i]
NewRun == [complete |-> TRUE, progress |-> FALSE, blocked |-> {}]
NewTick == [completed |-> {}, blocked |-> {}, pass |-> FALSE, global |-> FALSE]
NoCall == [kind |-> "none", ticks |-> 0, counts |-> [c \in Outputs |-> 0]]

Init ==
    /\ queue = [c \in Channels |-> InitialValues[c]]
    /\ visitor = [p \in Procs |-> NoVisitor]
    /\ main = At("user", 0, 0)
    /\ run = NewRun
    /\ tick = NewTick
    /\ call = NoCall
    /\ result = "ok"

------------------------------------------------------------------------------
(* ProcInterpreter::RunIterationUntilCompleteOrBlocked *)

\* The visitor the call works with: the current one, or one for a new iteration.
CurrentVisitor(p) ==
    IF visitor[p] = NoVisitor THEN NewVisitor(p, InitState[p])
    ELSE IF Complete(p, visitor[p])
         THEN NewVisitor(p, NextState(p, visitor[p].state, visitor[p].got))
         ELSE visitor[p]

\* TickInternal takes the next proc that has not completed.
RunProc ==
    /\ main.at = "proc" /\ main.proc \in Procs
    /\ \/ /\ main.proc \in tick.completed
          /\ main' = At("proc", main.proc + 1, 0)
          /\ UNCHANGED <<visitor, run>>
       \/ /\ main.proc \notin tick.completed
          /\ visitor' = [visitor EXCEPT ![main.proc] = CurrentVisitor(main.proc)]
          /\ run' = NewRun
          /\ main' = At("fresh", main.proc, 0)
    /\ UNCHANGED <<queue, tick, call, result>>

\* The nodes that need no channel operation.
RunFreshNodes ==
    /\ main.at = "fresh"
    /\ visitor' = [visitor EXCEPT ![main.proc].fresh = FALSE]
    /\ run' = [run EXCEPT !.progress = @ \/ visitor[main.proc].fresh]
    /\ main' = At("node", main.proc, 1)
    /\ UNCHANGED <<queue, tick, call, result>>

\* Operation main.node executes and returns r.
Execute(r) ==
    /\ visitor' = [visitor EXCEPT ![main.proc].done = @ \cup {main.node},
                                  ![main.proc].got[main.node] = r]
    /\ run' = [run EXCEPT !.progress = TRUE]

\* A blocking receive whose channel is empty, or a node whose operands have not
\* been executed, is passed over.
Ready(p, i) == i \notin visitor[p].done /\ Program[p][i].deps \subseteq visitor[p].done

Enabled(p, i) == visitor[p].state \in Program[p][i].when

Blocked(p, i) ==
    /\ Program[p][i].kind = "recv" /\ Enabled(p, i)
    /\ queue[Program[p][i].ch] = <<>>

\* Fault: a run that leaves a receive blocked counts as complete.
PassOverComplete(p, i) ==
    /\ ~Ready(p, i) \/ Blocked(p, i)
    /\ run' = IF Ready(p, i) THEN [run EXCEPT !.blocked = @ \cup {Program[p][i].ch}] ELSE run
    /\ UNCHANGED <<queue, visitor>>

PassOver(p, i) ==
    /\ ~Ready(p, i) \/ Blocked(p, i)
    /\ run' = IF Ready(p, i)
              THEN [run EXCEPT !.complete = FALSE,
                               !.blocked = @ \cup {Program[p][i].ch}]
              ELSE run
    /\ UNCHANGED <<queue, visitor>>

\* HandleSend
HandleSend(p, i) ==
    LET c == Program[p][i].ch
    IN  /\ Ready(p, i) /\ Program[p][i].kind = "send"
        /\ Execute(NoData)
        /\ queue' = IF Enabled(p, i)
                    THEN [queue EXCEPT ![c] = AfterEnqueue(c, @,
                             SentValue(p, i, visitor[p].state, visitor[p].got))]
                    ELSE queue

\* HandleReceive, blocking or not
HandleReceive(p, i) ==
    LET c == Program[p][i].ch
    IN  /\ Ready(p, i) /\ Program[p][i].kind # "send" /\ ~Blocked(p, i)
        /\ \/ /\ ~Enabled(p, i)
              /\ Execute(Zero)
              /\ UNCHANGED queue
           \/ /\ Enabled(p, i) /\ queue[c] = <<>>
              /\ Execute(NoData)
              /\ UNCHANGED queue
           \/ /\ Enabled(p, i) /\ queue[c] # <<>>
              /\ Execute(Head(queue[c]))
              /\ queue' = [queue EXCEPT ![c] = AfterDequeue(c, @)]

RunNode ==
    LET p == main.proc
        i == main.node
    IN  /\ main.at = "node" /\ i \in DOMAIN Program[p]
        /\ PassOver(p, i) \/ HandleSend(p, i) \/ HandleReceive(p, i)
        /\ main' = At("node", p, i + 1)
        /\ UNCHANGED <<tick, call, result>>

\* The run returns to TickInternal.
EndRun ==
    /\ main.at = "node" /\ main.node \notin DOMAIN Program[main.proc]
    /\ tick' = [tick EXCEPT !.pass = @ \/ run.progress,
                            !.completed = IF run.complete THEN @ \cup {main.proc} ELSE @,
                            !.blocked = @ \cup run.blocked]
    /\ main' = At("proc", main.proc + 1, 0)
    /\ UNCHANGED <<queue, visitor, run, call, result>>

------------------------------------------------------------------------------
(* TickInternal and the calls built on it *)

\* Fault: the progress flag of the pass is not reset.
NextPassKeepsFlag ==
    /\ main.at = "proc" /\ main.proc \notin Procs
    /\ tick.pass
    /\ tick' = [tick EXCEPT !.global = TRUE, !.blocked = {}]
    /\ main' = At("proc", 1, 0)
    /\ UNCHANGED <<queue, visitor, run, call, result>>

\* Another pass, if this one made progress.
NextPass ==
    /\ main.at = "proc" /\ main.proc \notin Procs
    /\ tick.pass
    /\ tick' = [tick EXCEPT !.pass = FALSE, !.global = TRUE, !.blocked = {}]
    /\ main' = At("proc", 1, 0)
    /\ UNCHANGED <<queue, visitor, run, call, result>>

Return(outcome) ==
    /\ result' = outcome
    /\ main' = At("user", 0, 0)
    /\ call' = NoCall
    /\ tick' = NewTick

\* TickInternal is called: by the call that is made, or by its loop.
Again(c) ==
    /\ call' = c
    /\ tick' = NewTick
    /\ main' = At("proc", 1, 0)
    /\ UNCHANGED result

\* needs_more_output
NeedsMore(counts) == \E c \in Outputs : Len(queue[c]) < counts[c]

\* The loop of TickUntilOutput, at its head.
UntilOutput(c) ==
    \/ ~NeedsMore(c.counts) /\ Return("ok")
    \/ NeedsMore(c.counts) /\ c.ticks >= MaxTicks /\ Return("deadline")
    \/ NeedsMore(c.counts) /\ c.ticks < MaxTicks /\ Again(c)

\* The loop of TickUntilBlocked, at its head.
UntilBlocked(c) ==
    \/ c.ticks >= MaxTicks /\ Return("deadline")
    \/ c.ticks < MaxTicks /\ Again(c)

\* A pass without progress: TickInternal returns whether any pass had some.
EndTick ==
    /\ main.at = "proc" /\ main.proc \notin Procs
    /\ ~tick.pass
    /\ LET next == [call EXCEPT !.ticks = @ + 1]
       IN  \/ call.kind # "blocked" /\ ~tick.global /\ Return("deadlock")
           \/ call.kind = "blocked" /\ ~tick.global /\ Return("ok")
           \/ call.kind = "tick" /\ tick.global /\ Return("ok")
           \/ call.kind = "output" /\ tick.global /\ UntilOutput(next)
           \/ call.kind = "blocked" /\ tick.global /\ UntilBlocked(next)
    /\ UNCHANGED <<queue, visitor, run>>

Step == RunProc \/ RunFreshNodes \/ RunNode \/ EndRun \/ NextPass \/ EndTick

------------------------------------------------------------------------------
(* The caller *)

AtUser == main.at = "user"
Bounded == \A c \in Channels : Len(queue[c]) < MaxQueued

Tick ==
    /\ AtUser /\ Bounded
    /\ Again([NoCall EXCEPT !.kind = "tick"])
    /\ UNCHANGED <<queue, visitor, run>>

TickUntilOutput(counts) ==
    /\ AtUser /\ Bounded
    /\ UntilOutput([NoCall EXCEPT !.kind = "output", !.counts = counts])
    /\ UNCHANGED <<queue, visitor, run>>

TickUntilBlocked ==
    /\ AtUser /\ Bounded
    /\ UntilBlocked([NoCall EXCEPT !.kind = "blocked"])
    /\ UNCHANGED <<queue, visitor, run>>

ResetState ==
    /\ AtUser
    /\ visitor' = [p \in Procs |-> NewVisitor(p, InitState[p])]
    /\ UNCHANGED <<queue, main, run, tick, call, result>>

Enqueue(c, v) ==
    /\ AtUser
    /\ c \in SingleValue \/ Len(queue[c]) < MaxQueued
    /\ queue' = [queue EXCEPT ![c] = AfterEnqueue(c, @, v)]
    /\ UNCHANGED <<visitor, main, run, tick, call, result>>

Dequeue(c) ==
    /\ AtUser
    /\ queue[c] # <<>>
    /\ queue' = [queue EXCEPT ![c] = AfterDequeue(c, @)]
    /\ UNCHANGED <<visitor, main, run, tick, call, result>>

Next ==
    \/ Step
    \/ Tick \/ TickUntilBlocked \/ \E counts \in OutputCounts : TickUntilOutput(counts)
    \/ ResetState
    \/ \E c \in Inputs, v \in Values : Enqueue(c, v)
    \/ \E c \in Outputs : Dequeue(c)

\* A call that has been made runs.
Spec == Init /\ [][Next]_vars /\ WF_vars(Step)

------------------------------------------------------------------------------
(* Properties *)

\* Proc p is in an iteration and everything it could execute waits for data.
Stuck(p) ==
    /\ visitor[p] # NoVisitor /\ ~visitor[p].fresh /\ ~Complete(p, visitor[p])
    /\ \A i \in DOMAIN Program[p] : Ready(p, i) => Blocked(p, i)

AwaitedBy(p) ==
    {Program[p][i].ch : i \in {j \in DOMAIN Program[p] : Ready(p, j) /\ Blocked(p, j)}}

\* "each proc is executed until no further progress can be made" (Tick): when a
\* tick ends, every proc has completed its iteration or cannot execute any node,
\* even if what unblocked it was sent by a proc that runs after it.  And "This is
\* necessarily a deadlock" (Tick), "until all procs are blocked on receive
\* operations" (TickUntilBlocked): a tick without progress means that every proc
\* waits for data, on exactly the channels that are reported.
TickRunsToFixpoint ==
    [][EndTick =>
          /\ \A p \in Procs : (p \in tick.completed /\ Complete(p, visitor[p])) \/ Stuck(p)
          /\ ~tick.global =>
                /\ \A p \in Procs : Stuck(p)
                /\ tick.blocked = UNION {AwaitedBy(p) : p \in Procs}]_vars

\* Every call returns: the passes of a tick and the ticks of a call are finitely
\* many, though a proc without receives could run for ever.
CallsReturn == main.at # "user" ~> main.at = "user"

Running == {p \in Procs : visitor[p] # NoVisitor /\ ~visitor[p].fresh}
NetDone == [p \in Procs |-> IF visitor[p] = NoVisitor THEN {} ELSE visitor[p].done]
NetGot ==
    [p \in Procs |-> IF visitor[p] = NoVisitor
                     THEN [i \in DOMAIN Program[p] |-> NoData] ELSE visitor[p].got]
NetState ==
    [p \in Procs |-> IF visitor[p] = NoVisitor THEN InitState[p] ELSE visitor[p].state]

Network == INSTANCE ProcNetwork WITH
    ResetCuts <- TRUE, closed <- FALSE,
    running <- Running, done <- NetDone, got <- NetGot, state <- NetState

\* The interpreter does what a network of procs may do, receives that overtake a
\* blocked one and resets in the middle of an iteration included.
ImplementsNetwork == Network!Spec
=============================================================================
