---------------------------- MODULE ProcNetwork ----------------------------
(***************************************************************************)
(* What running a network of procs means, whichever runtime runs it.  Each *)
(* proc repeats an iteration: its sends and receives, in an order that     *)
(* respects their data and token dependencies, then the step to its next   *)
(* state.  Procs share nothing but channels.  A blocking receive waits for *)
(* data; a receive whose predicate is false yields zero and a send whose   *)
(* predicate is false sends nothing.  The environment feeds the input      *)
(* channels, drains the output channels, may reset the procs between two   *)
(* of its own steps and finally closes the network.                        *)
(*                                                                         *)
(* Program[p] lists the channel operations of proc p; operation i depends  *)
(* on the operations deps, all before i.  A record's when is the set of    *)
(* states in which its predicate holds.                                    *)
(***************************************************************************)
EXTENDS Integers, Sequences

CONSTANTS
    Procs, Program,          \* the procs and their channel operations
    Channels,                \* the channels of the package
    Inputs, Outputs,         \* receive_only and send_only channels
    SingleValue,             \* the single-value channels
    InitialValues,           \* the initial values of each channel
    Values, Zero,            \* channel data
    NoData,                  \* the result of a non-blocking receive from an
                             \* empty channel (its valid bit is zero)
    InitState,               \* the initial state of each proc
    SentValue(_, _, _, _),   \* what operation i of p sends, from state and data
    NextState(_, _, _),      \* the next state of p, from state and data
    ResetCuts                \* a reset ends the iterations in progress

VARIABLES
    queue,     \* the contents of each channel
    running,   \* the procs in the middle of an iteration
    done,      \* operations of the current iteration that have executed
    got,       \* what the receives among them returned
    state,     \* the proc states
    closed     \* the network has been destroyed

vars == <<queue, running, done, got, state, closed>>

Ops(p) == DOMAIN Program[p]

NoResults(p) == [i \in Ops(p) |-> NoData]

\* The contents of a channel after a send and after a receive.  A single-value
\* channel is overwritten by a send and unchanged by a receive.
AfterSend(c, q, v) == IF c \in SingleValue THEN <<v>> ELSE Append(q, v)
AfterRecv(c, q) == IF c \in SingleValue THEN q ELSE Tail(q)

Init ==
    /\ queue = [c \in Channels |-> InitialValues[c]]
    /\ running = {}
    /\ done = [p \in Procs |-> {}]
    /\ got = [p \in Procs |-> NoResults(p)]
    /\ state = [p \in Procs |-> InitState[p]]
    /\ closed = FALSE

------------------------------------------------------------------------------
(* The steps of a proc *)

\* p takes up its current state and begins an iteration.
Start(p) ==
    /\ ~closed
    /\ p \notin running
    /\ running' = running \cup {p}
    /\ UNCHANGED <<queue, done, got, state, closed>>

Executed(p, i, result) ==
    /\ done' = [done EXCEPT ![p] = @ \cup {i}]
    /\ got' = [got EXCEPT ![p][i] = result]
    /\ UNCHANGED <<running, state, closed>>

\* Operation i of p executes.
Execute(p, i) ==
    LET op == Program[p][i]
    IN  /\ ~closed
        /\ p \in running
        /\ i \notin done[p] /\ op.deps \subseteq done[p]
        /\ \/ /\ state[p] \notin op.when
              /\ Executed(p, i, IF op.kind = "send" THEN NoData ELSE Zero)
              /\ UNCHANGED queue
           \/ /\ state[p] \in op.when /\ op.kind = "send"
              /\ queue' = [queue EXCEPT ![op.ch] =
                              AfterSend(op.ch, @, SentValue(p, i, state[p], got[p]))]
              /\ Executed(p, i, NoData)
           \/ /\ state[p] \in op.when /\ op.kind # "send" /\ queue[op.ch] # <<>>
              /\ queue' = [queue EXCEPT ![op.ch] = AfterRecv(op.ch, @)]
              /\ Executed(p, i, Head(queue[op.ch]))
           \/ /\ state[p] \in op.when /\ op.kind = "nbrecv" /\ queue[op.ch] = <<>>
              /\ Executed(p, i, NoData)
              /\ UNCHANGED queue

\* The iteration of p is complete: p steps to its next state.
Finish(p) ==
    /\ ~closed
    /\ p \in running /\ done[p] = Ops(p)
    /\ running' = running \ {p}
    /\ state' = [state EXCEPT ![p] = NextState(p, state[p], got[p])]
    /\ done' = [done EXCEPT ![p] = {}]
    /\ got' = [got EXCEPT ![p] = NoResults(p)]
    /\ UNCHANGED <<queue, closed>>

------------------------------------------------------------------------------
(* The steps of the environment *)

Enqueue(c, v) ==
    /\ ~closed
    /\ queue' = [queue EXCEPT ![c] = AfterSend(c, @, v)]
    /\ UNCHANGED <<running, done, got, state, closed>>

Dequeue(c) ==
    /\ ~closed
    /\ queue[c] # <<>>
    /\ queue' = [queue EXCEPT ![c] = AfterRecv(c, @)]
    /\ UNCHANGED <<running, done, got, state, closed>>

\* Every proc starts over from its initial state; whether one that is in the
\* middle of an iteration gives it up or carries it to its end is up to the
\* runtime.
Reset ==
    LET over == IF ResetCuts THEN Procs ELSE Procs \ running
    IN  /\ ~closed
        /\ running' = running \ over
        /\ state' = [p \in Procs |-> IF p \in over THEN InitState[p] ELSE state[p]]
        /\ done' = [p \in Procs |-> IF p \in over THEN {} ELSE done[p]]
        /\ got' = [p \in Procs |-> IF p \in over THEN NoResults(p) ELSE got[p]]
        /\ UNCHANGED <<queue, closed>>

\* The channels go with the network.
Close ==
    /\ ~closed
    /\ closed' = TRUE
    /\ queue' = [c \in Channels |-> <<>>]
    /\ running' = {}
    /\ done' = [p \in Procs |-> {}]
    /\ got' = [p \in Procs |-> NoResults(p)]
    /\ state' = [p \in Procs |-> InitState[p]]

Next ==
    \/ \E p \in Procs : Start(p) \/ Finish(p) \/ \E i \in Ops(p) : Execute(p, i)
    \/ \E c \in Inputs, v \in Values : Enqueue(c, v)
    \/ \E c \in Outputs : Dequeue(c)
    \/ Reset
    \/ Close

Spec == Init /\ [][Next]_vars
=============================================================================
