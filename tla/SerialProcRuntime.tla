------------------------- MODULE SerialProcRuntime -------------------------
(***************************************************************************)
(* SerialProcRuntime: one thread per JIT-compiled proc, woken one at a     *)
(* time.  Each thread shares thread_state with the main thread, under the  *)
(* thread's mutex; both sides wait on it with Mutex::Await.  A step of the *)
(* model is a critical section, or the JITed code between two of them, as  *)
(* far as its one channel operation.  The environment may use the channel  *)
(* queues while a Tick is in progress (another thread of the test or tool  *)
(* that owns the runtime).                                                 *)
(***************************************************************************)
EXTENDS Integers, Sequences, FiniteSets

CONSTANTS
    NumProcs, Program,       \* proc i runs on thread i; its channel operations
    Channels, Inputs, Outputs, SingleValue, InitialValues,
    Values, Zero, NoData,
    InitState, SentValue(_, _, _, _), NextState(_, _, _),
    MaxQueued                \* bound: elements in an input or output channel

Procs == 1..NumProcs

VARIABLES
    main,           \* the main thread: where it is, and at which thread
    at,             \* each thread: where it is
    thread_state,   \* ThreadData::thread_state
    proc_state,     \* ThreadData::proc_state
    arg,            \* the state the running iteration began with
    got,            \* what the receives of the iteration returned
    queue           \* the contents of each JitChannelQueue

vars == <<main, at, thread_state, proc_state, arg, got, queue>>

ASSUME ProgramAssumption ==
    /\ NumProcs \in Nat \ {0}
    /\ \A p \in Procs :
          /\ Len(Program[p]) \in Nat /\ DOMAIN Program[p] = 1..Len(Program[p])
          /\ \A i \in DOMAIN Program[p] : Program[p][i].deps \subseteq 1..(i - 1)

NoResults(p) == [i \in DOMAIN Program[p] |-> NoData]

\* The contents of a FifoJitChannelQueue or SingleValueJitChannelQueue after a
\* Send and after a Recv that returned true.
AfterSend(c, q, v) == IF c \in SingleValue THEN <<v>> ELSE Append(q, v)
AfterRecv(c, q) == IF c \in SingleValue THEN q ELSE Tail(q)

\* Where a thread is: waiting in AwaitState for its first Tick ("start"), in
\* RecvFn ("blocked") or between iterations ("done"); about to execute
\* operation i ("run"); returned from ThreadFn ("exited"); or aborted by a
\* failed XLS_CHECK ("crashed").
At(where, i) == [in |-> where, op |-> i]

\* Init: threads created, their states reset, initial values enqueued.
Init ==
    /\ main = [at |-> "user", thread |-> 0]
    /\ at = [p \in Procs |-> At("start", 0)]
    /\ thread_state = [p \in Procs |-> "kPending"]
    /\ proc_state = [p \in Procs |-> InitState[p]]
    /\ arg = [p \in Procs |-> InitState[p]]
    /\ got = [p \in Procs |-> NoResults(p)]
    /\ queue = [c \in Channels |-> InitialValues[c]]

------------------------------------------------------------------------------
(* The proc threads *)

\* AwaitState in a proc thread returns.
Woken(p) == thread_state[p] \in {"kRunning", "kCancelled"}

\* Fault: the iteration begins with the state of the last one.
BeginIterationStale(p) ==
    /\ Woken(p)
    /\ \/ at[p].in = "start"
       \/ at[p].in = "done" /\ thread_state[p] = "kRunning"
    /\ at' = [at EXCEPT ![p] = At("run", 1)]
    /\ got' = [got EXCEPT ![p] = NoResults(p)]
    /\ UNCHANGED <<main, thread_state, proc_state, arg, queue>>

\* jit->Run is called with proc_state: at the first wake-up whatever woke the
\* thread, later only if it was not cancelled.
BeginIteration(p) ==
    /\ Woken(p)
    /\ \/ at[p].in = "start"
       \/ at[p].in = "done" /\ thread_state[p] = "kRunning"
    /\ at' = [at EXCEPT ![p] = At("run", 1)]
    /\ arg' = [arg EXCEPT ![p] = proc_state[p]]
    /\ got' = [got EXCEPT ![p] = NoResults(p)]
    /\ UNCHANGED <<main, thread_state, proc_state, queue>>

\* The thread moves past operation i, which returned result.
Past(p, i, result) ==
    /\ at' = [at EXCEPT ![p] = At("run", i + 1)]
    /\ got' = [got EXCEPT ![p][i] = result]
    /\ UNCHANGED <<main, proc_state, arg>>

\* An operation whose predicate is false.
Skip(p) ==
    /\ at[p].in = "run" /\ at[p].op \in DOMAIN Program[p]
    /\ LET op == Program[p][at[p].op]
       IN  /\ arg[p] \notin op.when
           /\ Past(p, at[p].op, IF op.kind = "send" THEN NoData ELSE Zero)
    /\ UNCHANGED <<thread_state, queue>>

\* SendFn
SendFn(p) ==
    /\ at[p].in = "run" /\ at[p].op \in DOMAIN Program[p]
    /\ LET op == Program[p][at[p].op]
       IN  /\ arg[p] \in op.when /\ op.kind = "send"
           /\ queue' = [queue EXCEPT ![op.ch] =
                  AfterSend(op.ch, @, SentValue(p, at[p].op, arg[p], got[p]))]
           /\ Past(p, at[p].op, NoData)
    /\ UNCHANGED thread_state

\* RecvFn for a non-blocking receive.  A single-value queue that was never
\* written fails its XLS_CHECK.
RecvFnNonBlocking(p) ==
    /\ at[p].in = "run" /\ at[p].op \in DOMAIN Program[p]
    /\ LET op == Program[p][at[p].op]
       IN  /\ arg[p] \in op.when /\ op.kind = "nbrecv"
           /\ \/ /\ queue[op.ch] # <<>>
                 /\ Past(p, at[p].op, Head(queue[op.ch]))
                 /\ queue' = [queue EXCEPT ![op.ch] = AfterRecv(op.ch, @)]
              \/ /\ queue[op.ch] = <<>> /\ op.ch \notin SingleValue
                 /\ Past(p, at[p].op, NoData)
                 /\ UNCHANGED queue
              \/ /\ queue[op.ch] = <<>> /\ op.ch \in SingleValue
                 /\ at' = [at EXCEPT ![p] = At("crashed", @.op)]
                 /\ main' = [at |-> "aborted", thread |-> 0]
                 /\ UNCHANGED <<proc_state, arg, got, queue>>
    /\ UNCHANGED thread_state

\* The blocking receive that thread p enters, or returns to from AwaitState.
AtRecv(p) ==
    /\ at[p].in \in {"run", "blocked"} /\ at[p].op \in DOMAIN Program[p]
    /\ at[p].in = "blocked" => Woken(p)
    /\ arg[p] \in Program[p][at[p].op].when /\ Program[p][at[p].op].kind = "recv"

RecvChannel(p) == Program[p][at[p].op].ch

\* Fault: the queue is looked at only once.
EmptyCached(p) == queue[RecvChannel(p)] = <<>> \/ at[p].in = "blocked"

\* queue->Empty(), the condition of RecvFn's loop.
Empty(p) == queue[RecvChannel(p)] = <<>>

\* The receive takes the front of the queue.
Receive(p) ==
    LET c == RecvChannel(p)
    IN  /\ ~Empty(p)
        /\ Past(p, at[p].op, Head(queue[c]))
        /\ queue' = [queue EXCEPT ![c] = AfterRecv(c, @)]
        /\ UNCHANGED thread_state

\* A cancelled receive returns false and leaves the data buffer as it was; the
\* iteration goes on with what the buffer held.
GiveUp(p) ==
    /\ Empty(p) /\ thread_state[p] = "kCancelled"
    /\ \E stale \in Values : Past(p, at[p].op, stale)
    /\ UNCHANGED <<thread_state, queue>>

\* The thread waits in AwaitState.
Block(p) ==
    /\ Empty(p) /\ thread_state[p] # "kCancelled"
    /\ thread_state' = [thread_state EXCEPT ![p] = "kBlocked"]
    /\ at' = [at EXCEPT ![p] = At("blocked", @.op)]
    /\ UNCHANGED <<main, proc_state, arg, got, queue>>

\* RecvFn for a blocking receive.
RecvFn(p) == AtRecv(p) /\ (Receive(p) \/ GiveUp(p) \/ Block(p))

\* jit->Run returned: the critical section that ends an iteration.
EndIteration(p) ==
    /\ at[p].in = "run" /\ at[p].op \notin DOMAIN Program[p]
    /\ proc_state' = [proc_state EXCEPT ![p] = NextState(p, arg[p], got[p])]
    /\ \/ /\ thread_state[p] = "kCancelled"
          /\ at' = [at EXCEPT ![p] = At("exited", 0)]
          /\ UNCHANGED thread_state
       \/ /\ thread_state[p] # "kCancelled"
          /\ thread_state' = [thread_state EXCEPT ![p] = "kDone"]
          /\ at' = [at EXCEPT ![p] = At("done", 0)]
    /\ UNCHANGED <<main, arg, got, queue>>

\* A thread cancelled between iterations leaves its loop.
Exit(p) ==
    /\ at[p].in = "done" /\ thread_state[p] = "kCancelled"
    /\ at' = [at EXCEPT ![p] = At("exited", 0)]
    /\ UNCHANGED <<main, thread_state, proc_state, arg, got, queue>>

Thread(p) ==
    \/ BeginIteration(p) \/ Skip(p) \/ SendFn(p) \/ RecvFnNonBlocking(p)
    \/ RecvFn(p) \/ EndIteration(p) \/ Exit(p)
------------------------------------------------------------------------------
(* The main thread *)

MainAt(where, i) == [at |-> where, thread |-> i]

\* The main thread turns to the thread after i, or is through.
Onwards(where, i, through) ==
    main' = IF i < NumProcs THEN MainAt(where, i + 1) ELSE MainAt(through, 0)

\* Tick is called.
Tick ==
    /\ main.at = "user"
    /\ \A c \in Channels : Len(queue[c]) < MaxQueued
    /\ main' = MainAt("release", 1)
    /\ UNCHANGED <<at, thread_state, proc_state, arg, got, queue>>

\* Fault: Tick does not wait for the thread it sets running.
TickReleaseAll ==
    /\ main.at = "release"
    /\ thread_state' = [thread_state EXCEPT ![main.thread] = "kRunning"]
    /\ Onwards("release", main.thread, "user")
    /\ UNCHANGED <<at, proc_state, arg, got, queue>>

\* Tick sets a thread running and waits in AwaitState, which frees the mutex.
TickRelease ==
    /\ main.at = "release"
    /\ thread_state' = [thread_state EXCEPT ![main.thread] = "kRunning"]
    /\ main' = MainAt("await", main.thread)
    /\ UNCHANGED <<at, proc_state, arg, got, queue>>

\* Fault: Tick moves on when the thread has started.
TickAwaitEarly ==
    /\ main.at = "await"
    /\ at[main.thread].in \in {"run", "blocked", "done"}
    /\ Onwards("release", main.thread, "user")
    /\ UNCHANGED <<at, thread_state, proc_state, arg, got, queue>>

\* AwaitState in Tick returns.
TickAwait ==
    /\ main.at = "await"
    /\ thread_state[main.thread] \in {"kBlocked", "kDone"}
    /\ Onwards("release", main.thread, "user")
    /\ UNCHANGED <<at, thread_state, proc_state, arg, got, queue>>

\* ResetState; every thread is waiting, so its critical sections are one step.
ResetState ==
    /\ main.at = "user"
    /\ proc_state' = [p \in Procs |-> InitState[p]]
    /\ UNCHANGED <<main, at, thread_state, arg, got, queue>>

\* The destructor is called.
Destroy ==
    /\ main.at = "user"
    /\ main' = MainAt("cancel", 1)
    /\ UNCHANGED <<at, thread_state, proc_state, arg, got, queue>>

\* Fault: the destructor joins a thread that it has not cancelled.
DestroyUncancelled ==
    /\ main.at = "cancel"
    /\ main' = MainAt("join", main.thread)
    /\ UNCHANGED <<at, thread_state, proc_state, arg, got, queue>>

DestroyCancel ==
    /\ main.at = "cancel"
    /\ thread_state' = [thread_state EXCEPT ![main.thread] = "kCancelled"]
    /\ main' = MainAt("join", main.thread)
    /\ UNCHANGED <<at, proc_state, arg, got, queue>>

DestroyJoin ==
    /\ main.at = "join"
    /\ at[main.thread].in = "exited"
    /\ Onwards("cancel", main.thread, "gone")
    /\ UNCHANGED <<at, thread_state, proc_state, arg, got, queue>>

\* What the main thread does by itself once a call has been made.
MainStep == TickRelease \/ TickAwait \/ DestroyCancel \/ DestroyJoin

------------------------------------------------------------------------------
(* The environment, on any thread, while the runtime exists *)

Destroyed == main.at \in {"cancel", "join", "gone", "aborted"}

\* EnqueueValueToChannel, EnqueueBufferToChannel or the queue's Send.
Enqueue(c, v) ==
    /\ ~Destroyed
    /\ c \in SingleValue \/ Len(queue[c]) < MaxQueued
    /\ queue' = [queue EXCEPT ![c] = AfterSend(c, @, v)]
    /\ UNCHANGED <<main, at, thread_state, proc_state, arg, got>>

\* DequeueValueFromChannel, DequeueBufferFromChannel or the queue's Recv.
Dequeue(c) ==
    /\ ~Destroyed
    /\ queue[c] # <<>>
    /\ queue' = [queue EXCEPT ![c] = AfterRecv(c, @)]
    /\ UNCHANGED <<main, at, thread_state, proc_state, arg, got>>

Next ==
    \/ \E p \in Procs : Thread(p)
    \/ Tick \/ ResetState \/ Destroy \/ MainStep
    \/ \E c \in Inputs, v \in Values : Enqueue(c, v)
    \/ \E c \in Outputs : Dequeue(c)

\* The operating system runs every thread that can run.
Fairness ==
    /\ WF_vars(MainStep)
    /\ \A p \in Procs : WF_vars(Thread(p))

Spec == Init /\ [][Next]_vars /\ Fairness

------------------------------------------------------------------------------
(* Properties *)

\* A thread is awake if it executes JITed code or can leave AwaitState.
Awake(p) ==
    \/ at[p].in = "run"
    \/ at[p].in \in {"start", "blocked", "done"} /\ Woken(p)

\* "so we can ensure serial operation" (Tick): a proc thread is awake only while
\* the main thread waits for that very thread, in Tick or in the destructor, so
\* no two procs ever run at once and none runs behind the caller's back.
SerialOperation ==
    \A p \in Procs :
        Awake(p) => main.at \in {"await", "join"} /\ main.thread = p

\* Once Tick has moved past a proc, and whenever no call is in progress, the proc
\* is between iterations or stopped at a blocking receive it has to execute, and
\* its thread_state says which; it stays so until its next turn.
TickSettles ==
    \A p \in Procs :
        \/ main.at = "user"
        \/ main.at \in {"release", "await"} /\ p < main.thread
        => \/ at[p].in = "start" /\ thread_state[p] = "kPending" /\ main.at = "user"
           \/ at[p].in = "done" /\ thread_state[p] = "kDone"
           \/ /\ at[p].in = "blocked" /\ thread_state[p] = "kBlocked"
              /\ Program[p][at[p].op].kind = "recv"
              /\ arg[p] \in Program[p][at[p].op].when

\* Every call returns.  Tick does: every proc completes its iteration or blocks on
\* a receive, and the main thread hears of it.  The destructor does: every thread,
\* wherever it waits, ends and is joined.  Only a receive that aborts the process
\* cuts them short.
CallsReturn ==
    /\ main.at \in {"release", "await"} ~> main.at \in {"user", "aborted"}
    /\ main.at \in {"cancel", "join"} ~> main.at \in {"gone", "aborted"}

\* Proc p is blocked on a channel that has data when a Tick is about to turn to it.
BlockedWithData(p) ==
    /\ main.at = "release" /\ main.thread <= p
    /\ at[p].in = "blocked" /\ queue[Program[p][at[p].op].ch] # <<>>

\* A proc that is blocked on a channel with data when a Tick is about to turn to
\* it gets past that receive: the wake-up is not lost and the queue is looked at
\* again (the loop of RecvFn).
DataUnblocks ==
    \A p \in Procs : BlockedWithData(p) ~> at[p].in = "run" \/ main.at = "aborted"

\* The runtime as a network of procs: the state of an iteration in progress is
\* the one it began with, and a destroyed runtime is a closed network.
InIteration == {p \in Procs : at[p].in \in {"run", "blocked"}}

NetQueue == IF Destroyed THEN [c \in Channels |-> <<>>] ELSE queue
NetRunning == IF Destroyed THEN {} ELSE InIteration
NetDone ==
    [p \in Procs |-> IF p \in NetRunning THEN 1..(at[p].op - 1) ELSE {}]
NetGot == [p \in Procs |-> IF p \in NetRunning THEN got[p] ELSE NoResults(p)]
NetState ==
    [p \in Procs |-> IF Destroyed THEN InitState[p]
                     ELSE IF p \in InIteration THEN arg[p] ELSE proc_state[p]]

Network == INSTANCE ProcNetwork WITH
    ResetCuts <- FALSE,
    queue <- NetQueue, running <- NetRunning, done <- NetDone, got <- NetGot,
    state <- NetState, closed <- Destroyed

\* Whatever the interleaving of threads, Ticks, resets and concurrent use of the
\* queues, the runtime does what a network of procs may do: operations in
\* dependency order, on the right data, each exactly once per iteration.
ImplementsNetwork == Network!Spec
=============================================================================
