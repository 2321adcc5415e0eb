---------------------- MODULE SerialProcRuntimeProofs ----------------------
(***************************************************************************)
(* SerialOperation, TickSettles and the refinement of ProcNetwork for      *)
(* every number of procs, every program and every network, whatever the    *)
(* environment does with the queues.  The inductive invariant says of each *)
(* thread whose turn it is not that it waits and that its thread_state     *)
(* agrees with where it waits; the refinement also needs to know how far   *)
(* a thread is in its iteration.                                           *)
(***************************************************************************)
EXTENDS SerialProcRuntime, TLAPS

Places == {"start", "run", "blocked", "done", "exited", "crashed"}
ThreadStates == {"kPending", "kRunning", "kBlocked", "kDone", "kCancelled"}
Phases == {"user", "release", "await", "cancel", "join", "gone", "aborted"}

\* The shapes of the control state; of arg, only that it is a function.
Shapes ==
    /\ main \in [at : Phases, thread : 0..NumProcs]
    /\ at \in [Procs -> [in : Places, op : Nat]]
    /\ thread_state \in [Procs -> ThreadStates]
    /\ DOMAIN arg = Procs

\* The main thread waits for thread p.
Turn(p) == main.at \in {"await", "join"} /\ main.thread = p

\* Thread p waits, or has ended, and thread_state[p] says where.
Settled(p) ==
    \/ at[p].in = "start" /\ thread_state[p] = "kPending"
    \/ at[p].in = "done" /\ thread_state[p] = "kDone"
    \/ at[p].in = "blocked" /\ thread_state[p] = "kBlocked"
    \/ at[p].in = "exited" /\ thread_state[p] = "kCancelled"
    \/ at[p].in = "crashed"

OthersSettled == \A p \in Procs : ~Turn(p) => Settled(p)

\* The main thread deals with some thread.
MainThread == main.at \in {"release", "await", "cancel", "join"} => main.thread \in Procs

\* The thread that Tick waits for: awake, or settled and Tick can move on.
Awaited ==
    main.at = "await" =>
        \/ /\ thread_state[main.thread] = "kRunning"
           /\ at[main.thread].in \in {"start", "run", "blocked", "done"}
        \/ at[main.thread].in = "done" /\ thread_state[main.thread] = "kDone"
        \/ at[main.thread].in = "blocked" /\ thread_state[main.thread] = "kBlocked"

\* The thread that the destructor waits for has been cancelled.
Joined ==
    main.at = "join" =>
        /\ thread_state[main.thread] = "kCancelled"
        /\ at[main.thread].in # "crashed"

\* Threads end only in the destructor, and crash only with the process.
Alive ==
    \A p \in Procs :
        /\ main.at \in {"user", "release", "await"} => at[p].in # "exited"
        /\ main.at # "aborted" => at[p].in # "crashed"

\* Tick has had every thread before the one it is at start an iteration.
Started ==
    main.at \in {"release", "await"} =>
        \A p \in Procs : p < main.thread => at[p].in # "start"

\* A blocked thread is at a blocking receive whose predicate is true.
BlockedAtRecv ==
    \A p \in Procs :
        at[p].in = "blocked" =>
            /\ Program[p][at[p].op].kind = "recv"
            /\ arg[p] \in Program[p][at[p].op].when

IInv ==
    /\ Shapes /\ OthersSettled /\ MainThread /\ Awaited /\ Joined /\ Alive
    /\ Started /\ BlockedAtRecv

------------------------------------------------------------------------------

\* The invariant is strong enough: a thread that is awake is not settled, so it
\* is its turn.
LEMMA IInvSerial == IInv => SerialOperation
  BY DEF IInv, SerialOperation, OthersSettled, Settled, Turn, Awake, Woken

\* A thread before the one Tick is at has started and is settled.
LEMMA IInvSettles == IInv => TickSettles
  <1> SUFFICES ASSUME IInv,
                      NEW p \in Procs,
                      \/ main.at = "user"
                      \/ main.at \in {"release", "await"} /\ p < main.thread
               PROVE  \/ at[p].in = "start" /\ thread_state[p] = "kPending" /\ main.at = "user"
                      \/ at[p].in = "done" /\ thread_state[p] = "kDone"
                      \/ /\ at[p].in = "blocked" /\ thread_state[p] = "kBlocked"
                         /\ Program[p][at[p].op].kind = "recv"
                         /\ arg[p] \in Program[p][at[p].op].when
    BY DEF TickSettles
  <1>1. ~Turn(p)
    BY ProgramAssumption DEF IInv, Shapes, Turn, Procs
  <1> QED
    BY <1>1 DEF IInv, OthersSettled, Settled, Alive, Started, BlockedAtRecv

\* A step of a thread is a step of the thread whose turn it is.
LEMMA ThreadTurn ==
  ASSUME IInv, NEW p \in Procs, Thread(p)
  PROVE  Turn(p)
  <1>1. Awake(p)
    BY Zenon DEF Thread, BeginIteration, Skip, SendFn, RecvFnNonBlocking, RecvFn, AtRecv,
           EndIteration, Exit, Awake, Woken
  <1> QED
    BY <1>1, IInvSerial, SMTT(60) DEF SerialOperation, Turn

\* Initially every thread waits for its first Tick.
LEMMA InitIInv == Init => IInv
  BY ProgramAssumption, SMTT(60)
  DEF Init, At, IInv, Shapes, OthersSettled, Settled, MainThread, Awaited, Joined,
      Alive, Started, BlockedAtRecv, Places, ThreadStates, Phases, Procs

\* A step that changes only what the queues hold or what the procs compute.
LEMMA DataStep ==
  ASSUME IInv, UNCHANGED <<main, at, thread_state, arg>>
  PROVE  IInv'
  BY DEF IInv, Shapes, OthersSettled, Settled, Turn, MainThread, Awaited, Joined,
         Alive, Started, BlockedAtRecv

\* Thread p, whose turn it is, moves to another place.  Everything the invariant
\* says of the other threads is untouched; of p it asks that the place agrees
\* with thread_state.
LEMMA MoveStep ==
  ASSUME IInv, NEW p \in Procs, Turn(p),
         NEW w \in Places, NEW j \in Nat,
         at' = [at EXCEPT ![p] = At(w, j)],
         thread_state' \in [Procs -> ThreadStates],
         \A q \in Procs \ {p} : thread_state'[q] = thread_state[q],
         DOMAIN arg' = Procs,
         \A q \in Procs \ {p} : arg'[q] = arg[q],
         UNCHANGED main,
         w # "crashed",
         w = "exited" => main.at = "join",
         w = "blocked" => /\ Program[p][j].kind = "recv"
                          /\ arg'[p] \in Program[p][j].when,
         main.at = "join" => thread_state'[p] = "kCancelled",
         main.at = "await" =>
            \/ thread_state'[p] = "kRunning" /\ w \in {"run", "blocked", "done"}
            \/ thread_state'[p] = "kDone" /\ w = "done"
            \/ thread_state'[p] = "kBlocked" /\ w = "blocked",
         w # "start"
  PROVE  IInv'
  <1>1. at'[p] = [in |-> w, op |-> j] /\ \A q \in Procs \ {p} : at'[q] = at[q]
    BY DEF IInv, Shapes, At
  <1>2. Shapes'
    BY <1>1, Zenon DEF IInv, Shapes, At
  <1>3. OthersSettled'
    BY <1>1 DEF IInv, OthersSettled, Settled, Turn
  <1>4. MainThread' /\ Awaited' /\ Joined'
    BY <1>1 DEF IInv, MainThread, Awaited, Joined, Turn
  <1>5. Alive' /\ Started'
    BY <1>1, SMTT(60) DEF IInv, Alive, Started, Turn
  <1>6. BlockedAtRecv'
    BY <1>1 DEF IInv, BlockedAtRecv
  <1> QED
    BY <1>2, <1>3, <1>4, <1>5, <1>6 DEF IInv

\* What the invariant says of the thread whose turn it is.
LEMMA TurnFacts ==
  ASSUME IInv, NEW p \in Procs, Turn(p)
  PROVE  /\ main.at \in {"await", "join"} /\ main.thread = p
         /\ at[p].op \in Nat /\ thread_state[p] \in ThreadStates
         /\ main.at = "join" => thread_state[p] = "kCancelled"
         /\ main.at = "await" => thread_state[p] # "kCancelled"
         /\ main.at = "await" /\ (at[p].in = "run" \/ Woken(p)) => thread_state[p] = "kRunning"
  BY DEF IInv, Shapes, Turn, Joined, Awaited, Woken

\* Each step of a thread.
LEMMA ThreadIInv ==
  ASSUME IInv, NEW p \in Procs, Thread(p)
  PROVE  IInv'
  <1>1. Turn(p)
    BY ThreadTurn
  <1>2. /\ main.at \in {"await", "join"} /\ main.thread = p
        /\ at[p].op \in Nat /\ thread_state[p] \in ThreadStates
        /\ main.at = "join" => thread_state[p] = "kCancelled"
        /\ main.at = "await" => thread_state[p] # "kCancelled"
        /\ main.at = "await" /\ (at[p].in = "run" \/ Woken(p)) => thread_state[p] = "kRunning"
    BY <1>1, TurnFacts
  <1>3. thread_state \in [Procs -> ThreadStates] /\ DOMAIN arg = Procs
    BY DEF IInv, Shapes
  <1>4. CASE BeginIteration(p)
    <2>1. at' = [at EXCEPT ![p] = At("run", 1)] /\ UNCHANGED <<main, thread_state>>
      BY <1>4 DEF BeginIteration
    <2>2. DOMAIN arg' = Procs /\ \A q \in Procs \ {p} : arg'[q] = arg[q]
      BY <1>3, <1>4 DEF BeginIteration
    <2>3. Woken(p)
      BY <1>4 DEF BeginIteration
    <2> QED
      BY <1>1, <1>2, <1>3, <2>1, <2>2, <2>3, MoveStep, Zenon DEF Places
  <1>5. ASSUME UNCHANGED <<main, thread_state, arg>>, at[p].in = "run" \/ Woken(p),
               at' = [at EXCEPT ![p] = At("run", at[p].op + 1)]
        PROVE  IInv'
    <2>1. at[p].op + 1 \in Nat /\ "run" \in Places
      BY <1>2 DEF Places
    <2>2. main.at = "await" => thread_state'[p] = "kRunning"
      BY <1>2, <1>5
    <2>3. main.at = "join" => thread_state'[p] = "kCancelled"
      BY <1>2, <1>5
    <2>4. /\ thread_state' \in [Procs -> ThreadStates] /\ DOMAIN arg' = Procs
          /\ \A q \in Procs \ {p} : thread_state'[q] = thread_state[q] /\ arg'[q] = arg[q]
      BY <1>3, <1>5, SMTT(60)
    <2> QED
      BY <1>1, <1>5, <2>1, <2>2, <2>3, <2>4, MoveStep, Zenon
  <1>6. CASE Skip(p)
    BY <1>5, <1>6, Zenon DEF Skip, Past
  <1>7. CASE SendFn(p)
    BY <1>5, <1>7, SMTT(60) DEF SendFn, Past
  <1>8. CASE RecvFnNonBlocking(p)
    <2>1. CASE at' = [at EXCEPT ![p] = At("run", at[p].op + 1)] /\ UNCHANGED <<main, arg>>
      <3>1. at[p].in = "run" /\ UNCHANGED thread_state
        BY <1>8, Zenon DEF RecvFnNonBlocking
      <3> QED
        BY <1>5, <2>1, <3>1, SMTT(60)
    <2>2. CASE /\ at' = [at EXCEPT ![p] = At("crashed", @.op)]
               /\ main' = [at |-> "aborted", thread |-> 0]
               /\ UNCHANGED arg
      <3>1. UNCHANGED thread_state
        BY <1>8, Zenon DEF RecvFnNonBlocking
      <3>2. main'.at = "aborted" /\ main'.thread = 0
        BY <2>2
      <3>3. /\ at'[p] = [in |-> "crashed", op |-> at[p].op]
            /\ \A q \in Procs \ {p} : at'[q] = at[q]
        BY <2>2, SMTT(60) DEF IInv, Shapes, At
      <3>4. Shapes'
        BY <1>2, <1>3, <2>2, <3>1, ProgramAssumption, SMTT(60)
           DEF IInv, Shapes, At, Places, Phases
      <3>5. OthersSettled'
        BY <1>2, <3>1, <3>3, SMTT(60) DEF IInv, OthersSettled, Settled, Turn
      <3>6. MainThread' /\ Awaited' /\ Joined' /\ Alive' /\ Started'
        BY <3>2, Zenon DEF MainThread, Awaited, Joined, Alive, Started
      <3>7. BlockedAtRecv'
        BY <2>2, <3>3 DEF IInv, BlockedAtRecv
      <3> QED
        BY <3>4, <3>5, <3>6, <3>7, SMTT(60) DEF IInv
    <2> QED
      BY <1>8, <2>1, <2>2, Zenon DEF RecvFnNonBlocking, Past
  <1>9. CASE RecvFn(p)
    <2>1. (at[p].in = "run" \/ Woken(p)) /\ AtRecv(p)
      BY <1>9 DEF RecvFn, AtRecv
    <2>2. CASE Receive(p) \/ GiveUp(p)
      BY <1>5, <2>1, <2>2, SMTT(60) DEF Receive, GiveUp, Past
    <2>3. CASE Block(p)
      <3>1. /\ at' = [at EXCEPT ![p] = At("blocked", at[p].op)]
            /\ thread_state' = [thread_state EXCEPT ![p] = "kBlocked"]
            /\ thread_state[p] # "kCancelled"
            /\ UNCHANGED <<main, arg>>
        BY <2>3 DEF Block
      <3>2. /\ Program[p][at[p].op].kind = "recv"
            /\ arg'[p] \in Program[p][at[p].op].when
        BY <2>1, <3>1 DEF AtRecv
      <3>3. /\ thread_state' \in [Procs -> ThreadStates] /\ thread_state'[p] = "kBlocked"
            /\ \A q \in Procs \ {p} : thread_state'[q] = thread_state[q]
        BY <1>3, <3>1 DEF ThreadStates
      <3> QED
        BY <1>1, <1>2, <1>3, <3>1, <3>2, <3>3, MoveStep, ZenonT(60) DEF Places
    <2> QED
      BY <1>9, <2>2, <2>3, SMTT(60) DEF RecvFn
  <1>10. CASE EndIteration(p)
    <2>1. at[p].in = "run" /\ UNCHANGED <<main, arg>>
      BY <1>10 DEF EndIteration
    <2>2. CASE /\ thread_state[p] = "kCancelled"
               /\ at' = [at EXCEPT ![p] = At("exited", 0)]
               /\ UNCHANGED thread_state
      BY <1>1, <1>2, <1>3, <2>1, <2>2, MoveStep, Zenon DEF Places
    <2>3. CASE /\ thread_state[p] # "kCancelled"
               /\ thread_state' = [thread_state EXCEPT ![p] = "kDone"]
               /\ at' = [at EXCEPT ![p] = At("done", 0)]
      <3>1. /\ thread_state' \in [Procs -> ThreadStates] /\ thread_state'[p] = "kDone"
            /\ \A q \in Procs \ {p} : thread_state'[q] = thread_state[q]
        BY <1>3, <2>3 DEF ThreadStates
      <3> QED
        BY <1>1, <1>2, <1>3, <2>1, <2>3, <3>1, MoveStep, Zenon DEF Places
    <2> QED
      BY <1>10, <2>2, <2>3 DEF EndIteration
  <1>11. CASE Exit(p)
    BY <1>1, <1>2, <1>3, <1>11, MoveStep, Zenon DEF Exit, Places
  <1> QED
    BY <1>4, <1>6, <1>7, <1>8, <1>9, <1>10, <1>11, SMTT(60) DEF Thread

\* Each step of the main thread.
LEMMA MainIInv ==
  ASSUME IInv, Tick \/ Destroy \/ MainStep
  PROVE  IInv'
  <1>1. NumProcs \in Nat \ {0} /\ Procs = 1..NumProcs
    BY ProgramAssumption DEF Procs
  <1>2. main \in [at : Phases, thread : 0..NumProcs]
    BY DEF IInv, Shapes
  <1>3. UNCHANGED <<at, arg>>
    BY DEF Tick, Destroy, MainStep, TickRelease, TickAwait, DestroyCancel, DestroyJoin
  <1>4. BlockedAtRecv'
    BY <1>3 DEF IInv, BlockedAtRecv
  <1>5. CASE Tick \/ Destroy
    <2>1. UNCHANGED thread_state /\ main.at = "user"
          /\ main' = [at |-> IF Tick THEN "release" ELSE "cancel", thread |-> 1]
      BY <1>5, SMTT(60) DEF Tick, Destroy, MainAt
    <2>2. Shapes' /\ MainThread' /\ Awaited' /\ Joined' /\ Started'
      BY <1>1, <1>3, <2>1, SMTT(60)
         DEF IInv, Shapes, MainThread, Awaited, Joined, Started, Phases
    <2>3. OthersSettled' /\ Alive'
      BY <1>3, <2>1 DEF IInv, OthersSettled, Settled, Turn, Alive
    <2> QED
      BY <1>4, <2>2, <2>3, SMTT(60) DEF IInv
  <1>6. CASE TickRelease
    <2>1. /\ main.at = "release" /\ main' = [at |-> "await", thread |-> main.thread]
          /\ thread_state' = [thread_state EXCEPT ![main.thread] = "kRunning"]
          /\ main.thread \in Procs
      BY <1>6 DEF TickRelease, MainAt, IInv, MainThread
    <2>2. /\ thread_state' \in [Procs -> ThreadStates]
          /\ thread_state'[main.thread] = "kRunning"
          /\ \A q \in Procs \ {main.thread} : thread_state'[q] = thread_state[q]
      BY <2>1, SMTT(60) DEF IInv, Shapes, ThreadStates
    <2>3. Shapes' /\ MainThread' /\ Joined'
      BY <1>1, <1>2, <1>3, <2>1, <2>2, Zenon DEF IInv, Shapes, MainThread, Joined, Phases
    <2>4. OthersSettled' /\ Alive' /\ Started'
      BY <1>3, <2>1, <2>2, Zenon DEF IInv, OthersSettled, Settled, Turn, Alive, Started
    <2>5. Awaited'
      BY <1>3, <2>1, <2>2 DEF IInv, OthersSettled, Settled, Turn, Alive, Awaited
    <2> QED
      BY <1>4, <2>3, <2>4, <2>5 DEF IInv
  <1>7. CASE TickAwait
    <2>1. /\ main.at = "await" /\ main.thread \in Procs /\ UNCHANGED thread_state
          /\ thread_state[main.thread] \in {"kBlocked", "kDone"}
          /\ main' = IF main.thread < NumProcs
                     THEN [at |-> "release", thread |-> main.thread + 1]
                     ELSE [at |-> "user", thread |-> 0]
      BY <1>7, SMTT(60) DEF TickAwait, Onwards, MainAt, IInv, MainThread
    <2>2. Settled(main.thread) /\ at[main.thread].in # "start"
      BY <2>1 DEF IInv, Awaited, Settled
    <2>3. main'.at \in {"release", "user"} /\ main'.thread \in 0..NumProcs
          /\ (main'.at = "release" => main'.thread = main.thread + 1 /\ main'.thread \in Procs)
      BY <1>1, <2>1, SMTT(60)
    <2>4. Shapes' /\ MainThread' /\ Awaited' /\ Joined'
      BY <1>1, <1>3, <2>1, <2>3, Zenon
         DEF IInv, Shapes, MainThread, Awaited, Joined, Phases
    <2>5. OthersSettled' /\ Alive'
      BY <1>3, <2>1, <2>2, <2>3, SMTT(60) DEF IInv, OthersSettled, Settled, Turn, Alive
    <2>6. Started'
      BY <1>1, <1>3, <2>1, <2>2, <2>3 DEF IInv, Started
    <2> QED
      BY <1>4, <2>4, <2>5, <2>6 DEF IInv
  <1>8. CASE DestroyCancel
    <2>1. /\ main.at = "cancel" /\ main' = [at |-> "join", thread |-> main.thread]
          /\ thread_state' = [thread_state EXCEPT ![main.thread] = "kCancelled"]
          /\ main.thread \in Procs
      BY <1>8 DEF DestroyCancel, MainAt, IInv, MainThread
    <2>2. /\ thread_state' \in [Procs -> ThreadStates]
          /\ thread_state'[main.thread] = "kCancelled"
          /\ \A q \in Procs \ {main.thread} : thread_state'[q] = thread_state[q]
      BY <2>1, SMTT(60) DEF IInv, Shapes, ThreadStates
    <2>3. Shapes' /\ MainThread' /\ Awaited' /\ Started'
      BY <1>1, <1>2, <1>3, <2>1, <2>2, Zenon
         DEF IInv, Shapes, MainThread, Awaited, Started, Phases
    <2>4. OthersSettled' /\ Alive' /\ Joined'
      BY <1>3, <2>1, <2>2, SMTT(60) DEF IInv, OthersSettled, Settled, Turn, Alive, Joined
    <2> QED
      BY <1>4, <2>3, <2>4 DEF IInv
  <1>9. CASE DestroyJoin
    <2>1. /\ main.at = "join" /\ main.thread \in Procs /\ UNCHANGED thread_state
          /\ at[main.thread].in = "exited"
          /\ main' = IF main.thread < NumProcs
                     THEN [at |-> "cancel", thread |-> main.thread + 1]
                     ELSE [at |-> "gone", thread |-> 0]
      BY <1>9 DEF DestroyJoin, Onwards, MainAt, IInv, MainThread
    <2>2. Settled(main.thread)
      BY <2>1 DEF IInv, Joined, Settled
    <2>3. main'.at \in {"cancel", "gone"} /\ main'.thread \in 0..NumProcs
          /\ (main'.at = "cancel" => main'.thread \in Procs)
      BY <1>1, <2>1, SMTT(60)
    <2>4. Shapes' /\ MainThread' /\ Awaited' /\ Joined' /\ Started'
      BY <1>1, <1>3, <2>1, <2>3, Zenon
         DEF IInv, Shapes, MainThread, Awaited, Joined, Started, Phases
    <2>5. OthersSettled' /\ Alive'
      BY <1>3, <2>1, <2>2, <2>3 DEF IInv, OthersSettled, Settled, Turn, Alive
    <2> QED
      BY <1>4, <2>4, <2>5 DEF IInv
  <1> QED
    BY <1>5, <1>6, <1>7, <1>8, <1>9 DEF MainStep

\* Every step of a thread, of the main thread and of the environment keeps the invariant.
LEMMA NextIInv == IInv /\ [Next]_vars => IInv'
  <1> SUFFICES ASSUME IInv, [Next]_vars PROVE IInv'
    OBVIOUS
  <1>1. CASE \E p \in Procs : Thread(p)
    BY <1>1, ThreadIInv
  <1>2. CASE Tick \/ Destroy \/ MainStep
    BY <1>2, MainIInv
  <1>3. CASE ResetState
    BY <1>3, DataStep DEF ResetState
  <1>4. CASE \E c \in Inputs, v \in Values : Enqueue(c, v)
    BY <1>4, DataStep DEF Enqueue
  <1>5. CASE \E c \in Outputs : Dequeue(c)
    BY <1>5, DataStep DEF Dequeue
  <1>6. CASE UNCHANGED vars
    BY <1>6, DataStep DEF vars
  <1> QED
    BY <1>1, <1>2, <1>3, <1>4, <1>5, <1>6 DEF Next

\* So the invariant always holds.
LEMMA SpecIInv == Spec => []IInv
  BY InitIInv, NextIInv, PTL DEF Spec

\* "so we can ensure serial operation" (Tick): in every network, no proc thread is
\* awake except the one that Tick or the destructor is waiting for.
THEOREM SerialAlways == Spec => []SerialOperation
  BY SpecIInv, IInvSerial, PTL

\* In every network, a Tick leaves each proc between iterations or stopped at a
\* blocking receive, with thread_state saying which.
THEOREM TicksSettle == Spec => []TickSettles
  BY SpecIInv, IInvSettles, PTL

------------------------------------------------------------------------------
(* The runtime implements the network of procs *)

\* What the refinement needs beside IInv: a thread in an iteration is at one of
\* its operations or past the last one, and the data state has a value per proc.
Iterations ==
    /\ DOMAIN proc_state = Procs /\ DOMAIN got = Procs
    /\ \A p \in InIteration : at[p].op \in 1..(Len(Program[p]) + 1)

RInv == IInv /\ Iterations

\* A thread that moves to place w, at operation j, keeps Iterations if j is an
\* operation or the end.
LEMMA IterationsMove ==
  ASSUME IInv, Iterations, NEW p \in Procs, NEW w, NEW j,
         at' = [at EXCEPT ![p] = At(w, j)],
         DOMAIN proc_state' = Procs, DOMAIN got' = Procs,
         w \in {"run", "blocked"} => j \in 1..(Len(Program[p]) + 1)
  PROVE  Iterations'
  <1>1. at'[p] = [in |-> w, op |-> j] /\ \A q \in Procs \ {p} : at'[q] = at[q]
    BY DEF IInv, Shapes, At
  <1> QED
    BY <1>1 DEF Iterations, InIteration

\* Iterations is kept by every step.
LEMMA NextIterations == RInv /\ [Next]_vars => Iterations'
  <1> SUFFICES ASSUME IInv, Iterations, [Next]_vars PROVE Iterations'
    BY DEF RInv
  <1>1. /\ DOMAIN proc_state = Procs /\ DOMAIN got = Procs
        /\ \A p \in Procs : Len(Program[p]) \in Nat /\ DOMAIN Program[p] = 1..Len(Program[p])
    BY ProgramAssumption DEF Iterations
  <1>2. ASSUME UNCHANGED <<at, got>>, DOMAIN proc_state' = Procs PROVE Iterations'
    BY <1>2 DEF Iterations, InIteration
  <1>3. ASSUME NEW p \in Procs, NEW i \in DOMAIN Program[p], NEW r, Past(p, i, r)
        PROVE  Iterations'
    <2>1. i + 1 \in 1..(Len(Program[p]) + 1)
      BY <1>1
    <2> QED
      BY <1>1, <1>3, <2>1, IterationsMove, Zenon DEF Past
  <1>4. ASSUME NEW p \in Procs, Thread(p) PROVE Iterations'
    <2>1. CASE BeginIteration(p)
      <3>1. 1 \in 1..(Len(Program[p]) + 1)
        BY <1>1, SMTT(60)
      <3> QED
        BY <1>1, <2>1, <3>1, IterationsMove, ZenonT(60) DEF BeginIteration
    <2>2. CASE Skip(p)
      BY <1>3, <2>2, Zenon DEF Skip
    <2>3. CASE SendFn(p)
      BY <1>3, <2>3 DEF SendFn
    <2>4. CASE RecvFnNonBlocking(p)
      <3>1. CASE \E r : Past(p, at[p].op, r)
        BY <1>3, <2>4, <3>1, Zenon DEF RecvFnNonBlocking
      <3>2. CASE /\ at' = [at EXCEPT ![p] = At("crashed", @.op)]
                 /\ UNCHANGED <<proc_state, got>>
        BY <1>1, <3>2, IterationsMove, Zenon
      <3> QED
        BY <2>4, <3>1, <3>2, ZenonT(60) DEF RecvFnNonBlocking
    <2>5. CASE RecvFn(p)
      <3>1. at[p].op \in DOMAIN Program[p]
        BY <2>5 DEF RecvFn, AtRecv
      <3>2. CASE Receive(p) \/ GiveUp(p)
        BY <1>3, <3>1, <3>2 DEF Receive, GiveUp
      <3>3. CASE Block(p)
        <4>1. at[p].op \in 1..(Len(Program[p]) + 1)
          BY <1>1, <3>1
        <4> QED
          BY <1>1, <3>3, <4>1, IterationsMove, Zenon DEF Block
      <3> QED
        BY <2>5, <3>2, <3>3 DEF RecvFn
    <2>6. CASE EndIteration(p)
      BY <1>1, <2>6, IterationsMove, SMTT(60) DEF EndIteration
    <2>7. CASE Exit(p)
      BY <1>1, <2>7, IterationsMove, Zenon DEF Exit
    <2> QED
      BY <1>4, <2>1, <2>2, <2>3, <2>4, <2>5, <2>6, <2>7 DEF Thread
  <1>5. CASE Tick \/ Destroy \/ MainStep
    BY <1>1, <1>2, <1>5
    DEF Tick, Destroy, MainStep, TickRelease, TickAwait, DestroyCancel, DestroyJoin
  <1>6. CASE ResetState
    BY <1>2, <1>6 DEF ResetState
  <1>7. CASE \E c \in Inputs, v \in Values : Enqueue(c, v)
    BY <1>1, <1>2, <1>7 DEF Enqueue
  <1>8. CASE \E c \in Outputs : Dequeue(c)
    BY <1>1, <1>2, <1>8 DEF Dequeue
  <1>9. CASE UNCHANGED vars
    BY <1>1, <1>2, <1>9 DEF vars
  <1> QED
    BY <1>4, <1>5, <1>6, <1>7, <1>8, <1>9 DEF Next

\* The invariant of the refinement always holds.
LEMMA SpecRInv == Spec => []RInv
  <1>1. Init => RInv
    BY InitIInv DEF Init, At, RInv, Iterations, InIteration
  <1>2. RInv /\ [Next]_vars => RInv'
    BY NextIInv, NextIterations DEF RInv
  <1> QED
    BY <1>1, <1>2, PTL DEF Spec

\* While the runtime exists the network's state is the runtime's.
LEMMA OpenNetwork ==
  ~Destroyed => /\ NetQueue = queue /\ NetRunning = InIteration
                /\ NetState = [p \in Procs |-> IF p \in InIteration THEN arg[p] ELSE proc_state[p]]
  BY DEF NetQueue, NetRunning, NetState

\* A destroyed runtime is a closed network, and stays one.
LEMMA DestroyedStays ==
  ASSUME IInv, [Next]_vars, Destroyed
  PROVE  UNCHANGED Network!vars
  <1>1. Destroyed'
    <2>1. ASSUME NEW p \in Procs, Thread(p) PROVE Destroyed'
      <3>1. CASE RecvFnNonBlocking(p)
        <4>1. UNCHANGED main \/ main' = [at |-> "aborted", thread |-> 0]
          BY <3>1, Zenon DEF RecvFnNonBlocking, Past
        <4> QED
          BY <4>1 DEF Destroyed
      <3>2. CASE RecvFn(p)
        BY <3>2, SMTT(60) DEF RecvFn, Receive, GiveUp, Block, Past, Destroyed
      <3>3. CASE Skip(p) \/ SendFn(p)
        BY <3>3, Zenon DEF Skip, SendFn, Past, Destroyed
      <3>4. CASE BeginIteration(p) \/ EndIteration(p) \/ Exit(p)
        BY <3>4, Zenon DEF BeginIteration, EndIteration, Exit, Destroyed
      <3> QED
        BY <2>1, <3>1, <3>2, <3>3, <3>4 DEF Thread
    <2>2. CASE Tick \/ ResetState \/ Destroy \/ MainStep \/ UNCHANGED vars
      BY <2>2
         DEF Destroyed, vars, Tick, ResetState, Destroy, MainStep, TickRelease, TickAwait,
                  DestroyCancel, DestroyJoin, MainAt, Onwards
    <2>3. CASE \/ \E c \in Inputs, v \in Values : Enqueue(c, v)
               \/ \E c \in Outputs : Dequeue(c)
      BY <2>3 DEF Enqueue, Dequeue
    <2> QED
      BY <2>1, <2>2, <2>3 DEF Next
  <1>2. ASSUME Destroyed
        PROVE  /\ NetQueue = [c \in Channels |-> <<>>] /\ NetRunning = {}
               /\ NetDone = [p \in Procs |-> {}]
               /\ NetGot = [p \in Procs |-> NoResults(p)]
               /\ NetState = [p \in Procs |-> InitState[p]]
    BY <1>2 DEF NetQueue, NetRunning, NetDone, NetGot, NetState
  <1>3. ASSUME Destroyed'
        PROVE  /\ NetQueue' = [c \in Channels |-> <<>>] /\ NetRunning' = {}
               /\ NetDone' = [p \in Procs |-> {}]
               /\ NetGot' = [p \in Procs |-> NoResults(p)]
               /\ NetState' = [p \in Procs |-> InitState[p]]
    BY <1>3 DEF NetQueue, NetRunning, NetDone, NetGot, NetState
  <1> QED
    BY <1>1, <1>2, <1>3, Zenon DEF Network!vars

\* The destructor is called, or a receive aborts the process.
LEMMA DestroyCloses ==
  ASSUME ~Destroyed, Destroyed'
  PROVE  Network!Close
  <1>1. /\ NetQueue' = [c \in Channels |-> <<>>] /\ NetRunning' = {}
        /\ NetDone' = [p \in Procs |-> {}]
        /\ NetGot' = [p \in Procs |-> NoResults(p)]
        /\ NetState' = [p \in Procs |-> InitState[p]]
    BY Zenon DEF NetQueue, NetRunning, NetDone, NetGot, NetState
  <1> QED
    BY <1>1 DEF Network!Close, Network!NoResults, Network!Ops, NoResults

\* The step moves process p past its operation, with the result r.
Passes(p, r) == Past(p, at[p].op, r)

\* The network executes the operation that process p is at, with the result r.
Executes(p, r) ==
  /\ ~Destroyed'
  /\ p \in NetRunning /\ at[p].op \notin NetDone[p]
  /\ Program[p][at[p].op].deps \subseteq NetDone[p]
  /\ NetState[p] = arg[p] /\ NetGot[p] = got[p]
  /\ Network!Executed(p, at[p].op, r)

\* Moving past an operation executes it in the network.
LEMMA PastExecutes ==
  ASSUME RInv, ~Destroyed, NEW p \in Procs, NEW r,
         p \in InIteration, at[p].op \in DOMAIN Program[p], Passes(p, r)
  PROVE  Executes(p, r)
  <1> DEFINE i == at[p].op
  <1>1. /\ i \in 1..Len(Program[p]) /\ i \in Nat
        /\ Program[p][i].deps \subseteq 1..(i - 1)
    BY ProgramAssumption
  <1>2. /\ at'[p] = [in |-> "run", op |-> i + 1]
        /\ \A q \in Procs \ {p} : at'[q] = at[q]
        /\ UNCHANGED <<main, proc_state, arg>>
        /\ got' = [got EXCEPT ![p][i] = r]
        /\ DOMAIN got = Procs
    BY DEF Passes, Past, At, RInv, Iterations, IInv, Shapes
  <1>3. Destroyed' = Destroyed /\ p \in InIteration /\ InIteration' = InIteration
    BY <1>2 DEF Destroyed, InIteration
  <1>4. NetRunning = InIteration /\ NetRunning' = InIteration
    BY <1>3, Zenon DEF NetRunning
  <1>5. NetDone[p] = 1..(i - 1) /\ NetGot[p] = got[p] /\ NetState[p] = arg[p]
    BY <1>3, <1>4, SMTT(60) DEF NetDone, NetGot, NetState
  <1>6. NetDone' = [NetDone EXCEPT ![p] = @ \cup {i}]
    <2>1. NetDone'[p] = 1..i
      BY <1>1, <1>2, <1>3, <1>4 DEF NetDone
    <2>2. 1..i = 1..(i - 1) \cup {i}
      BY <1>1
    <2>3. \A q \in Procs \ {p} : NetDone'[q] = NetDone[q]
      BY <1>2, <1>4 DEF NetDone
    <2> QED
      BY <1>5, <2>1, <2>2, <2>3, ZenonT(60) DEF NetDone
  <1>7. NetGot' = [NetGot EXCEPT ![p][i] = r]
    <2>1. NetGot'[p] = [got[p] EXCEPT ![i] = r]
      BY <1>2, <1>3, <1>4 DEF NetGot
    <2>2. \A q \in Procs \ {p} : NetGot'[q] = NetGot[q]
      BY <1>2, <1>4 DEF NetGot
    <2> QED
      BY <1>5, <2>1, <2>2, Zenon DEF NetGot
  <1>8. NetState' = NetState
    BY <1>2, <1>3 DEF NetState
  <1> QED
    <2>1. /\ i \notin NetDone[p] /\ Program[p][i].deps \subseteq NetDone[p]
      BY <1>1, <1>5
    <2> QED
      BY <1>3, <1>4, <1>5, <1>6, <1>7, <1>8, <2>1, Zenon DEF Executes, Network!Executed

\* Each step of a thread while the runtime exists.
LEMMA ThreadImplements ==
  ASSUME RInv, ~Destroyed, NEW p \in Procs, Thread(p)
  PROVE  Network!Next \/ UNCHANGED Network!vars
  <1>1. Turn(p)
    BY ThreadTurn DEF RInv
  <1>2. thread_state[p] # "kCancelled" /\ main.at = "await"
    BY <1>1, TurnFacts, Zenon DEF RInv, Destroyed, Turn
  <1>3. /\ NetQueue = queue /\ NetRunning = InIteration
        /\ DOMAIN at = Procs /\ DOMAIN proc_state = Procs /\ DOMAIN got = Procs
        /\ DOMAIN arg = Procs
    BY OpenNetwork DEF RInv, IInv, Shapes, Iterations
  <1>4. ~Destroyed' => NetQueue' = queue'
    BY Zenon DEF NetQueue
  <1>5. ASSUME at[p].op \in DOMAIN Program[p], Network!Execute(p, at[p].op)
        PROVE  Network!Next
    BY <1>5 DEF Network!Next, Network!Ops
  <1>6. CASE BeginIteration(p)
    <2>1. /\ at[p].in \in {"start", "done"} /\ ~Destroyed'
          /\ at'[p] = [in |-> "run", op |-> 1]
          /\ \A q \in Procs \ {p} : at'[q] = at[q]
          /\ UNCHANGED <<main, proc_state, queue>>
          /\ arg'[p] = proc_state[p] /\ \A q \in Procs \ {p} : arg'[q] = arg[q]
          /\ got'[p] = NoResults(p) /\ \A q \in Procs \ {p} : got'[q] = got[q]
          /\ Destroyed' = Destroyed
      BY <1>3, <1>6, Zenon DEF BeginIteration, At, Destroyed
    <2>2. p \notin InIteration /\ InIteration' = InIteration \cup {p}
      BY <2>1, SMTT(60) DEF InIteration
    <2>3. NetRunning' = NetRunning \cup {p}
      BY <1>3, <2>1, <2>2, Zenon DEF NetRunning
    <2>4. NetDone' = NetDone
      <3>1. NetDone'[p] = NetDone[p]
        <4>1. NetDone[p] = {} /\ NetDone'[p] = 1..(1 - 1)
          <5>1. p \notin NetRunning /\ p \in NetRunning'
            BY <1>3, <2>2, <2>3, Zenon DEF NetRunning
          <5>2. NetDone'[p] = 1..(at'[p].op - 1)
            BY <5>1, Zenon DEF NetDone
          <5>3. at'[p].op = 1
            <6>1. at'[p] = [in |-> "run", op |-> 1]
              BY <2>1, Zenon
            <6> QED
              BY <6>1
          <5> QED
            BY <5>1, <5>2, <5>3, Zenon DEF NetDone
        <4>2. 1..(1 - 1) = {}
          OBVIOUS
        <4> QED
          BY <4>1, <4>2, Zenon
      <3>2. \A q \in Procs \ {p} : NetDone'[q] = NetDone[q]
        <4>1. \A q \in Procs \ {p} : q \in NetRunning' <=> q \in NetRunning
          BY <2>3, Zenon
        <4> QED
          BY <2>1, <4>1, Zenon DEF NetDone
      <3>3. \A q \in Procs : NetDone'[q] = NetDone[q]
        BY <3>1, <3>2, Zenon
      <3> QED
        BY <3>3, Zenon DEF NetDone
    <2>5. NetGot' = NetGot
      BY <1>3, <2>1, <2>2, <2>3, Zenon DEF NetGot
    <2>6. NetState' = NetState
      BY <2>1, <2>2, Zenon DEF NetState
    <2>7. Network!Start(p)
      BY <1>3, <1>4, <2>1, <2>2, <2>3, <2>4, <2>5, <2>6, SMTT(60) DEF Network!Start
    <2> QED
      BY <2>7, Zenon DEF Network!Next
  <1>7. CASE Skip(p)
    <2>1. /\ at[p].in = "run" /\ at[p].op \in DOMAIN Program[p] /\ UNCHANGED queue
          /\ arg[p] \notin Program[p][at[p].op].when
          /\ Past(p, at[p].op, IF Program[p][at[p].op].kind = "send" THEN NoData ELSE Zero)
      BY <1>7, ZenonT(60) DEF Skip
    <2> DEFINE op == Program[p][at[p].op]
    <2>2. /\ p \in NetRunning /\ at[p].op \notin NetDone[p] /\ op.deps \subseteq NetDone[p]
          /\ NetState[p] = arg[p] /\ ~Destroyed'
          /\ Network!Executed(p, at[p].op, IF op.kind = "send" THEN NoData ELSE Zero)
      <3>1. p \in InIteration
        BY <2>1, Zenon DEF InIteration
      <3> QED
        <4>1. PICK r : r = IF op.kind = "send" THEN NoData ELSE Zero
          BY Zenon
        <4>2. Passes(p, r)
          BY <2>1, <4>1, Zenon DEF Passes, Past
        <4>3. Executes(p, r)
          BY <2>1, <3>1, <4>2, PastExecutes, Zenon
        <4> QED
          BY <4>1, <4>3, Zenon DEF Executes, Network!Executed
    <2>3. UNCHANGED NetQueue
      BY <1>3, <1>4, <2>1, <2>2, Zenon
    <2>4. Network!Execute(p, at[p].op)
      BY <2>1, <2>2, <2>3, ZenonT(60) DEF Network!Execute
    <2> QED
      BY <1>5, <2>1, <2>4, Zenon
  <1>8. CASE SendFn(p)
    <2> DEFINE op == Program[p][at[p].op]
    <2>1. /\ at[p].in = "run" /\ at[p].op \in DOMAIN Program[p]
          /\ arg[p] \in op.when /\ op.kind = "send"
          /\ queue' = [queue EXCEPT ![op.ch] =
                  AfterSend(op.ch, queue[op.ch], SentValue(p, at[p].op, arg[p], got[p]))]
          /\ Past(p, at[p].op, NoData)
      BY <1>8, ZenonT(60) DEF SendFn
    <2>2. /\ p \in NetRunning /\ at[p].op \notin NetDone[p] /\ op.deps \subseteq NetDone[p]
          /\ NetState[p] = arg[p] /\ NetGot[p] = got[p] /\ ~Destroyed'
          /\ Network!Executed(p, at[p].op, NoData)
      <3>1. p \in InIteration
        BY <2>1, Zenon DEF InIteration
      <3> QED
        <4>1. Executes(p, NoData)
          <5>1. Passes(p, NoData)
            BY <2>1, Zenon DEF Passes
          <5> QED
            BY <2>1, <3>1, <5>1, PastExecutes, Zenon
        <4> QED
          BY <4>1, Zenon DEF Executes
    <2>3. NetQueue' = [NetQueue EXCEPT ![op.ch] = Network!AfterSend(op.ch,
                          NetQueue[op.ch], SentValue(p, at[p].op, NetState[p],
                          NetGot[p]))]
      BY <1>3, <1>4, <2>1, <2>2, Zenon DEF Network!AfterSend, AfterSend
    <2>4. Network!Execute(p, at[p].op)
      BY <2>1, <2>2, <2>3, ZenonT(60) DEF Network!Execute
    <2> QED
      BY <1>5, <2>1, <2>4, Zenon
  <1>9. ASSUME at[p].in \in {"run", "blocked"}, at[p].op \in DOMAIN Program[p],
               arg[p] \in Program[p][at[p].op].when, Program[p][at[p].op].kind # "send",
               queue[RecvChannel(p)] # <<>>, Past(p, at[p].op,
               Head(queue[RecvChannel(p)])),
               queue' = [queue EXCEPT ![RecvChannel(p)] =
                            AfterRecv(RecvChannel(p), queue[RecvChannel(p)])]
        PROVE  Network!Next
    <2> DEFINE op == Program[p][at[p].op]
    <2>0. NetQueue[op.ch] = queue[RecvChannel(p)]
      BY <1>3, Zenon DEF RecvChannel
    <2>1. /\ p \in NetRunning /\ at[p].op \notin NetDone[p] /\ op.deps \subseteq NetDone[p]
          /\ NetState[p] = arg[p] /\ ~Destroyed'
          /\ Network!Executed(p, at[p].op, Head(queue[RecvChannel(p)]))
      <3>1. PICK r : r = Head(queue[RecvChannel(p)])
        BY Zenon
      <3>2. Passes(p, r)
        BY <1>9, <3>1, Zenon DEF Passes, Past
      <3>3. Executes(p, r)
        <4>1. p \in InIteration
          BY <1>9, Zenon DEF InIteration
        <4> QED
          BY <1>9, <3>2, <4>1, PastExecutes, Zenon
      <3> QED
        BY <3>1, <3>3, Zenon DEF Executes, Network!Executed
    <2>2. /\ NetQueue[op.ch] # <<>>
          /\ NetQueue' = [NetQueue EXCEPT ![op.ch] =
                             Network!AfterRecv(op.ch, NetQueue[op.ch])]
      BY <1>3, <1>4, <1>9, <2>1, ZenonT(60) DEF Network!AfterRecv, AfterRecv, RecvChannel
    <2>3. Network!Execute(p, at[p].op)
      BY <1>9, <2>0, <2>1, <2>2, ZenonT(60) DEF Network!Execute
    <2> QED
      BY <1>5, <1>9, <2>3
  <1>10. CASE RecvFnNonBlocking(p)
    <2>1. /\ at[p].in = "run" /\ at[p].op \in DOMAIN Program[p]
          /\ arg[p] \in Program[p][at[p].op].when /\ Program[p][at[p].op].kind = "nbrecv"
      BY <1>10, ZenonT(60) DEF RecvFnNonBlocking
    <2>2. CASE /\ queue[RecvChannel(p)] # <<>>
               /\ Past(p, at[p].op, Head(queue[RecvChannel(p)]))
               /\ queue' = [queue EXCEPT ![RecvChannel(p)] =
                               AfterRecv(RecvChannel(p), queue[RecvChannel(p)])]
      BY <1>9, <2>1, <2>2, SMTT(60)
    <2>3. CASE /\ queue[RecvChannel(p)] = <<>> /\ Past(p, at[p].op, NoData)
               /\ UNCHANGED queue
      <3> DEFINE op == Program[p][at[p].op]
      <3>1. /\ p \in NetRunning /\ at[p].op \notin NetDone[p] /\ op.deps \subseteq NetDone[p]
            /\ NetState[p] = arg[p] /\ ~Destroyed'
            /\ Network!Executed(p, at[p].op, NoData)
        <4>1. p \in InIteration
          BY <2>1, Zenon DEF InIteration
        <4>2. Passes(p, NoData)
          BY <2>3, Zenon DEF Passes
        <4>3. Executes(p, NoData)
          BY <2>1, <4>1, <4>2, PastExecutes, Zenon
        <4> QED
          BY <4>3, Zenon DEF Executes
      <3>2. NetQueue[op.ch] = <<>> /\ UNCHANGED NetQueue
        BY <1>3, <1>4, <2>3, <3>1, Zenon DEF RecvChannel
      <3>3. Network!Execute(p, at[p].op)
        BY <2>1, <3>1, <3>2, Zenon DEF Network!Execute
      <3> QED
        BY <1>5, <2>1, <3>3, Zenon
    <2>4. CASE main' = [at |-> "aborted", thread |-> 0]
      BY <2>4, DestroyCloses, SMTT(60) DEF Destroyed, Network!Next
    <2> QED
      BY <1>10, <2>2, <2>3, <2>4, ZenonT(60) DEF RecvFnNonBlocking, RecvChannel
  <1>11. CASE RecvFn(p)
    <2>1. /\ at[p].in \in {"run", "blocked"} /\ at[p].op \in DOMAIN Program[p]
          /\ arg[p] \in Program[p][at[p].op].when /\ Program[p][at[p].op].kind = "recv"
      BY <1>11, Zenon DEF RecvFn, AtRecv
    <2>2. CASE Receive(p)
      BY <1>9, <2>1, <2>2, Zenon DEF Receive, Empty
    <2>3. CASE Block(p)
      <3>1. /\ at'[p] = [in |-> "blocked", op |-> at[p].op]
            /\ \A q \in Procs \ {p} : at'[q] = at[q]
            /\ UNCHANGED <<main, proc_state, arg, got, queue>>
        BY <1>3, <2>3, Zenon DEF Block, At
      <3>2. InIteration' = InIteration /\ Destroyed' = Destroyed
        BY <2>1, <3>1, SMTT(60) DEF InIteration, Destroyed
      <3>3. \A q \in Procs : at'[q].op = at[q].op
        BY <3>1
      <3> QED
        BY <3>1, <3>2, <3>3
           DEF Network!vars, NetQueue, NetRunning, NetDone, NetGot, NetState
    <2> QED
      BY <1>2, <1>11, <2>2, <2>3, Zenon DEF RecvFn, GiveUp
  <1>12. CASE EndIteration(p)
    <2>1. /\ at[p].in = "run" /\ at[p].op \notin DOMAIN Program[p] /\ ~Destroyed'
          /\ at'[p] = [in |-> "done", op |-> 0]
          /\ \A q \in Procs \ {p} : at'[q] = at[q]
          /\ UNCHANGED <<main, arg, got, queue>>
          /\ proc_state'[p] = NextState(p, arg[p], got[p])
          /\ \A q \in Procs \ {p} : proc_state'[q] = proc_state[q]
          /\ Destroyed' = Destroyed
      BY <1>2, <1>3, <1>12, Zenon DEF EndIteration, At, Destroyed
    <2>2. p \in InIteration /\ InIteration' = InIteration \ {p}
      BY <2>1, SMTT(60) DEF InIteration
    <2>3. NetRunning' = NetRunning \ {p}
      BY <1>3, <2>1, <2>2 DEF NetRunning
    <2>4. NetDone[p] = DOMAIN Program[p]
      <3>1. at[p].op = Len(Program[p]) + 1 /\ Len(Program[p]) \in Nat
            /\ DOMAIN Program[p] = 1..Len(Program[p])
        BY <2>1, <2>2, ProgramAssumption, SMTT(60) DEF RInv, Iterations
      <3> QED
        BY <1>3, <2>2, <3>1, SMTT(60) DEF NetDone
    <2>5. NetDone' = [NetDone EXCEPT ![p] = {}]
      BY <1>3, <2>1, <2>2, <2>3, Zenon DEF NetDone
    <2>6. NetGot' = [NetGot EXCEPT ![p] = NoResults(p)]
      BY <1>3, <2>1, <2>2, <2>3, Zenon DEF NetGot
    <2>7. NetState' = [NetState EXCEPT ![p] = NextState(p, NetState[p], NetGot[p])]
      <3>1. NetState[p] = arg[p] /\ NetGot[p] = got[p]
        BY <1>3, <2>2, Zenon DEF NetState, NetGot
      <3>2. NetState'[p] = NextState(p, arg[p], got[p])
        BY <2>1, <2>2, Zenon DEF NetState
      <3>3. \A q \in Procs \ {p} : NetState'[q] = NetState[q]
        BY <2>1, <2>2, SMTT(60) DEF NetState
      <3> QED
        BY <3>1, <3>2, <3>3, ZenonT(60) DEF NetState
    <2>8. Network!Finish(p)
      BY <1>3, <1>4, <2>1, <2>2, <2>3, <2>4, <2>5, <2>6, <2>7, ZenonT(60)
      DEF Network!Finish, Network!Ops, Network!NoResults, NoResults
    <2> QED
      BY <2>8, Zenon DEF Network!Next
  <1> QED
    BY <1>2, <1>6, <1>7, <1>8, <1>10, <1>11, <1>12 DEF Thread, Exit

\* Each step of the main thread and of the environment while the runtime exists.
LEMMA OthersImplement ==
  ASSUME RInv, ~Destroyed, [Next]_vars, ~(\E p \in Procs : Thread(p))
  PROVE  Network!Next \/ UNCHANGED Network!vars
  <1>1. ASSUME UNCHANGED <<at, proc_state, arg, got, queue>>, ~Destroyed'
        PROVE  UNCHANGED Network!vars
    <2>1. Destroyed' = Destroyed
      BY <1>1 DEF Destroyed
    <2> QED
      BY <1>1, <2>1
         DEF Network!vars, NetQueue, NetRunning, NetDone, NetGot, NetState, InIteration
  <1>2. CASE Tick \/ TickRelease \/ TickAwait \/ UNCHANGED vars
    BY <1>1, <1>2
    DEF Tick, TickRelease, TickAwait, vars, Destroyed, MainAt, Onwards
  <1>3. CASE Destroy
    BY <1>3, DestroyCloses, Zenon DEF Destroy, MainAt, Destroyed, Network!Next
  <1>4. ASSUME UNCHANGED <<main, at, proc_state, arg, got>>
        PROVE  /\ Destroyed' = Destroyed /\ NetQueue = queue /\ NetQueue' = queue'
               /\ UNCHANGED <<NetRunning, NetDone, NetGot, NetState>>
    BY <1>4 DEF NetQueue, NetRunning, NetDone, NetGot, NetState, InIteration, Destroyed
  <1>5. ASSUME NEW c \in Inputs, NEW v \in Values, Enqueue(c, v)
        PROVE  Network!Next
    <2>1. Network!Enqueue(c, v)
      BY <1>4, <1>5 DEF Enqueue, Network!Enqueue, Network!AfterSend, AfterSend
    <2> QED
      BY <2>1 DEF Network!Next
  <1>6. ASSUME NEW c \in Outputs, Dequeue(c)
        PROVE  Network!Next
    <2>1. Network!Dequeue(c)
      BY <1>4, <1>6 DEF Dequeue, Network!Dequeue, Network!AfterRecv, AfterRecv
    <2> QED
      BY <2>1 DEF Network!Next
  <1>7. CASE ResetState
    <2>1. /\ UNCHANGED <<main, at, arg, got, queue>>
          /\ proc_state' = [p \in Procs |-> InitState[p]]
          /\ Destroyed' = Destroyed /\ InIteration' = InIteration
      BY <1>7 DEF ResetState, Destroyed, InIteration
    <2>2. NetRunning = InIteration /\ UNCHANGED <<NetQueue, NetRunning>>
      BY <2>1, Zenon DEF NetQueue, NetRunning
    <2>3. UNCHANGED <<NetDone, NetGot>>
      BY <2>1, <2>2 DEF NetDone, NetGot
    <2>4. NetRunning' = NetRunning \ (Procs \ NetRunning)
      BY <2>2
    <2>5. NetState' = [p \in Procs |-> IF p \in Procs \ NetRunning
                                      THEN InitState[p] ELSE NetState[p]]
      BY <2>1, <2>2 DEF NetState
    <2>6. NetDone' = [p \in Procs |-> IF p \in Procs \ NetRunning THEN {} ELSE NetDone[p]]
      BY <2>2, <2>3 DEF NetDone
    <2>7. NetGot' = [p \in Procs |-> IF p \in Procs \ NetRunning
                                    THEN NoResults(p) ELSE NetGot[p]]
      BY <2>2, <2>3, Zenon DEF NetGot
    <2>8. Network!Reset
      BY <2>1, <2>2, <2>4, <2>5, <2>6, <2>7
      DEF Network!Reset, Network!NoResults, Network!Ops, NoResults
    <2> QED
      BY <2>8, Zenon DEF Network!Next
  <1>8. ~DestroyCancel /\ ~DestroyJoin
    BY SMTT(60) DEF DestroyCancel, DestroyJoin, Destroyed
  <1> QED
    BY <1>2, <1>3, <1>5, <1>6, <1>7, <1>8, Zenon DEF Next, MainStep

\* For every network of procs, whatever the interleaving of threads, Ticks, resets
\* and concurrent use of the queues, the runtime does what a network of procs may
\* do: every channel operation of an iteration exactly once, after those it depends
\* on, on the state the iteration began with; nothing after the destructor.
THEOREM RuntimeImplementsNetwork == Spec => ImplementsNetwork
  <1>1. Init => Network!Init
    <2> SUFFICES ASSUME Init PROVE Network!Init
      OBVIOUS
    <2>1. ~Destroyed /\ InIteration = {}
      BY DEF Init, Destroyed, InIteration, At
    <2> QED
      BY <2>1 DEF Init, Network!Init, NetQueue, NetRunning, NetDone, NetGot, NetState,
                  Network!NoResults, Network!Ops, NoResults
  <1>2. RInv /\ [Next]_vars => [Network!Next]_(Network!vars)
    <2>1. CASE Destroyed
      BY <2>1, DestroyedStays DEF RInv
    <2>2. CASE ~Destroyed
      BY <2>2, ThreadImplements, OthersImplement
    <2> QED
      BY <2>1, <2>2
  <1> QED
    BY <1>1, <1>2, SpecRInv, PTL DEF Spec, ImplementsNetwork, Network!Spec
=============================================================================
