--------------------- MODULE NetlistInterpreterProofs ---------------------
(***************************************************************************)
(* Theorems about NetlistInterpreter, for every netlist and any number of  *)
(* threads.                                                                *)
(***************************************************************************)
EXTENDS NetlistInterpreter, FiniteSetTheorems, SequenceTheorems, TLAPS

(* The queues are sequences, of whatever entries.                          *)
IsQueue(q) == \E S : q \in Seq(S)

(* What a push does to a queue.                                            *)
LEMMA QueueAppend ==
  ASSUME NEW q, NEW e, IsQueue(q)
  PROVE  /\ IsQueue(Append(q, e))
         /\ Len(q) \in Nat
         /\ Len(Append(q, e)) = Len(q) + 1
<1>1. PICK S : q \in Seq(S)
  BY DEF IsQueue
<1>2. q \in Seq(S \cup {e}) /\ e \in S \cup {e}
  BY <1>1
<1> QED
  BY <1>2, AppendProperties, SMTT(60) DEF IsQueue

(* What a pop does to a queue.                                             *)
LEMMA QueueTail ==
  ASSUME NEW q, IsQueue(q), q # <<>>
  PROVE  /\ IsQueue(Tail(q))
         /\ Len(q) \in Nat
         /\ Len(Tail(q)) = Len(q) - 1
<1>1. PICK S : q \in Seq(S)
  BY DEF IsQueue
<1> QED
  BY <1>1, HeadTailProperties, SMTT(60) DEF IsQueue

(* A queue has length 0 exactly when it is empty.                          *)
LEMMA QueueEmpty ==
  /\ IsQueue(<<>>) /\ Len(<<>>) = 0
  /\ \A q : IsQueue(q) => Len(q) \in Nat /\ (Len(q) = 0 <=> q = <<>>)
<1>1. <<>> \in Seq({})
  OBVIOUS
<1> QED
  BY <1>1, EmptySeq, SMTT(60) DEF IsQueue

(* A frame is a record that says where the call is and what it expects.    *)
IsFrame(f) ==
    /\ f = [field \in DOMAIN f |-> f[field]]
    /\ {"at", "pending"} \subseteq DOMAIN f

(* A call starts by populating its cells, and expects no results.          *)
LEMMA FrameStart ==
  ASSUME NEW c, NEW m, NEW inputs
  PROVE  /\ IsFrame(Frame(c, m, inputs))
         /\ Frame(c, m, inputs).pending = 0
         /\ Frame(c, m, inputs).at = "populate"
BY Zenon DEF IsFrame, Frame

(* Going to the cells of a wire leaves the expected results alone.         *)
LEMMA FrameLeftOnWire ==
  ASSUME NEW f, IsFrame(f), NEW cells
  PROVE  /\ IsFrame(LeftOnWire(f, cells))
         /\ LeftOnWire(f, cells).pending = f.pending
         /\ LeftOnWire(f, cells).at # "dispatch"
<1> DEFINE at == IF cells = <<>> THEN "wires" ELSE "cells"
<1>1. at # "dispatch"
  OBVIOUS
<1> HIDE DEF at
<1> DEFINE g == [f EXCEPT !.todo = cells, !.at = at]
<1>2. IsFrame(g) /\ g.pending = f.pending /\ g.at = at
  BY Zenon DEF IsFrame
<1>3. LeftOnWire(f, cells) = g
  BY DEF LeftOnWire, at
<1> QED
  BY <1>1, <1>2, <1>3

(* So does going on to the next cell.                                      *)
LEMMA FrameAdvance ==
  ASSUME NEW f, IsFrame(f)
  PROVE  /\ IsFrame(Advance(f))
         /\ Advance(f).pending = f.pending
         /\ Advance(f).at # "dispatch"
<1>1. CASE f.at = "populate"
  BY <1>1, SMTT(60) DEF IsFrame, Advance
<1>2. CASE f.at # "populate"
  BY <1>2, FrameLeftOnWire, SMTT(60) DEF Advance
<1> QED
  BY <1>1, <1>2, SMTT(60)

(* Taking in the results of a cell leaves the count and the place alone.   *)
LEMMA FrameUpdate ==
  ASSUME NEW f, IsFrame(f), NEW results, NEW order
  PROVE  /\ IsFrame(UpdateProcessedState(f, results, order))
         /\ UpdateProcessedState(f, results, order).pending = f.pending
         /\ UpdateProcessedState(f, results, order).at = f.at
<1> DEFINE active == f.active \o order
           inputs == [d \in DOMAIN f.inputs |->
                        f.inputs[d] @@ [wire \in {w \in DOMAIN results :
                                                    d \in Range(Connected(w))} |->
                                          results[wire]]]
           outputs == f.outputs @@
                        [wire \in DOMAIN results \cap Range(Module(f.module).outs) |->
                           results[wire]]
           g == [f EXCEPT !.active = active, !.inputs = inputs, !.outputs = outputs]
<1>1. UpdateProcessedState(f, results, order) = g
  BY DEF UpdateProcessedState
<1> HIDE DEF active, inputs, outputs
<1>2. IsFrame(g) /\ g.pending = f.pending /\ g.at = f.at
  BY ZenonT(60) DEF IsFrame
<1> QED
  BY <1>1, <1>2, SMTT(60)

(* Replacing the top of a stack of one frame.                              *)
LEMMA SingleFrame ==
  ASSUME NEW f, NEW g
  PROVE  /\ Front(<<g>>) \o <<f>> = <<f>>
         /\ Last(<<f>>) = f
         /\ <<f>> # <<>>
         /\ Len(<<f>>) = 1
<1>1. Front(<<g>>) = <<>>
  <2>1. Len(<<g>>) = 1
    OBVIOUS
  <2>2. SubSeq(<<g>>, 1, 0) = <<>>
    OBVIOUS
  <2> QED
    BY <2>1, <2>2, SMTT(60) DEF Front
<1>2. <<>> \o <<f>> = <<f>>
  OBVIOUS
<1>3. Last(<<f>>) = f
  BY DEF Last
<1>4. <<f>> # <<>> /\ Len(<<f>>) = 1
  BY SMTT(60)
<1> QED
  BY <1>1, <1>2, <1>3, <1>4, Zenon

-----------------------------------------------------------------------------
(* The counter of available threads, for every netlist. *)

WorkerState == {"arriving", "waiting", "woken", "busy", "exited"}

(* The inductive invariant: the types it needs, and that a thread inside   *)
(* InterpretModule is busy with a cell.                                    *)
PoolInv ==
    /\ IsQueue(input_queue)
    /\ num_available \in Int
    /\ worker \in [Threads -> WorkerState]
    /\ should_exit \in BOOLEAN
    /\ stack = [t \in Callers |-> stack[t]]
    /\ \A t \in Threads : stack[t] # <<>> => worker[t] = "busy"
    /\ ThreadsAccountedFor

(* What a step of InterpretModule may do to the pool: nothing but dispatch *)
(* a cell, or end the busy time of the worker that takes it.               *)
LEMMA ModuleSteps ==
  ASSUME NEW t \in Callers, InterpretModule(t)
  PROVE  /\ stack[t] # <<>>
         /\ UNCHANGED <<design, should_exit>>
         /\ UNCHANGED stack \/ \E v : stack' = [stack EXCEPT ![t] = v]
         /\ \/ UNCHANGED <<input_queue, num_available, worker>>
            \/ Dispatch(t)
            \/ /\ t # Main
               /\ worker' = [worker EXCEPT ![t] = "arriving"]
               /\ stack' = [stack EXCEPT ![t] = <<>>]
               /\ UNCHANGED <<input_queue, num_available>>
<1> USE DEF pool, caller
<1>1. CASE Populate(t)
  BY <1>1, ZenonT(60) DEF Populate, In, InterpretCell, Abort, ReturnError, Accept, SetTop
<1>2. CASE SetInputs(t)
  BY <1>2, Zenon DEF SetInputs, In, SetTop
<1>3. CASE TakeWire(t)
  BY <1>3, Zenon DEF TakeWire, In, SetTop
<1>4. CASE ProcessCell(t)
  BY <1>4, Zenon DEF ProcessCell, In, InterpretCell, Abort, ReturnError, Accept, SetTop
<1>5. CASE Dispatch(t)
  BY <1>5, Zenon DEF Dispatch, In, SetTop
<1>6. CASE Drain(t)
  BY <1>6, ZenonT(60) DEF Drain, In, SetTop, Abort
<1>7. CASE EndDrain(t)
  BY <1>7, Zenon DEF EndDrain, In, SetTop
<1>8. CASE Return(t)
  BY <1>8, ZenonT(60) DEF Return, In, Abort, ReturnError, Accept, PushResults
<1> QED
  BY <1>1, <1>2, <1>3, <1>4, <1>5, <1>6, <1>7, <1>8, ZenonT(60) DEF InterpretModule

(* The threads that wait for a cell, before and after one of them moves.   *)
LEMMA ThreadSets ==
  ASSUME worker \in [Threads -> WorkerState],
         NEW t \in Threads, NEW to \in WorkerState,
         worker' = [worker EXCEPT ![t] = to]
  PROVE  /\ worker' \in [Threads -> WorkerState]
         /\ Available' =
              IF to \in {"waiting", "woken"} THEN Available \cup {t}
              ELSE Available \ {t}
         /\ Woken' = IF to = "woken" THEN Woken \cup {t} ELSE Woken \ {t}
         /\ Busy' = IF to = "busy" THEN Busy \cup {t} ELSE Busy \ {t}
BY DEF Waiting, Woken, Available, Busy, WorkerState

(* The sets of threads are finite, so that they can be counted.            *)
LEMMA FiniteThreads ==
  /\ IsFiniteSet(Available) /\ IsFiniteSet(Woken) /\ IsFiniteSet(Busy)
  /\ Cardinality(Available) \in Nat
  /\ Cardinality(Woken) \in Nat /\ Cardinality(Busy) \in Nat
<1>1. /\ Available \in SUBSET Threads
      /\ Woken \in SUBSET Threads /\ Busy \in SUBSET Threads
  BY SMTT(60) DEF Waiting, Woken, Available, Busy
<1> QED
  BY <1>1, FS_Subset, FS_CardinalityType, ThreadAssumption, Zenon

(* A worker at the lock: it leaves, waits, or takes a cell.                *)
LEMMA TakeEntryKeepsPool ==
  ASSUME PoolInv, NEW t \in Threads, TakeEntry(t),
         \/ /\ worker[t] = "arriving"
            /\ num_available' = num_available + 1
         \/ /\ worker[t] = "woken"
            /\ num_available' = num_available
  PROVE  PoolInv'
<1> USE DEF WorkerState
<1>0. /\ IsQueue(input_queue) /\ num_available \in Int /\ should_exit \in BOOLEAN
      /\ worker \in [Threads -> WorkerState]
      /\ \A u \in Threads : stack[u] # <<>> => worker[u] = "busy"
      /\ stack = [u \in Callers |-> stack[u]]
      /\ ~should_exit => num_available + Len(input_queue) = Cardinality(Available)
  BY SMTT(60) DEF PoolInv, ThreadsAccountedFor
<1>1. /\ t \in Available <=> worker[t] = "woken"
      /\ num_available' \in Int
      /\ stack' = stack /\ should_exit' = should_exit
      /\ stack[t] = <<>>
  <2>1. t \in Available <=> worker[t] = "woken"
    BY DEF Available
  <2>2. num_available' \in Int
    BY <1>0, SMTT(60)
  <2>3. stack' = stack /\ should_exit' = should_exit
    BY DEF TakeEntry
  <2>4. stack[t] = <<>>
    BY <1>0, SMTT(60)
  <2> QED
    BY <2>1, <2>2, <2>3, <2>4, Zenon
<1>2. CASE should_exit
  <2>1. worker' = [worker EXCEPT ![t] = "exited"] /\ input_queue' = input_queue
    BY <1>2 DEF TakeEntry
  <2> QED
    BY <1>1, <1>2, <2>1, Zenon DEF PoolInv, ThreadsAccountedFor
<1>3. CASE ~should_exit /\ input_queue = <<>>
  <2>1. worker' = [worker EXCEPT ![t] = "waiting"] /\ input_queue' = input_queue
    BY <1>3, SMTT(60) DEF TakeEntry
  <2>2. Available' = Available \cup {t}
    BY <2>1, ThreadSets, Zenon DEF PoolInv
  <2>3. Cardinality(Available') =
          Cardinality(Available) + (IF worker[t] = "woken" THEN 0 ELSE 1)
    <3>1. CASE worker[t] = "woken"
      <4>1. Available \cup {t} = Available
        BY <1>1, <3>1, SMTT(60)
      <4>2. Cardinality(Available') = Cardinality(Available)
        BY <2>2, <4>1, Zenon
      <4> QED
        BY <3>1, <4>2, FiniteThreads, SMTT(60)
    <3>2. CASE worker[t] # "woken"
      <4>1. Cardinality(Available \cup {t}) = Cardinality(Available) + 1
        BY <1>1, <3>2, FiniteThreads, FS_AddElement, ZenonT(60)
      <4> QED
        BY <2>2, <3>2, <4>1, Zenon
    <3> QED
      BY <3>1, <3>2, Zenon
  <2>4. ThreadsAccountedFor'
    BY <1>1, <1>3, <2>1, <2>3, QueueEmpty, FiniteThreads, SMTT(60)
       DEF PoolInv, ThreadsAccountedFor
  <2> QED
    BY <1>1, <2>1, <2>4, Zenon DEF PoolInv
<1>4. CASE ~should_exit /\ input_queue # <<>>
  <2>1. worker' = [worker EXCEPT ![t] = "busy"] /\ input_queue' = Tail(input_queue)
    BY <1>4 DEF TakeEntry
  <2>2. Available' = Available \ {t}
    BY <2>1, ThreadSets, Zenon DEF PoolInv
  <2>3. Cardinality(Available') =
          Cardinality(Available) - (IF worker[t] = "woken" THEN 1 ELSE 0)
    <3>1. CASE worker[t] = "woken"
      <4>1. Cardinality(Available \ {t}) = Cardinality(Available) - 1
        BY <1>1, <3>1, FiniteThreads, FS_RemoveElement, ZenonT(60)
      <4> QED
        BY <2>2, <3>1, <4>1, Zenon
    <3>2. CASE worker[t] # "woken"
      <4>1. Available \ {t} = Available
        BY <1>1, <3>2
      <4> QED
        BY <2>2, <3>2, <4>1, FiniteThreads, SMTT(60)
    <3> QED
      BY <3>1, <3>2, Zenon
  <2>4. IsQueue(input_queue') /\ Len(input_queue') = Len(input_queue) - 1
        /\ Len(input_queue) \in Nat
    BY <1>4, <2>1, QueueTail, Zenon DEF PoolInv
  <2>5. ThreadsAccountedFor'
    BY <1>1, <1>4, <2>3, <2>4, FiniteThreads, SMTT(60) DEF PoolInv, ThreadsAccountedFor
  <2> QED
    BY <1>1, <2>1, <2>4, <2>5, Zenon DEF PoolInv
<1> QED
  BY <1>2, <1>3, <1>4, Zenon DEF PoolInv

(* A signal leaves the threads that wait for a cell who they are.          *)
LEMMA SignalKeepsThreads ==
  ASSUME worker \in [Threads -> WorkerState], Signal
  PROVE  /\ worker' \in [Threads -> WorkerState]
         /\ Available' = Available
         /\ Busy' = Busy
         /\ \A t \in Threads : worker[t] = "busy" => worker'[t] = "busy"
<1>1. CASE worker' = worker
  BY <1>1 DEF Waiting, Woken, Available, Busy
<1>2. CASE \E t \in Waiting : worker' = [worker EXCEPT ![t] = "woken"]
  BY <1>2 DEF Waiting, Woken, Available, Busy, WorkerState
<1> QED
  BY <1>1, <1>2 DEF Signal

(* Every step keeps the count of available threads.                        *)
LEMMA PoolStep ==
  ASSUME PoolInv, [Next]_vars
  PROVE  PoolInv'
<1> USE DEF WorkerState
<1>1. CASE UNCHANGED vars
  BY <1>1 DEF vars, pool, PoolInv, ThreadsAccountedFor, Available
<1>2. ASSUME NEW t \in Callers, InterpretModule(t)
      PROVE  PoolInv'
  <2>1. /\ stack[t] # <<>>
        /\ UNCHANGED should_exit
        /\ UNCHANGED stack \/ \E v : stack' = [stack EXCEPT ![t] = v]
    BY <1>2, ModuleSteps
  <2>2. /\ stack' = [u \in Callers |-> stack'[u]]
        /\ \A u \in Callers \ {t} : stack'[u] = stack[u]
        /\ t \in Threads => worker[t] = "busy"
    BY <2>1, Zenon DEF PoolInv, Callers
  <2>3. CASE UNCHANGED <<input_queue, num_available, worker>>
    BY <2>1, <2>2, <2>3, Zenon DEF PoolInv, ThreadsAccountedFor, Available, Callers
  <2>4. CASE Dispatch(t)
    <3>1. /\ num_available' = num_available - 1
          /\ IsQueue(input_queue') /\ Len(input_queue') = Len(input_queue) + 1
          /\ Len(input_queue) \in Nat
      BY <2>4, QueueAppend, Zenon DEF Dispatch, PoolInv
    <3>2. /\ worker' \in [Threads -> WorkerState]
          /\ Available' = Available
          /\ \A u \in Threads : worker[u] = "busy" => worker'[u] = "busy"
      BY <2>4, SignalKeepsThreads, Zenon DEF Dispatch, PoolInv
    <3>3. ThreadsAccountedFor'
      BY <2>1, <3>1, <3>2, FiniteThreads, SMTT(60) DEF PoolInv, ThreadsAccountedFor
    <3>4. \A u \in Threads : stack'[u] # <<>> => worker'[u] = "busy"
      <4> TAKE u \in Threads
      <4>1. CASE u = t
        BY <2>2, <3>2, <4>1, Zenon
      <4>2. CASE u # t
        BY <2>2, <3>2, <4>2, Zenon DEF PoolInv, Callers
      <4> QED
        BY <4>1, <4>2, Zenon
    <3>5. num_available' \in Int /\ should_exit' \in BOOLEAN
      BY <2>1, <3>1 DEF PoolInv
    <3> QED
      BY <2>2, <3>1, <3>2, <3>3, <3>4, <3>5, ZenonT(60) DEF PoolInv
  <2>5. CASE /\ t # Main
             /\ worker' = [worker EXCEPT ![t] = "arriving"]
             /\ stack' = [stack EXCEPT ![t] = <<>>]
             /\ UNCHANGED <<input_queue, num_available>>
    <3>1. t \in Threads /\ worker[t] = "busy"
      BY <2>2, <2>5, Zenon DEF Callers
    <3>2. Available' = Available
      BY <2>5, <3>1, ThreadSets, Zenon DEF PoolInv, Available
    <3>3. ThreadsAccountedFor'
      BY <2>1, <2>5, <3>2, Zenon DEF PoolInv, ThreadsAccountedFor
    <3> QED
      BY <2>1, <2>2, <2>5, <3>1, <3>3, Zenon DEF PoolInv, Callers
  <2> QED
    BY <1>2, <2>3, <2>4, <2>5, ModuleSteps, Zenon
<1>3. ASSUME NEW t \in Threads, Arrive(t)
      PROVE  PoolInv'
  BY <1>3, TakeEntryKeepsPool, Zenon DEF Arrive
<1>4. ASSUME NEW t \in Threads, Wake(t)
      PROVE  PoolInv'
  BY <1>4, TakeEntryKeepsPool, Zenon DEF Wake
<1>5. ASSUME NEW t \in Threads, InterpretEntry(t)
      PROVE  PoolInv'
  <2> USE DEF pool
  <2>1. CASE UNCHANGED <<input_queue, num_available, worker, should_exit, stack>>
    BY <2>1 DEF PoolInv, ThreadsAccountedFor, Available
  <2>2. CASE /\ UNCHANGED <<input_queue, num_available, worker, should_exit>>
             /\ \E v : stack' = [stack EXCEPT ![t] = v]
    BY <1>5, <2>2, Zenon
       DEF InterpretEntry, PoolInv, ThreadsAccountedFor, Available, Callers
  <2>3. CASE /\ UNCHANGED <<input_queue, num_available, should_exit, stack>>
             /\ worker' = [worker EXCEPT ![t] = "arriving"]
    <3>1. worker[t] = "busy" /\ stack[t] = <<>>
      BY <1>5, Zenon DEF InterpretEntry
    <3>2. Available' = Available
      BY <2>3, <3>1, ThreadSets, Zenon DEF PoolInv, Available
    <3>3. ThreadsAccountedFor'
      BY <2>3, <3>2 DEF PoolInv, ThreadsAccountedFor
    <3> QED
      BY <2>3, <3>1, <3>3, Zenon DEF PoolInv
  <2> QED
    BY <1>5, <2>1, <2>2, <2>3, Zenon DEF InterpretEntry, Abort, PushResults
<1>6. CASE Call
  BY <1>6, ThreadAssumption, Zenon
     DEF Call, pool, PoolInv, ThreadsAccountedFor, Available, Callers
<1>7. CASE Destroy
  <2>1. /\ UNCHANGED <<input_queue, num_available, stack>>
        /\ should_exit' \in BOOLEAN
        /\ worker' \in [Threads -> WorkerState]
        /\ Available' = Available
        /\ \A t \in Threads : worker[t] = "busy" => worker'[t] = "busy"
    BY <1>7 DEF Destroy, PoolInv, Waiting, Available
  <2>2. \A t \in Threads : stack'[t] # <<>> => worker'[t] = "busy"
    BY <2>1 DEF PoolInv
  <2>3. ThreadsAccountedFor'
    <3>1. CASE should_exit' = TRUE
      BY <3>1 DEF ThreadsAccountedFor
    <3>2. CASE should_exit' # TRUE
      <4>1. should_exit = FALSE
        BY <1>7, <3>2, Zenon DEF Destroy, PoolInv
      <4> QED
        BY <2>1, <4>1 DEF PoolInv, ThreadsAccountedFor
    <3> QED
      BY <3>1, <3>2, Zenon
  <2> QED
    BY <2>1, <2>2, <2>3, Zenon DEF PoolInv
<1>8. CASE Join
  BY <1>8 DEF Join, pool, PoolInv, ThreadsAccountedFor, Available
<1> QED
  BY <1>1, <1>2, <1>3, <1>4, <1>5, <1>6, <1>7, <1>8, ZenonT(60) DEF Next, ThreadBody

(* Initially no thread has arrived.                                        *)
LEMMA PoolInit ==
  ASSUME Init
  PROVE  PoolInv
<1>1. /\ IsQueue(input_queue) /\ Len(input_queue) = 0 /\ num_available = 0
      /\ worker \in [Threads -> WorkerState] /\ should_exit = FALSE
      /\ stack = [t \in Callers |-> <<>>]
  BY QueueEmpty DEF Init, WorkerState
<1>2. Available = {}
  BY DEF Init, Available
<1>3. num_available + Len(input_queue) = Cardinality(Available)
  BY <1>1, <1>2, FS_EmptySet
<1>4. \A t \in Threads : stack[t] = <<>>
  BY <1>1 DEF Callers
<1>5. stack = [t \in Callers |-> stack[t]]
  BY <1>1
<1>6. ThreadsAccountedFor
  BY <1>3 DEF ThreadsAccountedFor
<1>7. num_available \in Int
  BY <1>1
<1>8. should_exit \in BOOLEAN
  BY Zenon DEF Init
<1> QED
  BY <1>1, <1>4, <1>5, <1>6, <1>7, <1>8, ZenonT(60) DEF PoolInv

(* The counter is right in every state, for every netlist: nested modules  *)
(* and several dispatching threads included.                               *)
THEOREM ThreadsAlwaysAccountedFor == Spec => []ThreadsAccountedFor
<1>1. Init => PoolInv
  BY PoolInit
<1>2. PoolInv /\ [Next]_vars => PoolInv'
  BY PoolStep
<1>3. PoolInv => ThreadsAccountedFor
  BY DEF PoolInv
<1> QED
  BY <1>1, <1>2, <1>3, PTL DEF Spec

-----------------------------------------------------------------------------
(* Flat netlists: only the owner's thread is inside InterpretModule. *)

(* The owner is in no call, or in one.                                     *)
OneCall ==
    /\ \A t \in Threads : stack[t] = <<>>
    /\ stack[Main] # <<>> =>
         \E f : stack[Main] = <<f>> /\ IsFrame(f) /\ f.pending \in Int

(* What a step of the owner's call does, in a flat netlist: it works on    *)
(* its own state, sends a cell out, takes a result back, or returns.       *)
Works(f) ==
    \E g : /\ stack' = [stack EXCEPT ![Main] = <<g>>]
           /\ IsFrame(g) /\ g.pending = f.pending
           /\ g.at = "dispatch" => num_available # 0
           /\ UNCHANGED <<pool, user>>

SendsOut(f) ==
    \E g, e : /\ f.at = "dispatch"
              /\ stack' = [stack EXCEPT ![Main] = <<g>>]
              /\ IsFrame(g) /\ g.pending = f.pending + 1 /\ g.at # "dispatch"
              /\ input_queue' = Append(input_queue, e)
              /\ num_available' = num_available - 1
              /\ Signal
              /\ UNCHANGED <<output_queue, should_exit, user>>

TakesBack(f) ==
    \E g : /\ stack' = [stack EXCEPT ![Main] = <<g>>]
           /\ IsFrame(g) /\ g.pending = f.pending - 1 /\ g.at # "dispatch"
           /\ output_queue # <<>> /\ output_queue' = Tail(output_queue)
           /\ UNCHANGED <<input_queue, num_available, should_exit, worker, user>>

Returns(f) ==
    /\ stack' = [stack EXCEPT ![Main] = <<>>]
    /\ f.pending = 0 \/ ~NeverFails
    /\ user' = "idle"
    /\ UNCHANGED pool

(* In a flat netlist the owner interprets a cell without a call.           *)
LEMMA InterpretCellFlat ==
  ASSUME Flat, NEW f, stack[Main] = <<f>>,
         NEW g, IsFrame(g), g.pending = f.pending, g.at # "dispatch",
         NEW c, NEW wires, InterpretCell(Main, g, c, wires)
  PROVE  UNCHANGED <<pool, stack, user>> \/ Works(f) \/ Returns(f)
<1> USE DEF caller
<1>1. CASE Abort
  BY <1>1 DEF Abort
<1>2. CASE Fails(c, wires) /\ ReturnError(Main)
  BY <1>2 DEF Fails, NeverFails, ReturnError, Returns
<1>3. CASE Accept(Main, Front(stack[Main]), g, c, Results(c, wires))
  <2>1. CASE Abort
    BY <2>1 DEF Abort
  <2>2. ASSUME NEW order,
               stack' = [stack EXCEPT ![Main] = Front(stack[Main]) \o
                          <<Advance(UpdateProcessedState(g, Results(c, wires), order))>>],
               UNCHANGED <<design, pool, caller, aborted>>
        PROVE  Works(f)
    <3> DEFINE h == Advance(UpdateProcessedState(g, Results(c, wires), order))
    <3>1. IsFrame(h) /\ h.pending = f.pending /\ h.at # "dispatch"
      BY FrameUpdate, FrameAdvance
    <3>2. stack' = [stack EXCEPT ![Main] = <<h>>]
      BY <2>2, SingleFrame, Zenon
    <3> HIDE DEF h
    <3> QED
      BY <2>2, <3>1, <3>2, Zenon DEF Works
  <2> QED
    BY <1>3, <2>1, <2>2, Zenon DEF Accept
<1>4. ~IsModule(c)
  BY Zenon DEF Flat, IsModule
<1> QED
  BY <1>1, <1>2, <1>3, <1>4, Zenon DEF InterpretCell

(* Every step of the owner's call is one of the four above, or aborts.     *)
LEMMA FlatSteps ==
  ASSUME Flat, NEW f, stack[Main] = <<f>>, IsFrame(f), InterpretModule(Main)
  PROVE  \/ UNCHANGED <<pool, stack, user>>
         \/ Works(f) \/ SendsOut(f) \/ TakesBack(f) \/ Returns(f)
<1> USE DEF caller
<1>0. Top(Main) = f
  BY SingleFrame DEF Top
<1>a. ASSUME NEW g, SetTop(Main, g)
      PROVE  stack' = [stack EXCEPT ![Main] = <<g>>]
  BY <1>a, SingleFrame, Zenon DEF SetTop
<1>b. ASSUME NEW g, SetTop(Main, g), IsFrame(g), g.pending = f.pending,
             g.at = "dispatch" => num_available # 0, UNCHANGED <<pool, user>>
      PROVE  Works(f)
  BY <1>a, <1>b, Zenon DEF Works
<1>1. CASE Populate(Main)
  <2> DEFINE c == CellsOf(f.module)[f.next]
             g == [f EXCEPT !.missing = @ @@ (c :> Len(Cell(c).ins)),
                            !.inputs = @ @@ (c :> NoValues)]
  <2>1. f.at = "populate"
    BY <1>0, <1>1, Zenon DEF Populate, In
  <2>2. IsFrame(g) /\ g.pending = f.pending /\ g.at # "dispatch"
    BY <2>1, Zenon DEF IsFrame
  <2>3. \/ InterpretCell(Main, g, c, NoValues)
        \/ SetTop(Main, Advance(g)) /\ UNCHANGED <<pool, user>>
    BY <1>0, <1>1, Zenon DEF Populate
  <2> HIDE DEF c, g
  <2>4. CASE InterpretCell(Main, g, c, NoValues)
    BY <2>2, <2>4, InterpretCellFlat, Zenon
  <2>5. CASE SetTop(Main, Advance(g)) /\ UNCHANGED <<pool, user>>
    BY <1>b, <2>2, <2>5, FrameAdvance, Zenon
  <2> QED
    BY <2>3, <2>4, <2>5, Zenon
<1>2. CASE SetInputs(Main)
  <2>1. PICK active, inputs :
          /\ SetTop(Main, [f EXCEPT !.at = "wires", !.active = active, !.inputs = inputs])
          /\ UNCHANGED <<pool, user>>
    BY <1>0, <1>2, Zenon DEF SetInputs
  <2> DEFINE g == [f EXCEPT !.at = "wires", !.active = active, !.inputs = inputs]
  <2>2. IsFrame(g) /\ g.pending = f.pending /\ g.at # "dispatch"
    BY Zenon DEF IsFrame
  <2> HIDE DEF g
  <2> QED
    BY <1>b, <2>1, <2>2, Zenon DEF g
<1>3. CASE TakeWire(Main)
  <2> DEFINE g == [f EXCEPT !.active = Tail(@)]
             cells == Connected(Head(f.active))
  <2>1. SetTop(Main, LeftOnWire(g, cells)) /\ UNCHANGED <<pool, user>>
    BY <1>0, <1>3 DEF TakeWire
  <2>2. IsFrame(g) /\ g.pending = f.pending
    BY Zenon DEF IsFrame
  <2> HIDE DEF g, cells
  <2> QED
    BY <1>b, <2>1, <2>2, FrameLeftOnWire, Zenon
<1>4. CASE ProcessCell(Main)
  <2> DEFINE c == Head(f.todo)
             noted == [f EXCEPT !.missing[c] = @ - 1]
             satisfied == [f EXCEPT !.missing[c] = 0]
             sent == [satisfied EXCEPT !.at = "dispatch"]
  <2>1. f.at = "cells"
    BY <1>0, <1>4, Zenon DEF ProcessCell, In
  <2>2. /\ IsFrame(noted) /\ noted.pending = f.pending
        /\ IsFrame(satisfied) /\ satisfied.pending = f.pending
        /\ satisfied.at # "dispatch"
        /\ IsFrame(sent) /\ sent.pending = f.pending
    BY <2>1, Zenon DEF IsFrame
  <2>3. \/ Abort
        \/ SetTop(Main, Advance(noted)) /\ UNCHANGED <<pool, user>>
        \/ SetTop(Main, sent) /\ num_available # 0 /\ UNCHANGED <<pool, user>>
        \/ InterpretCell(Main, satisfied, c, f.inputs[c])
    BY <1>0, <1>4, Zenon DEF ProcessCell
  <2> HIDE DEF c, noted, satisfied, sent
  <2>4. CASE Abort
    BY <2>4, Zenon DEF Abort
  <2>5. CASE SetTop(Main, Advance(noted)) /\ UNCHANGED <<pool, user>>
    BY <1>b, <2>2, <2>5, FrameAdvance, Zenon
  <2>6. CASE SetTop(Main, sent) /\ num_available # 0 /\ UNCHANGED <<pool, user>>
    BY <1>b, <2>2, <2>6, Zenon
  <2>7. CASE InterpretCell(Main, satisfied, c, f.inputs[c])
    BY <2>2, <2>7, InterpretCellFlat
  <2> QED
    BY <2>3, <2>4, <2>5, <2>6, <2>7, Zenon
<1>5. CASE Dispatch(Main)
  <2> DEFINE c == Head(f.todo)
             g == [f EXCEPT !.inputs[c] = NoValues, !.pending = @ + 1]
             e == [cell |-> c, wires |-> f.inputs[c]]
  <2>1. /\ f.at = "dispatch"
        /\ input_queue' = Append(input_queue, e)
        /\ SetTop(Main, Advance(g))
        /\ Signal /\ num_available' = num_available - 1
        /\ UNCHANGED <<output_queue, should_exit, user>>
    BY <1>0, <1>5 DEF Dispatch, In
  <2>2. IsFrame(g) /\ g.pending = f.pending + 1
    BY Zenon DEF IsFrame
  <2> HIDE DEF g, e, c
  <2>3. stack' = [stack EXCEPT ![Main] = <<Advance(g)>>]
    BY <1>a, <2>1, Zenon
  <2> QED
    BY <2>1, <2>2, <2>3, FrameAdvance, Zenon DEF SendsOut
<1>6. CASE Drain(Main)
  <2> DEFINE g == [f EXCEPT !.pending = @ - 1, !.at = "more"]
             wires == Head(output_queue).wires
  <2>1. \/ Abort
        \/ \E order : /\ output_queue # <<>> /\ output_queue' = Tail(output_queue)
                      /\ SetTop(Main, UpdateProcessedState(g, wires, order))
                      /\ UNCHANGED <<input_queue, num_available, should_exit, worker, user>>
    BY <1>0, <1>6 DEF Drain
  <2>2. IsFrame(g) /\ g.pending = f.pending - 1 /\ g.at # "dispatch"
    BY Zenon DEF IsFrame
  <2> HIDE DEF g, wires
  <2>3. CASE Abort
    BY <2>3 DEF Abort
  <2>4. ASSUME NEW order, output_queue # <<>>, output_queue' = Tail(output_queue),
               SetTop(Main, UpdateProcessedState(g, wires, order)),
               UNCHANGED <<input_queue, num_available, should_exit, worker, user>>
        PROVE  TakesBack(f)
    <3>1. stack' = [stack EXCEPT ![Main] = <<UpdateProcessedState(g, wires, order)>>]
      BY <1>a, <2>4, SMTT(60)
    <3> QED
      BY <2>2, <2>4, <3>1, FrameUpdate, Zenon DEF TakesBack
  <2> QED
    BY <2>1, <2>3, <2>4
<1>7. CASE EndDrain(Main)
  <2> DEFINE at == IF f.active = <<>> THEN "drain" ELSE "wires"
             g == [f EXCEPT !.at = at]
  <2>1. SetTop(Main, g) /\ UNCHANGED <<pool, user>>
    BY <1>0, <1>7 DEF EndDrain
  <2>2. at # "dispatch"
    OBVIOUS
  <2> HIDE DEF at
  <2>3. IsFrame(g) /\ g.pending = f.pending /\ g.at # "dispatch"
    BY <2>2 DEF IsFrame
  <2> HIDE DEF g
  <2> QED
    BY <1>b, <2>1, <2>3
<1>8. CASE Return(Main)
  <2>1. f.pending = 0 /\ Len(stack[Main]) = 1
    BY <1>0, <1>8, SingleFrame, Zenon DEF Return
  <2>2. \/ ReturnError(Main)
        \/ /\ stack' = [stack EXCEPT ![Main] = <<>>]
           /\ user' = "idle" /\ UNCHANGED pool
    BY <1>8, <2>1, SMTT(60) DEF Return
  <2> QED
    BY <2>1, <2>2, Zenon DEF ReturnError, Returns
<1> QED
  BY <1>1, <1>2, <1>3, <1>4, <1>5, <1>6, <1>7, <1>8, ZenonT(60) DEF InterpretModule

(* The inductive invariant for flat netlists.  The owner tests the counter *)
(* without the lock, but only the owner lowers it: what it read is still   *)
(* there when it dispatches.                                               *)
Expecting == IF stack[Main] = <<>> THEN 0 ELSE Top(Main).pending
InFlight == Len(input_queue) + Cardinality(Busy) + Len(output_queue)

FlatInv ==
    /\ OneCall
    /\ num_available >= 0
    /\ stack[Main] # <<>> /\ Top(Main).at = "dispatch" => num_available >= 1
    /\ user = "idle" => stack[Main] = <<>>
    /\ ~should_exit => Len(input_queue) <= Cardinality(Woken)
    /\ NeverFails /\ ~should_exit => InFlight = Expecting

NetInv == PoolInv /\ IsQueue(output_queue) /\ (Flat => FlatInv)

(* The netlist never changes.                                              *)
LEMMA DesignKept ==
  ASSUME [Next]_vars
  PROVE  design' = design /\ (Flat' <=> Flat) /\ (NeverFails' <=> NeverFails)
<1>1. design' = design
  <2>1. ASSUME NEW t \in Callers, InterpretModule(t) PROVE design' = design
    BY <2>1, ModuleSteps, Zenon
  <2>2. ASSUME NEW t \in Threads, ThreadBody(t) PROVE design' = design
    BY <2>2 DEF ThreadBody, Arrive, Wake, TakeEntry, InterpretEntry, Abort, PushResults
  <2> QED
    BY <2>1, <2>2 DEF Next, Call, Destroy, Join, vars
<1> QED
  BY <1>1, SMTT(60) DEF Flat, Instances, NeverFails, Failures, Cell

(* The results stay a queue.                                               *)
LEMMA OutputQueueKept ==
  ASSUME IsQueue(output_queue), [Next]_vars
  PROVE  IsQueue(output_queue')
<1>1. \/ UNCHANGED output_queue
      \/ output_queue # <<>> /\ output_queue' = Tail(output_queue)
      \/ \E e : output_queue' = Append(output_queue, e)
  <2> USE DEF pool, caller
  <2>1. ASSUME NEW t \in Callers, InterpretModule(t)
        PROVE  \/ UNCHANGED output_queue
               \/ output_queue # <<>> /\ output_queue' = Tail(output_queue)
               \/ \E e : output_queue' = Append(output_queue, e)
    BY <2>1, ZenonT(60)
       DEF InterpretModule, Populate, SetInputs, TakeWire, ProcessCell, Dispatch,
                Drain, EndDrain, Return, InterpretCell, Accept, Abort, ReturnError,
                PushResults
  <2>2. ASSUME NEW t \in Threads, ThreadBody(t)
        PROVE  \/ UNCHANGED output_queue
               \/ \E e : output_queue' = Append(output_queue, e)
    BY <2>2 DEF ThreadBody, Arrive, Wake, TakeEntry, InterpretEntry, Abort, PushResults
  <2> QED
    BY <2>1, <2>2, Zenon DEF Next, Call, Destroy, Join, vars
<1> QED
  BY <1>1, QueueTail, QueueAppend, Zenon

(* When the owner dispatches, a thread is woken or already on its way.     *)
LEMMA SignalWakes ==
  ASSUME PoolInv, ~should_exit, num_available >= 1, Signal,
         Len(input_queue) <= Cardinality(Woken)
  PROVE  Len(input_queue) + 1 <= Cardinality(Woken')
<1>1. /\ Len(input_queue) \in Nat /\ num_available \in Int
      /\ num_available + Len(input_queue) = Cardinality(Available)
      /\ worker \in [Threads -> WorkerState]
  BY QueueEmpty DEF PoolInv, ThreadsAccountedFor
<1>2. CASE Waiting = {} /\ worker' = worker
  <2>1. Woken' = Available
    BY <1>2 DEF Waiting, Woken, Available
  <2> QED
    BY <1>1, <2>1
<1>3. ASSUME NEW t \in Waiting, worker' = [worker EXCEPT ![t] = "woken"]
      PROVE  Len(input_queue) + 1 <= Cardinality(Woken')
  <2>1. Woken' = Woken \cup {t} /\ t \notin Woken
    BY <1>1, <1>3, ThreadSets, SMTT(60) DEF Waiting, Woken, WorkerState
  <2>2. Cardinality(Woken \cup {t}) = Cardinality(Woken) + 1
    BY <2>1, FiniteThreads, FS_AddElement, Zenon
  <2> QED
    BY <1>1, <2>1, <2>2, FiniteThreads, SMTT(60)
<1> QED
  BY <1>2, <1>3 DEF Signal

(* A worker at the lock keeps the balance of cells and of woken threads.   *)
LEMMA TakeEntryBalance ==
  ASSUME PoolInv, NEW t \in Threads, TakeEntry(t),
         worker[t] \in {"arriving", "woken"}, ~should_exit,
         Len(input_queue) <= Cardinality(Woken)
  PROVE  /\ Len(input_queue') <= Cardinality(Woken')
         /\ Len(input_queue') + Cardinality(Busy') = Len(input_queue) + Cardinality(Busy)
<1>1. /\ IsQueue(input_queue) /\ Len(input_queue) \in Nat
      /\ worker \in [Threads -> WorkerState]
      /\ t \notin Busy
  BY QueueEmpty DEF PoolInv, Busy
<1>2. CASE input_queue = <<>>
  <2>1. worker' = [worker EXCEPT ![t] = "waiting"] /\ input_queue' = input_queue
    BY <1>2 DEF TakeEntry
  <2>2. Busy' = Busy
    <3>1. Busy' = Busy \ {t}
      BY <1>1, <2>1, ThreadSets, Zenon DEF WorkerState
    <3> QED
      BY <1>1, <3>1
  <2>3. Woken' = Woken \ {t}
    BY <1>1, <2>1, ThreadSets, Zenon DEF WorkerState
  <2>4. Cardinality(Woken \ {t}) \in Nat
    BY FiniteThreads, FS_RemoveElement, FS_CardinalityType
  <2>5. Len(input_queue') = 0
    BY <1>2, <2>1, QueueEmpty, Zenon
  <2>6. Len(input_queue') <= Cardinality(Woken')
    BY <2>3, <2>4, <2>5
  <2>7. Len(input_queue') + Cardinality(Busy') = Len(input_queue) + Cardinality(Busy)
    BY <2>1, <2>2, Zenon
  <2> QED
    BY <2>6, <2>7, Zenon
<1>3. CASE input_queue # <<>>
  <2>1. worker' = [worker EXCEPT ![t] = "busy"] /\ input_queue' = Tail(input_queue)
    BY <1>3 DEF TakeEntry
  <2>2. Len(input_queue') = Len(input_queue) - 1
    BY <1>1, <1>3, <2>1, QueueTail, Zenon
  <2>3. Busy' = Busy \cup {t} /\ Woken' = Woken \ {t}
    BY <1>1, <2>1, ThreadSets, Zenon DEF WorkerState
  <2>4. Cardinality(Busy \cup {t}) = Cardinality(Busy) + 1
    BY <1>1, FiniteThreads, FS_AddElement, Zenon
  <2>5. \/ Cardinality(Woken \ {t}) = Cardinality(Woken) - 1
        \/ Cardinality(Woken \ {t}) = Cardinality(Woken)
    BY FiniteThreads, FS_RemoveElement, ZenonT(60)
  <2>6. Len(input_queue') <= Cardinality(Woken')
    BY <1>1, <2>2, <2>3, <2>5, FiniteThreads, SMTT(60)
  <2>7. Len(input_queue') + Cardinality(Busy') = Len(input_queue) + Cardinality(Busy)
    BY <1>1, <2>2, <2>3, <2>4, FiniteThreads, SMTT(60)
  <2> QED
    BY <2>6, <2>7
<1> QED
  BY <1>2, <1>3

(* Steps of the owner's call.                                              *)
LEMMA FlatModuleStep ==
  ASSUME NetInv, Flat, InterpretModule(Main), [Next]_vars
  PROVE  FlatInv'
<1>0. /\ OneCall /\ num_available \in Int /\ num_available >= 0
      /\ stack = [t \in Callers |-> stack[t]]
      /\ stack[Main] # <<>>
      /\ NeverFails' <=> NeverFails
      /\ IsQueue(input_queue) /\ Len(input_queue) \in Nat
      /\ IsQueue(output_queue) /\ Len(output_queue) \in Nat
  BY DesignKept, ModuleSteps, QueueEmpty, Zenon DEF NetInv, FlatInv, PoolInv, Callers
<1>1. PICK f : stack[Main] = <<f>> /\ IsFrame(f) /\ f.pending \in Int
  BY <1>0 DEF OneCall
<1>2. Top(Main) = f
  BY <1>1, SingleFrame, Zenon DEF Top
<1>3. /\ f.at = "dispatch" => num_available >= 1
      /\ user # "idle"
      /\ ~should_exit => Len(input_queue) <= Cardinality(Woken)
      /\ NeverFails /\ ~should_exit => InFlight = f.pending
  BY <1>0, <1>2, Zenon DEF NetInv, FlatInv, Expecting
<1>a. ASSUME NEW v, stack' = [stack EXCEPT ![Main] = v]
      PROVE  stack'[Main] = v /\ \A t \in Threads : stack'[t] = <<>>
  BY <1>0, <1>a, ThreadAssumption, Zenon DEF OneCall, Callers
<1>b. ASSUME NEW g, stack' = [stack EXCEPT ![Main] = <<g>>], IsFrame(g), g.pending \in Int
      PROVE  /\ OneCall' /\ stack'[Main] # <<>> /\ Top(Main)' = g
             /\ Expecting' = g.pending
  <2>1. stack'[Main] = <<g>> /\ \A t \in Threads : stack'[t] = <<>>
    BY <1>a, <1>b, Zenon
  <2>2. stack'[Main] # <<>> /\ Top(Main)' = g
    BY <2>1, SingleFrame DEF Top
  <2> QED
    BY <1>b, <2>1, <2>2, Zenon DEF OneCall, Expecting
<1>4. CASE UNCHANGED <<pool, stack, user>>
  BY <1>0, <1>4, Zenon
     DEF NetInv, FlatInv, OneCall, Top, InFlight, Expecting, pool, Woken, Busy
<1>5. CASE Works(f)
  <2>1. PICK g : /\ stack' = [stack EXCEPT ![Main] = <<g>>]
                 /\ IsFrame(g) /\ g.pending = f.pending
                 /\ g.at = "dispatch" => num_available # 0
                 /\ UNCHANGED <<pool, user>>
    BY <1>5, Zenon DEF Works
  <2>2. OneCall' /\ stack'[Main] # <<>> /\ Top(Main)' = g /\ Expecting' = f.pending
    BY <1>1, <1>b, <2>1, Zenon
  <2>3. /\ UNCHANGED <<input_queue, output_queue, num_available, should_exit, user>>
        /\ Woken' = Woken /\ Busy' = Busy
    BY <2>1 DEF pool, Woken, Busy
  <2>4. NeverFails' /\ ~should_exit' => InFlight' = Expecting'
    BY <1>0, <1>3, <2>2, <2>3, Zenon DEF InFlight
  <2>5. stack'[Main] # <<>> /\ Top(Main)'.at = "dispatch" => num_available' >= 1
    BY <1>0, <2>1, <2>2, <2>3, SMTT(60)
  <2> QED
    BY <1>0, <1>3, <2>2, <2>3, <2>4, <2>5, ZenonT(60) DEF FlatInv, Top
<1>6. CASE SendsOut(f)
  <2>1. PICK g, e : /\ f.at = "dispatch"
                    /\ stack' = [stack EXCEPT ![Main] = <<g>>]
                    /\ IsFrame(g) /\ g.pending = f.pending + 1 /\ g.at # "dispatch"
                    /\ input_queue' = Append(input_queue, e)
                    /\ num_available' = num_available - 1
                    /\ Signal
                    /\ UNCHANGED <<output_queue, should_exit, user>>
    BY <1>6, Zenon DEF SendsOut
  <2>2. OneCall' /\ stack'[Main] # <<>> /\ Top(Main)' = g /\ Expecting' = f.pending + 1
    <3>1. g.pending \in Int
      BY <1>1, <2>1
    <3> QED
      BY <1>b, <2>1, <3>1, Zenon
  <2>3. Len(input_queue') = Len(input_queue) + 1
    BY <1>0, <2>1, QueueAppend, Zenon
  <2>4. Busy' = Busy
    BY <2>1, SignalKeepsThreads, Zenon DEF NetInv, PoolInv
  <2>5. NeverFails' /\ ~should_exit' => InFlight' = Expecting'
    BY <1>0, <1>1, <1>3, <2>1, <2>2, <2>3, <2>4, FiniteThreads, SMTT(60) DEF InFlight
  <2>6. ~should_exit' => Len(input_queue') <= Cardinality(Woken')
    BY <1>3, <2>1, <2>3, SignalWakes, Zenon DEF NetInv
  <2>7. num_available' >= 0
    BY <1>0, <1>3, <2>1, SMTT(60)
  <2>8. ~(stack'[Main] # <<>> /\ Top(Main)'.at = "dispatch")
    BY <2>1, <2>2, SMTT(60)
  <2> QED
    BY <1>3, <2>1, <2>2, <2>5, <2>6, <2>7, <2>8, ZenonT(60) DEF FlatInv, Top
<1>7. CASE TakesBack(f)
  <2>1. PICK g : /\ stack' = [stack EXCEPT ![Main] = <<g>>]
                 /\ IsFrame(g) /\ g.pending = f.pending - 1 /\ g.at # "dispatch"
                 /\ output_queue # <<>> /\ output_queue' = Tail(output_queue)
                 /\ UNCHANGED <<input_queue, num_available, should_exit, worker, user>>
    BY <1>7, Zenon DEF TakesBack
  <2>2. OneCall' /\ stack'[Main] # <<>> /\ Top(Main)' = g /\ Expecting' = f.pending - 1
    <3>1. g.pending \in Int
      BY <1>1, <2>1
    <3> QED
      BY <1>b, <2>1, <3>1, Zenon
  <2>3. Len(output_queue') = Len(output_queue) - 1
    BY <1>0, <2>1, QueueTail, SMTT(60)
  <2>4. Woken' = Woken /\ Busy' = Busy
    BY <2>1, SMTT(60) DEF Woken, Busy
  <2>5. NeverFails' /\ ~should_exit' => InFlight' = Expecting'
    BY <1>0, <1>1, <1>3, <2>1, <2>2, <2>3, <2>4, FiniteThreads, SMTT(60) DEF InFlight
  <2>8. ~(stack'[Main] # <<>> /\ Top(Main)'.at = "dispatch")
    BY <2>1, <2>2, SMTT(60)
  <2> QED
    BY <1>0, <1>3, <2>1, <2>2, <2>4, <2>5, <2>8, ZenonT(60) DEF FlatInv, Top
<1>8. CASE Returns(f)
  <2>1. /\ stack' = [stack EXCEPT ![Main] = <<>>]
        /\ f.pending = 0 \/ ~NeverFails
        /\ UNCHANGED <<input_queue, output_queue, num_available, should_exit>>
        /\ Woken' = Woken /\ Busy' = Busy
    BY <1>8, SMTT(60) DEF Returns, pool, Woken, Busy
  <2>2. stack'[Main] = <<>> /\ OneCall' /\ Expecting' = 0
    BY <1>a, <2>1, Zenon DEF OneCall, Expecting
  <2>3. NeverFails' /\ ~should_exit' => InFlight' = Expecting'
    BY <1>0, <1>3, <2>1, <2>2, Zenon DEF InFlight
  <2> QED
    BY <1>0, <1>3, <2>1, <2>2, <2>3, Zenon DEF FlatInv
<1> QED
  BY <1>1, <1>4, <1>5, <1>6, <1>7, <1>8, FlatSteps, ZenonT(60)

(* Steps of a worker.                                                      *)
LEMMA FlatWorkerStep ==
  ASSUME NetInv, Flat, NEW t \in Threads, ThreadBody(t), [Next]_vars
  PROVE  FlatInv'
<1>0. /\ FlatInv /\ num_available \in Int
      /\ worker \in [Threads -> WorkerState]
      /\ NeverFails' <=> NeverFails
      /\ IsQueue(input_queue) /\ Len(input_queue) \in Nat
      /\ IsQueue(output_queue) /\ Len(output_queue) \in Nat
  BY DesignKept, QueueEmpty, Zenon DEF NetInv, PoolInv
<1>a. ASSUME UNCHANGED <<stack, user, should_exit>>,
             num_available' \in Int, num_available' >= num_available,
             ~should_exit => Len(input_queue') <= Cardinality(Woken'),
             NeverFails /\ ~should_exit => InFlight' = InFlight
      PROVE  FlatInv'
  BY <1>0, <1>a DEF FlatInv, OneCall, Top, Expecting
<1>1. ASSUME TakeEntry(t), worker[t] \in {"arriving", "woken"},
             num_available' \in Int, num_available' >= num_available
      PROVE  FlatInv'
  <2>1. UNCHANGED <<stack, user, should_exit, output_queue>>
    BY <1>1 DEF TakeEntry, caller
  <2>2. CASE should_exit
    BY <1>1, <1>a, <2>1, <2>2, Zenon
  <2>3. CASE ~should_exit
    <3>1. /\ Len(input_queue') <= Cardinality(Woken')
          /\ Len(input_queue') + Cardinality(Busy') = Len(input_queue) + Cardinality(Busy)
      BY <1>0, <1>1, <2>3, TakeEntryBalance, Zenon DEF NetInv, FlatInv
    <3>2. InFlight' = InFlight
      BY <2>1, <3>1, SMTT(60) DEF InFlight
    <3> QED
      BY <1>1, <1>a, <2>1, <3>1, <3>2, Zenon
  <2> QED
    BY <2>2, <2>3
<1>2. CASE Arrive(t)
  BY <1>0, <1>1, <1>2, SMTT(60) DEF Arrive
<1>3. CASE Wake(t)
  BY <1>0, <1>1, <1>3, SMTT(60) DEF Wake
<1>4. CASE InterpretEntry(t)
  <2>1. t \in Busy
    BY <1>4, Zenon DEF InterpretEntry, Busy
  <2>2. CASE Abort
    BY <1>0, <1>a, <2>2, SMTT(60) DEF Abort, pool, caller, FlatInv, InFlight, Woken, Busy
  <2>3. ASSUME NEW results, PushResults(t, results), UNCHANGED stack
        PROVE  FlatInv'
    <3>1. /\ worker' = [worker EXCEPT ![t] = "arriving"]
          /\ UNCHANGED <<stack, user, should_exit, input_queue, num_available>>
          /\ \E e : output_queue' = Append(output_queue, e)
      BY <2>3, SMTT(60) DEF PushResults, caller
    <3>2. Len(output_queue') = Len(output_queue) + 1
      BY <1>0, <3>1, QueueAppend, SMTT(60)
    <3>3. Busy' = Busy \ {t}
      BY <1>0, <3>1, ThreadSets, Zenon DEF WorkerState
    <3>4. Cardinality(Busy \ {t}) = Cardinality(Busy) - 1
      BY <2>1, FiniteThreads, FS_RemoveElement, Zenon
    <3>5. Woken' = Woken
      BY <1>0, <2>1, <3>1, SMTT(60) DEF Woken, Busy
    <3>6. InFlight' = InFlight
      <4>1. Cardinality(Busy') = Cardinality(Busy) - 1
        BY <3>3, <3>4
      <4>2. input_queue' = input_queue
        BY <3>1
      <4> QED
        BY <1>0, <3>2, <4>1, <4>2, FiniteThreads, SMTT(60) DEF InFlight
    <3> QED
      BY <1>0, <1>a, <3>1, <3>5, <3>6, SMTT(60) DEF FlatInv
  <2> QED
    BY <1>4, <2>2, <2>3, Zenon DEF InterpretEntry, Flat, IsModule
<1> QED
  BY <1>2, <1>3, <1>4, SMTT(60) DEF ThreadBody

(* Every step keeps the invariant.                                         *)
LEMMA NetStep ==
  ASSUME NetInv, [Next]_vars
  PROVE  NetInv'
<1>1. PoolInv' /\ IsQueue(output_queue')
  BY PoolStep, OutputQueueKept DEF NetInv
<1>2. ASSUME Flat PROVE FlatInv'
  <2>0. /\ FlatInv /\ num_available \in Int
        /\ worker \in [Threads -> WorkerState]
        /\ stack = [t \in Callers |-> stack[t]]
        /\ NeverFails' <=> NeverFails
        /\ should_exit \in BOOLEAN
    BY <1>2, DesignKept, SMTT(60) DEF NetInv, PoolInv
  <2>1. CASE UNCHANGED vars
    BY <2>0, <2>1, Zenon
       DEF vars, pool, caller, FlatInv, OneCall, Top, InFlight, Expecting,
                      Woken, Busy
  <2>2. ASSUME NEW t \in Callers, InterpretModule(t)
        PROVE  FlatInv'
    <3>1. t = Main
      BY <2>0, <2>2, ModuleSteps, ZenonT(60) DEF FlatInv, OneCall, Callers
    <3> QED
      BY <1>2, <2>2, <3>1, FlatModuleStep
  <2>3. ASSUME NEW t \in Threads, ThreadBody(t)
        PROVE  FlatInv'
    BY <1>2, <2>3, FlatWorkerStep, Zenon
  <2>4. CASE Call
    <3>a. PICK inputs : stack' = [stack EXCEPT ![Main] = <<Frame(0, design.top, inputs)>>]
      BY <2>4, Zenon DEF Call
    <3> DEFINE g == Frame(0, design.top, inputs)
    <3>b. IsFrame(g) /\ g.pending = 0 /\ g.at = "populate"
      BY FrameStart
    <3>c. stack' = [stack EXCEPT ![Main] = <<g>>]
      BY <3>a
    <3> HIDE DEF g
    <3>1. /\ stack' = [stack EXCEPT ![Main] = <<g>>]
          /\ IsFrame(g) /\ g.pending = 0 /\ g.at = "populate"
      BY <3>b, <3>c, Zenon
    <3>2. /\ stack[Main] = <<>> /\ user' # "idle"
          /\ UNCHANGED <<input_queue, output_queue, num_available, should_exit>>
          /\ Woken' = Woken /\ Busy' = Busy
      BY <2>0, <2>4, SMTT(60) DEF Call, pool, FlatInv, Woken, Busy
    <3>3. stack'[Main] = <<g>> /\ \A t \in Threads : stack'[t] = <<>>
      BY <2>0, <3>1, ThreadAssumption, SMTT(60) DEF FlatInv, OneCall, Callers
    <3>4. stack'[Main] # <<>> /\ Top(Main)' = g
      BY <3>3, SingleFrame, SMTT(60) DEF Top
    <3>5. OneCall' /\ Expecting' = 0 /\ Expecting = 0
      BY <3>1, <3>2, <3>3, <3>4, SMTT(60) DEF OneCall, Expecting
    <3>6. NeverFails' /\ ~should_exit' => InFlight' = Expecting'
      BY <2>0, <3>2, <3>5 DEF FlatInv, InFlight
    <3>7. ~(stack'[Main] # <<>> /\ Top(Main)'.at = "dispatch")
      BY <3>1, <3>4, SMTT(60)
    <3> QED
      BY <2>0, <3>2, <3>5, <3>6, <3>7, Zenon DEF FlatInv, Top
  <2>5. CASE Destroy
    <3>1. /\ UNCHANGED <<input_queue, output_queue, num_available, stack>>
          /\ user' # "idle"
          /\ should_exit => should_exit'
      BY <2>5, Zenon DEF Destroy
    <3>2. Busy' = Busy
      BY <2>0, <2>5 DEF Destroy, Busy, Waiting
    <3>3. Woken \in SUBSET Woken' /\ Woken' \in SUBSET Threads
      BY <2>0, <2>5, SMTT(60) DEF Destroy, Woken, Waiting
    <3>4. Cardinality(Woken) <= Cardinality(Woken') /\ Cardinality(Woken') \in Nat
      BY <3>3, FS_Subset, FS_CardinalityType, ThreadAssumption, SMTT(60)
    <3>5. Len(input_queue) \in Nat
      BY QueueEmpty, SMTT(60) DEF NetInv, PoolInv
    <3>6. ~should_exit' => Len(input_queue') <= Cardinality(Woken')
      BY <2>0, <3>1, <3>4, <3>5, FiniteThreads, SMTT(60) DEF FlatInv
    <3>7. NeverFails' /\ ~should_exit' => InFlight' = Expecting'
      BY <2>0, <3>1, <3>2, SMTT(60) DEF FlatInv, InFlight, Expecting, Top
    <3> QED
      BY <2>0, <3>1, <3>6, <3>7, Zenon DEF FlatInv, OneCall, Top
  <2>6. CASE Join
    BY <2>0, <2>6 DEF Join, pool, FlatInv, OneCall, Top, InFlight, Expecting, Woken, Busy
  <2> QED
    BY <2>1, <2>2, <2>3, <2>4, <2>5, <2>6, Zenon DEF Next
<1> QED
  BY <1>1, <1>2, DesignKept DEF NetInv

(* The invariant holds initially.                                          *)
LEMMA NetInit ==
  ASSUME Init
  PROVE  NetInv
<1>1. PoolInv
  BY PoolInit
<1>2. IsQueue(output_queue) /\ Len(output_queue) = 0 /\ Len(input_queue) = 0
  BY QueueEmpty DEF Init
<1>3. \A t \in Callers : stack[t] = <<>>
  BY DEF Init
<1>4. Busy = {}
  BY DEF Init, Busy
<1>5. InFlight = 0
  BY <1>2, <1>4, FS_EmptySet, SMTT(60) DEF InFlight
<1>6. stack[Main] = <<>> /\ OneCall /\ Expecting = 0
  BY <1>3 DEF Callers, OneCall, Expecting
<1>7. num_available >= 0
  BY DEF Init
<1>8. Len(input_queue) <= Cardinality(Woken)
  BY <1>2, FiniteThreads
<1>9. FlatInv
  BY <1>5, <1>6, <1>7, <1>8, SMTT(60) DEF FlatInv
<1> QED
  BY <1>1, <1>2, <1>9 DEF NetInv

(* The invariant holds in every state.                                     *)
LEMMA NetAlways == Spec => []NetInv
<1>1. Init => NetInv
  BY NetInit
<1>2. NetInv /\ [Next]_vars => NetInv'
  BY NetStep
<1> QED
  BY <1>1, <1>2, PTL DEF Spec

(* In a flat netlist a dispatched cell never waits for a busy thread, and  *)
(* its wake-up is not lost.                                                *)
THEOREM EntriesAlwaysHaveThreads == Spec => []EntriesHaveThreads
<1>1. NetInv => EntriesHaveThreads
  BY SMTT(60) DEF NetInv, FlatInv, EntriesHaveThreads
<1> QED
  BY <1>1, NetAlways, PTL

(* In a flat netlist whose evaluation functions do not fail, the owner     *)
(* expects exactly the cells that are queued, with a worker, or done.      *)
THEOREM PendingAlwaysAccounted == Spec => []PendingAccounted
<1>1. NetInv => PendingAccounted
  BY DEF NetInv, FlatInv, PendingAccounted, InFlight, Expecting
<1> QED
  BY <1>1, NetAlways, PTL
=============================================================================
