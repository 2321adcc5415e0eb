------------------------ MODULE NetlistInterpreter ------------------------
(***************************************************************************)
(* The netlist interpreter.  InterpretModule evaluates the cells of a      *)
(* module as their input wires become known.  A cell whose inputs are      *)
(* complete goes to a pool of worker threads when a thread is available,   *)
(* and is interpreted by the calling thread otherwise.  A cell may be an   *)
(* instance of another module, which the thread that interprets it         *)
(* evaluates by calling InterpretModule in turn.  All calls share one      *)
(* queue of cells to interpret and one queue of results.                   *)
(*                                                                         *)
(* A design is a parsed netlist and the way it is used:                    *)
(*   cells    the cells of all modules in the order they are parsed, each  *)
(*            with the module it is in, the library cell or module it is   *)
(*            an instance of, the wires on its input and output pins, the  *)
(*            function of each output pin, and the arguments on which its  *)
(*            evaluation function returns an error;                        *)
(*   modules  the input wires, output wires and assigns of each module;    *)
(*   top, dump, pool, calls   the module to interpret, the cells to dump,  *)
(*            the worker threads, and how often the module is interpreted. *)
(* Wires are objects, so no two modules share one.                         *)
(*                                                                         *)
(* The two counters of the code are unsigned.  A negative value stands for *)
(* one that has wrapped around, which is greater than zero; the code's     *)
(* tests for a positive value are tests for a value other than 0 here.     *)
(***************************************************************************)
EXTENDS Integers, Sequences, FiniteSets, TLC, FiniteSetsExt

CONSTANTS
    Designs,        \* the netlists and their uses
    Threads,        \* worker threads
    Main,           \* the thread that owns the interpreter
    Zero, One       \* the constant wires

ASSUME ThreadAssumption == IsFiniteSet(Threads) /\ Main \notin Threads

VARIABLES
    design,          \* the netlist, the module and the number of threads
    input_queue,     \* cells to interpret, with the values of their inputs
    output_queue,    \* interpreted cells, with the values of their outputs
    num_available,   \* num_available_threads_
    should_exit,     \* threads_should_exit_
    worker,          \* where each worker is in ThreadBody
    entry,           \* the queue entry a worker has taken
    stack,           \* each thread's active calls of InterpretModule
    user,            \* what the owner of the interpreter is doing
    given,           \* the inputs of each call the owner has made
    returned,        \* what each of those calls returned
    aborted          \* a failed check or an invalid access ended the process

pool == <<input_queue, output_queue, num_available, should_exit, worker, entry>>
caller == <<user, given, returned>>
vars == <<design, pool, stack, caller, aborted>>

Callers == Threads \cup {Main}
NoValues == <<>>             \* an empty NetRef2Value
NoEntry == [cell |-> 0, wires |-> NoValues]
Error == [ok |-> FALSE, outputs |-> NoValues]

-----------------------------------------------------------------------------
(* The netlist. *)

Cell(c) == design.cells[c]
Module(m) == design.modules[m]

\* The cells that are instances of modules of the netlist.
Instances == {c \in DOMAIN design.cells : Cell(c).of \in DOMAIN design.modules}
IsModule(c) == c \in Instances

\* The cells of a module, in the order of its list.
CellsOf(m) ==
    SelectSeq([c \in DOMAIN design.cells |-> c], LAMBDA c : Cell(c).in = m)

\* Fault: a cell occurs once however many of its pins the wire is on.
ConnectedOnce(wire) ==
    SelectSeq([c \in DOMAIN design.cells |-> c], LAMBDA c : wire \in Range(Cell(c).ins))

\* connected_input_cells: a cell occurs once for each pin the wire is on.
Connected(wire) ==
    LET pins(c) == {p \in DOMAIN Cell(c).ins : Cell(c).ins[p] = wire}
        upto[c \in 0..Len(design.cells)] ==
            IF c = 0 THEN <<>>
            ELSE upto[c - 1] \o [pin \in 1..Cardinality(pins(c)) |-> c]
    IN  upto[Len(design.cells)]

\* The value of an output pin's function.
Gate(function, args) ==
    CASE function = "and" -> args[1] /\ args[2]
      [] function = "or"  -> args[1] \/ args[2]
      [] function = "xor" -> args[1] # args[2]
      [] function = "inv" -> ~args[1]
      [] function = "one" -> TRUE

Args(c, wires) == [p \in DOMAIN Cell(c).ins |-> wires[Cell(c).ins[p]]]
HasArgs(c, wires) == Range(Cell(c).ins) \subseteq DOMAIN wires

\* Whether an evaluation function returns an error.
Failures ==
    UNION {{c} \X Cell(c).fails : c \in DOMAIN design.cells}
Fails(c, wires) == <<c, Args(c, wires)>> \in Failures

\* What InterpretCell returns for a cell of the library.  Of two pins on one
\* wire the first is kept.
Results(c, wires) ==
    [wire \in Range(Cell(c).outs) |->
       LET pin == Min({p \in DOMAIN Cell(c).outs : Cell(c).outs[p] = wire})
       IN  Gate(Cell(c).functions[pin], Args(c, wires))]

\* The inputs of a child module, and the outputs of the cell it stands for.
ChildInputs(c, wires) ==
    LET ins == Module(Cell(c).of).ins
    IN  [wire \in Range(ins) |->
           wires[Cell(c).ins[CHOOSE p \in DOMAIN ins : ins[p] = wire]]]

ChildResults(c, outputs) ==
    LET outs == Module(Cell(c).of).outs
    IN  [wire \in Range(Cell(c).outs) |->
           outputs[outs[CHOOSE p \in DOMAIN outs : Cell(c).outs[p] = wire]]]

-----------------------------------------------------------------------------
(* The local state of a call of InterpretModule. *)

Frame(c, m, inputs) ==
    [cell    |-> c,              \* the cell it interprets; 0 for the owner
     module  |-> m,
     given   |-> inputs,
     dump    |-> IF c = 0 THEN design.dump ELSE {},
     at      |-> "populate",
     next    |-> 1,              \* the cell to populate next
     missing |-> NoValues,       \* processed_cells: missing_wires ...
     inputs  |-> NoValues,       \* ... and inputs
     active  |-> <<>>,           \* active_wires
     todo    |-> <<>>,           \* cells left on the wire being processed
     pending |-> 0,              \* num_pending_outputs
     outputs |-> NoValues]

Processed(f) == DOMAIN f.missing

\* The accesses of UpdateProcessedState are valid: every cell fed by a result
\* has been populated, and a cell to dump still has the inputs it had.
CanUpdate(f, c, results) ==
    /\ \A wire \in DOMAIN results : Range(Connected(wire)) \subseteq Processed(f)
    /\ c \in f.dump => c \in Processed(f) /\ HasArgs(c, f.inputs[c])

\* UpdateProcessedState.  The wires become active in the order of a hash table.
UpdateProcessedState(f, results, order) ==
    [f EXCEPT
       !.active = @ \o order,
       !.inputs = [d \in DOMAIN @ |->
                     @[d] @@ [wire \in {w \in DOMAIN results :
                                          d \in Range(Connected(w))} |->
                                results[wire]]],
       !.outputs = @ @@ [wire \in DOMAIN results \cap Range(Module(f.module).outs) |->
                           results[wire]]]

\* The frame when it has these cells left on the wire it is processing.
LeftOnWire(f, cells) ==
    [f EXCEPT !.todo = cells, !.at = IF cells = <<>> THEN "wires" ELSE "cells"]

\* The frame after the cell it was dealing with.
Advance(f) ==
    IF f.at = "populate" THEN [f EXCEPT !.next = @ + 1] ELSE LeftOnWire(f, Tail(f.todo))

-----------------------------------------------------------------------------
(* Steps of a thread. *)

Last(s) == s[Len(s)]
Front(s) == SubSeq(s, 1, Len(s) - 1)

\* The orders in which a hash map may be walked.
Orders(S) == {order \in [1..Cardinality(S) -> S] : IsInjective(order)}

Top(t) == Last(stack[t])
In(t, at) == ~aborted /\ stack[t] # <<>> /\ Top(t).at = at
SetTop(t, f) == stack' = [stack EXCEPT ![t] = Front(@) \o <<f>>]

Abort ==
    /\ aborted' = TRUE
    /\ UNCHANGED <<design, pool, stack, caller>>

\* A call that fails makes every call that waits for it fail.  The owner
\* returns the error; a worker may not fail.
ReturnError(t) ==
    IF t = Main
    THEN /\ stack' = [stack EXCEPT ![t] = <<>>]
         /\ user' = "idle"
         /\ returned' = Append(returned, Error)
         /\ UNCHANGED <<design, pool, given, aborted>>
    ELSE Abort

\* Takes the results of cell c into frame f, the top one of thread t once
\* the calls above it have returned.
Accept(t, below, f, c, results) ==
    IF CanUpdate(f, c, results)
    THEN /\ \E order \in Orders(DOMAIN results) :
              stack' = [stack EXCEPT ![t] =
                          below \o <<Advance(UpdateProcessedState(f, results, order))>>]
         /\ UNCHANGED <<design, pool, caller, aborted>>
    ELSE Abort

\* InterpretCell on the calling thread, from frame f.
InterpretCell(t, f, c, wires) ==
    \/ /\ ~HasArgs(c, wires)
       /\ Abort
    \/ /\ HasArgs(c, wires) /\ ~IsModule(c) /\ Fails(c, wires)
       /\ ReturnError(t)
    \/ /\ HasArgs(c, wires) /\ ~IsModule(c) /\ ~Fails(c, wires)
       /\ Accept(t, Front(stack[t]), f, c, Results(c, wires))
    \/ /\ HasArgs(c, wires) /\ IsModule(c)
       /\ stack' = [stack EXCEPT ![t] =
                      Front(@) \o <<f, Frame(c, Cell(c).of, ChildInputs(c, wires))>>]
       /\ UNCHANGED <<design, pool, caller, aborted>>

\* Populates the next cell; one without inputs is interpreted at once.
Populate(t) ==
    /\ In(t, "populate")
    /\ LET f == Top(t)
           cells == CellsOf(f.module)
           c == cells[f.next]
           populated == [f EXCEPT !.missing = @ @@ (c :> Len(Cell(c).ins)),
                                  !.inputs = @ @@ (c :> NoValues)]
       IN  /\ f.next <= Len(cells)
           /\ \/ /\ Cell(c).ins = <<>>
                 /\ InterpretCell(t, populated, c, NoValues)
              \/ /\ Cell(c).ins # <<>>
                 /\ SetTop(t, Advance(populated))
                 /\ UNCHANGED <<design, pool, caller, aborted>>

\* Once all cells are there, the inputs of the module become active.
SetInputs(t) ==
    /\ In(t, "populate")
    /\ LET f == Top(t)
       IN  /\ f.next > Len(CellsOf(f.module))
           /\ SetTop(t, [f EXCEPT
                !.at = "wires",
                !.active = @ \o Module(f.module).ins,
                !.inputs = [d \in DOMAIN @ |->
                              @[d] @@ [wire \in {w \in DOMAIN f.given :
                                                   d \in Range(Connected(w))} |->
                                         f.given[wire]]]])
    /\ UNCHANGED <<design, pool, caller, aborted>>

\* Takes the next active wire.
TakeWire(t) ==
    /\ In(t, "wires")
    /\ Top(t).active # <<>>
    /\ SetTop(t, LeftOnWire([Top(t) EXCEPT !.active = Tail(@)],
                            Connected(Head(Top(t).active))))
    /\ UNCHANGED <<design, pool, caller, aborted>>

\* Fault: a cell is dispatched whether or not a thread is available.
ProcessCellAlwaysDispatched(t) ==
    /\ In(t, "cells")
    /\ LET f == Top(t)
           c == Head(f.todo)
       IN  \/ /\ c \notin Processed(f) \/ f.missing[c] = 0
              /\ Abort
           \/ /\ c \in Processed(f) /\ f.missing[c] > 0
              /\ SetTop(t, IF f.missing[c] > 1
                           THEN Advance([f EXCEPT !.missing[c] = @ - 1])
                           ELSE [f EXCEPT !.missing[c] = 0, !.at = "dispatch"])
              /\ UNCHANGED <<design, pool, caller, aborted>>

\* Notes that one more input of a cell is known.  When none is missing the
\* cell is to be dispatched if a thread is available, which is read without
\* the lock, and is interpreted here otherwise.
ProcessCell(t) ==
    /\ In(t, "cells")
    /\ LET f == Top(t)
           c == Head(f.todo)
           satisfied == [f EXCEPT !.missing[c] = 0]
       IN  \/ /\ c \notin Processed(f) \/ f.missing[c] = 0
              /\ Abort
           \/ /\ c \in Processed(f) /\ f.missing[c] > 1
              /\ SetTop(t, Advance([f EXCEPT !.missing[c] = @ - 1]))
              /\ UNCHANGED <<design, pool, caller, aborted>>
           \/ /\ c \in Processed(f) /\ f.missing[c] = 1
              /\ num_available # 0
              /\ SetTop(t, [satisfied EXCEPT !.at = "dispatch"])
              /\ UNCHANGED <<design, pool, caller, aborted>>
           \/ /\ c \in Processed(f) /\ f.missing[c] = 1
              /\ num_available = 0
              /\ InterpretCell(t, satisfied, c, f.inputs[c])

Waiting == {t \in Threads : worker[t] = "waiting"}
Woken == {t \in Threads : worker[t] = "woken"}
Available == {t \in Threads : worker[t] \in {"waiting", "woken"}}
Busy == {t \in Threads : worker[t] = "busy"}

\* Signal wakes one of the threads that wait on the condition, if any does.
Signal ==
    \/ /\ Waiting = {}
       /\ UNCHANGED worker
    \/ \E t \in Waiting : worker' = [worker EXCEPT ![t] = "woken"]

\* Fault: num_pending_outputs is not incremented.
DispatchUncounted(t) ==
    /\ In(t, "dispatch")
    /\ LET f == Top(t)
           c == Head(f.todo)
       IN  /\ input_queue' = Append(input_queue, [cell |-> c, wires |-> f.inputs[c]])
           /\ SetTop(t, Advance([f EXCEPT !.inputs[c] = NoValues]))
    /\ Signal
    /\ num_available' = num_available - 1
    /\ UNCHANGED <<design, output_queue, should_exit, entry, caller, aborted>>

\* The critical section that hands a cell to the pool.
Dispatch(t) ==
    /\ In(t, "dispatch")
    /\ LET f == Top(t)
           c == Head(f.todo)
       IN  /\ input_queue' = Append(input_queue, [cell |-> c, wires |-> f.inputs[c]])
           /\ SetTop(t, Advance([f EXCEPT !.inputs[c] = NoValues,
                                          !.pending = @ + 1]))
    /\ Signal
    /\ num_available' = num_available - 1
    /\ UNCHANGED <<design, output_queue, should_exit, entry, caller, aborted>>

\* Waits for results, then takes them one by one while there are any; the
\* lock is released to take each.
Drain(t) ==
    /\ \/ In(t, "drain") \/ In(t, "more")
       \/ In(t, "wires") /\ Top(t).active = <<>> /\ Top(t).pending # 0
    /\ output_queue # <<>>
    /\ LET f == [Top(t) EXCEPT !.pending = @ - 1, !.at = "more"]
           result == Head(output_queue)
       IN  \/ /\ CanUpdate(f, result.cell, result.wires)
              /\ output_queue' = Tail(output_queue)
              /\ \E order \in Orders(DOMAIN result.wires) :
                   SetTop(t, UpdateProcessedState(f, result.wires, order))
              /\ UNCHANGED <<design, input_queue, num_available, should_exit,
                             worker, entry, caller, aborted>>
           \/ /\ ~CanUpdate(f, result.cell, result.wires)
              /\ Abort

\* Fault: it waits for more even when it has an active wire.
EndDrainWaits(t) ==
    /\ In(t, "more")
    /\ output_queue = <<>>
    /\ SetTop(t, [Top(t) EXCEPT !.at = "drain"])
    /\ UNCHANGED <<design, pool, caller, aborted>>

\* No result is left.  Without an active wire it waits for more.
EndDrain(t) ==
    /\ In(t, "more")
    /\ output_queue = <<>>
    /\ SetTop(t, [Top(t) EXCEPT !.at = IF Top(t).active = <<>> THEN "drain" ELSE "wires"])
    /\ UNCHANGED <<design, pool, caller, aborted>>

\* The wire at the end of a chain of assigns.
EndOfAssigns(m, wire) ==
    LET assigns == Module(m).assigns
        hop[n \in 0..Cardinality(DOMAIN assigns)] ==
            IF n = 0 THEN wire
            ELSE IF hop[n - 1] \in DOMAIN assigns THEN assigns[hop[n - 1]] ELSE hop[n - 1]
    IN  hop[Cardinality(DOMAIN assigns)]

\* A call cannot return outputs when a cell lacks an input or an output has
\* no value: it comes from no cell, and its assigns lead to no constant and no
\* input.
Unconnected(f) == \E c \in Processed(f) : f.missing[c] > 0

Undefined(f) ==
    \E wire \in Range(Module(f.module).outs) \ DOMAIN f.outputs :
      \/ wire \notin DOMAIN Module(f.module).assigns
      \/ EndOfAssigns(f.module, wire) \notin {Zero, One} \cup DOMAIN f.given

Outputs(f) ==
    f.outputs @@ [wire \in Range(Module(f.module).outs) \ DOMAIN f.outputs |->
                    LET end == EndOfAssigns(f.module, wire)
                    IN  CASE end = Zero -> FALSE
                          [] end = One -> TRUE
                          [] OTHER -> f.given[end]]

\* A worker queues what its cell evaluates to and looks for the next one.
PushResults(t, results) ==
    /\ output_queue' = Append(output_queue, [entry[t] EXCEPT !.wires = results])
    /\ worker' = [worker EXCEPT ![t] = "arriving"]
    /\ entry' = [entry EXCEPT ![t] = NoEntry]
    /\ UNCHANGED <<design, input_queue, num_available, should_exit, caller, aborted>>

\* InterpretModule returns, to the owner, to the call that interprets the
\* cell, or to the worker that does.
Return(t) ==
    /\ In(t, "wires")
    /\ Top(t).active = <<>> /\ Top(t).pending = 0
    /\ LET f == Top(t)
           depth == Len(stack[t])
       IN  \/ /\ Unconnected(f) \/ Undefined(f)
              /\ ReturnError(t)
           \/ /\ ~Unconnected(f) /\ ~Undefined(f)
              /\ depth > 1
              /\ Accept(t, SubSeq(stack[t], 1, depth - 2), stack[t][depth - 1],
                        f.cell, ChildResults(f.cell, Outputs(f)))
           \/ /\ ~Unconnected(f) /\ ~Undefined(f)
              /\ depth = 1 /\ t = Main
              /\ stack' = [stack EXCEPT ![t] = <<>>]
              /\ user' = "idle"
              /\ returned' = Append(returned, [ok |-> TRUE, outputs |-> Outputs(f)])
              /\ UNCHANGED <<design, pool, given, aborted>>
           \/ /\ ~Unconnected(f) /\ ~Undefined(f)
              /\ depth = 1 /\ t # Main
              /\ stack' = [stack EXCEPT ![t] = <<>>]
              /\ PushResults(t, ChildResults(f.cell, Outputs(f)))

InterpretModule(t) ==
    \/ Populate(t) \/ SetInputs(t) \/ TakeWire(t) \/ ProcessCell(t)
    \/ Dispatch(t) \/ Drain(t) \/ EndDrain(t) \/ Return(t)

-----------------------------------------------------------------------------
(* ThreadBody. *)

\* With the lock held: leave when told to, wait while there is nothing to do,
\* take a cell otherwise.
TakeEntry(t) ==
    /\ \/ /\ should_exit
          /\ worker' = [worker EXCEPT ![t] = "exited"]
          /\ UNCHANGED <<input_queue, entry>>
       \/ /\ ~should_exit /\ input_queue = <<>>
          /\ worker' = [worker EXCEPT ![t] = "waiting"]
          /\ UNCHANGED <<input_queue, entry>>
       \/ /\ ~should_exit /\ input_queue # <<>>
          /\ worker' = [worker EXCEPT ![t] = "busy"]
          /\ entry' = [entry EXCEPT ![t] = Head(input_queue)]
          /\ input_queue' = Tail(input_queue)
    /\ UNCHANGED <<design, output_queue, should_exit, stack, caller, aborted>>

\* A worker that wants work counts itself available, once.
Arrive(t) ==
    /\ ~aborted /\ worker[t] = "arriving"
    /\ num_available' = num_available + 1
    /\ TakeEntry(t)

\* Fault: a worker counts itself again when it is woken.
WakeCountedAgain(t) ==
    /\ ~aborted /\ worker[t] = "woken"
    /\ num_available' = num_available + 1
    /\ TakeEntry(t)

\* A worker that waited has been signalled.
Wake(t) ==
    /\ ~aborted /\ worker[t] = "woken"
    /\ UNCHANGED num_available
    /\ TakeEntry(t)

\* A worker interprets the cell it has taken.
InterpretEntry(t) ==
    /\ ~aborted /\ worker[t] = "busy" /\ stack[t] = <<>>
    /\ LET c == entry[t].cell
           wires == entry[t].wires
       IN  \/ /\ ~HasArgs(c, wires) \/ (~IsModule(c) /\ Fails(c, wires))
              /\ Abort
           \/ /\ HasArgs(c, wires) /\ ~IsModule(c) /\ ~Fails(c, wires)
              /\ PushResults(t, Results(c, wires))
              /\ UNCHANGED stack
           \/ /\ HasArgs(c, wires) /\ IsModule(c)
              /\ stack' = [stack EXCEPT ![t] =
                             <<Frame(c, Cell(c).of, ChildInputs(c, wires))>>]
              /\ UNCHANGED <<design, pool, caller, aborted>>

ThreadBody(t) == Arrive(t) \/ Wake(t) \/ InterpretEntry(t)

-----------------------------------------------------------------------------
(* The owner of the interpreter. *)

\* A call from outside, with a value for every input of the module.
Call ==
    /\ ~aborted /\ user = "idle" /\ Len(given) < design.calls
    /\ \E inputs \in [Range(Module(design.top).ins) -> BOOLEAN] :
         /\ given' = Append(given, inputs)
         /\ stack' = [stack EXCEPT ![Main] = <<Frame(0, design.top, inputs)>>]
    /\ user' = "calling"
    /\ UNCHANGED <<design, pool, returned, aborted>>

\* The destructor tells the threads to exit and wakes those that wait ...
Destroy ==
    /\ ~aborted /\ user = "idle"
    /\ user' = "joining"
    /\ should_exit' = (should_exit \/ design.pool # {})
    /\ worker' = [t \in Threads |-> IF t \in Waiting THEN "woken" ELSE worker[t]]
    /\ UNCHANGED <<design, input_queue, output_queue, num_available, entry, stack,
                   given, returned, aborted>>

\* ... and waits until all of them have.
Join ==
    /\ ~aborted /\ user = "joining"
    /\ \A t \in design.pool : worker[t] = "exited"
    /\ user' = "destroyed"
    /\ UNCHANGED <<design, pool, stack, given, returned, aborted>>

Init ==
    /\ design \in Designs
    /\ input_queue = <<>> /\ output_queue = <<>>
    /\ num_available = 0
    /\ should_exit = FALSE
    /\ worker = [t \in Threads |-> IF t \in design.pool THEN "arriving" ELSE "exited"]
    /\ entry = [t \in Threads |-> NoEntry]
    /\ stack = [t \in Callers |-> <<>>]
    /\ user = "idle"
    /\ given = <<>> /\ returned = <<>>
    /\ aborted = FALSE

Next ==
    \/ \E t \in Callers : InterpretModule(t)
    \/ \E t \in Threads : ThreadBody(t)
    \/ Call \/ Destroy \/ Join

\* Every thread keeps running, and gets the locks it asks for.  The owner
\* need not call again, nor destroy the interpreter.
Fairness ==
    /\ \A t \in Callers : WF_vars(InterpretModule(t))
    /\ \A t \in Threads : WF_vars(ThreadBody(t))
    /\ WF_vars(Join)

Spec == Init /\ [][Next]_vars /\ Fairness

-----------------------------------------------------------------------------
(* Properties. *)

\* The netlist has no instances of modules, so that only the owner calls
\* InterpretModule.
Flat == Instances = {}

\* No evaluation function returns an error.
NeverFails == Failures = {}

\* num_available_threads_ counts the threads blocked on the input queue that
\* no dispatched cell is meant for (interpreter.h:165-168), however the
\* unlocked test, the dispatch and the threads' arrivals interleave.
ThreadsAccountedFor ==
    ~should_exit =>
      num_available + Len(input_queue) = Cardinality(Available)

\* A cell in the input queue never waits for a thread that is busy, and no
\* wake-up is lost: for each such cell a thread has been woken and has not yet
\* looked at the queue.  (With several dispatching threads the unlocked test
\* of the counter may let two cells go to one thread.)
EntriesHaveThreads ==
    Flat /\ ~should_exit => Len(input_queue) <= Cardinality(Woken)

\* num_pending_outputs is exact: the cells a call has dispatched and not taken
\* back are those in the queues and those the workers have.  So a call that
\* returns leaves nothing behind for the next one to find.
PendingAccounted ==
    Flat /\ NeverFails /\ ~should_exit =>
      Len(input_queue) + Cardinality(Busy) + Len(output_queue)
        = IF stack[Main] = <<>> THEN 0 ELSE Top(Main).pending
=============================================================================
