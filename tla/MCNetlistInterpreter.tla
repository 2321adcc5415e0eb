----------------------- MODULE MCNetlistInterpreter -----------------------
(***************************************************************************)
(* Small netlists for NetlistInterpreter, what a call is to return for     *)
(* them, and the properties that say so.                                   *)
(***************************************************************************)
EXTENDS NetlistInterpreter

CONSTANTS w1, w2

C(in, of, functions, ins, outs) ==
    [in |-> in, of |-> of, functions |-> functions, ins |-> ins, outs |-> outs,
     fails |-> {}]
FailsOn(cell, args) == [cell EXCEPT !.fails = {args}]
M(ins, outs, assigns) == [ins |-> ins, outs |-> outs, assigns |-> assigns]
D(cells, modules, dump, threads, calls) ==
    [cells |-> cells, modules |-> modules, top |-> "main", dump |-> dump,
     pool |-> threads, calls |-> calls]

AB(outs) == "main" :> M(<<"a", "b">>, outs, <<>>)

\* Two cells side by side, one of them with one wire on both pins, and a cell
\* with two outputs, one of which is not connected.
Adder ==
    <<C("main", "AND", <<"and">>, <<"a", "b">>, <<"x">>),
      C("main", "XOR", <<"xor">>, <<"a", "a">>, <<"y">>),
      C("main", "HA", <<"xor", "and">>, <<"x", "y">>, <<"o", "unused">>)>>

\* An output that feeds a cell, and outputs that are assigned.
Assigned ==
    D(<<C("main", "INV", <<"inv">>, <<"a">>, <<"o">>),
        C("main", "OR", <<"or">>, <<"o", "b">>, <<"p">>)>>,
      "main" :> M(<<"a", "b">>, <<"o", "p", "q", "r", "s">>,
                  [q |-> "q1", q1 |-> "a", r |-> One, s |-> Zero]), {}, {w1}, 2)

\* A cell without inputs, listed after and before the cell it feeds.
ConstantLast ==
    <<C("main", "XOR", <<"xor">>, <<"a", "k">>, <<"o">>),
      C("main", "LOGIC_ONE", <<"one">>, <<>>, <<"k">>)>>
ConstantFirst ==
    <<C("main", "LOGIC_ONE", <<"one">>, <<>>, <<"k">>),
      C("main", "XOR", <<"xor">>, <<"a", "k">>, <<"o">>)>>

\* A cell that waits for a constant wire, and an output that is assigned from
\* a wire that is no input.
Unconnectable ==
    <<C("main", "AND", <<"and">>, <<"a", "b">>, <<"x">>),
      C("main", "OR", <<"or">>, <<"x", One>>, <<"o">>)>>
UndefinedOutput ==
    "main" :> M(<<"a", "b">>, <<"o", "q">>, [q |-> "x"])

\* A module of two cells, used twice.
Nested ==
    <<C("child", "AND", <<"and">>, <<"i", "j">>, <<"u">>),
      C("child", "INV", <<"inv">>, <<"u">>, <<"v">>),
      C("main", "child", <<>>, <<"a", "b">>, <<"x">>),
      C("main", "child", <<>>, <<"b", "a">>, <<"y">>),
      C("main", "XOR", <<"xor">>, <<"x", "y">>, <<"o">>)>>
\* The same module, used once: no other cell is with the workers when it is
\* interpreted.
NestedOnce ==
    <<Nested[1], Nested[2], Nested[3],
      C("main", "XOR", <<"xor">>, <<"x", "a">>, <<"o">>)>>
NestedModules == AB(<<"o">>) @@ ("child" :> M(<<"i", "j">>, <<"v">>, <<>>))

\* A module without inputs that is used as a constant, and fails to be one in
\* the design that gives it an evaluation function with an error.
Tied(tie) ==
    <<[tie EXCEPT !.in = "tie"],
      C("main", "AND", <<"and">>, <<"a", "x">>, <<"o">>),
      C("main", "tie", <<>>, <<>>, <<"x">>)>>
TiedModules == AB(<<"o">>) @@ ("tie" :> M(<<>>, <<"z">>, <<>>))
Tie == C("tie", "LOGIC_ONE", <<"one">>, <<>>, <<"z">>)

\* An evaluation function that returns an error when both inputs hold.
Failing ==
    <<C("main", "XOR", <<"xor">>, <<"a", "b">>, <<"x">>),
      FailsOn(C("main", "AND", <<"and">>, <<"a", "b">>, <<"y">>), <<TRUE, TRUE>>),
      C("main", "OR", <<"or">>, <<"x", "y">>, <<"o">>)>>

\* Cells that are all satisfied by one wire, more than there are threads.
Wide ==
    <<C("main", "XOR", <<"xor">>, <<"a", "b">>, <<"o">>),
      C("main", "AND", <<"and">>, <<"a", "b">>, <<"p">>),
      C("main", "OR", <<"or">>, <<"a", "b">>, <<"q">>),
      C("main", "INV", <<"inv">>, <<"b">>, <<"r">>)>>

MCDesigns ==
    {D(Adder, AB(<<"o">>), {}, {w1, w2}, 2), Assigned,
     D(Wide, AB(<<"o", "p", "q", "r">>), {}, {w1, w2}, 1),
     D(ConstantLast, AB(<<"o">>), {}, {w1}, 1),
     D(ConstantFirst, AB(<<"o">>), {}, {w1}, 1),
     D(Unconnectable, AB(<<"o">>), {}, {w1}, 2),
     D(Adder, UndefinedOutput, {}, {w1}, 1),
     D(Nested, NestedModules, {}, {}, 1), D(NestedOnce, NestedModules, {}, {w1}, 2),
     D(Tied(Tie), TiedModules, {}, {}, 1),
     D(Tied(FailsOn(Tie, <<>>)), TiedModules, {}, {w1}, 1),
     D(Failing, AB(<<"o">>), {}, {}, 2), D(Failing, AB(<<"o">>), {}, {w1}, 1),
     D(Adder, AB(<<"o">>), {1, 3}, {}, 1), D(Adder, AB(<<"o">>), {1, 3}, {w1}, 1)}

\* Uses that MCDesigns keeps clear of: a module whose cells are interpreted
\* while the calling module's are; a cell without outputs; and a call made
\* after one that failed.
MCNested == {D(Nested, NestedModules, {}, {w1}, 1)}
MCSink ==
    {D(<<C("main", "AND", <<"and">>, <<"a", "b">>, <<"o">>),
         C("main", "DIODE", <<>>, <<"o">>, <<>>)>>, AB(<<"o">>), {}, {w1}, 1)}
MCAfterFailure == {D(Failing, AB(<<"o">>), {}, {w1}, 2)}

-----------------------------------------------------------------------------
(* What the netlist means: the values of its wires are the least that the   *)
(* module inputs and the cells determine.                                    *)

RECURSIVE Expected(_, _)
Expected(m, inputs) ==
    LET RECURSIVE Settle(_, _)
        Settle(known, left) ==
            LET ready == {c \in left : Range(Cell(c).ins) \subseteq DOMAIN known}
                c == CHOOSE d \in ready : TRUE
                child == Expected(Cell(c).of, ChildInputs(c, known))
            IN  IF left = {} THEN [ok |-> TRUE, outputs |-> known]
                ELSE IF ready = {} THEN Error
                ELSE IF ~IsModule(c)
                THEN IF Fails(c, known) THEN Error
                     ELSE Settle(known @@ Results(c, known), left \ {c})
                ELSE IF ~child.ok THEN Error
                ELSE Settle(known @@ ChildResults(c, child.outputs), left \ {c})
        settled == Settle(inputs, {c \in DOMAIN design.cells : Cell(c).in = m})
        driven == UNION {Range(Cell(c).outs) : c \in DOMAIN design.cells}
        Value(wire) ==
            IF wire \in driven THEN settled.outputs[wire]
            ELSE LET end == EndOfAssigns(m, wire)
                 IN  IF end \in {Zero, One} THEN end = One ELSE inputs[end]
        HasValue(wire) ==
            wire \in driven \/ EndOfAssigns(m, wire) \in {Zero, One} \cup DOMAIN inputs
        outs == Range(Module(m).outs)
    IN  IF settled.ok /\ \A wire \in outs : HasValue(wire)
        THEN [ok |-> TRUE, outputs |-> [wire \in outs |-> Value(wire)]]
        ELSE Error

\* The evaluation function of a cell that a worker has fails: ThreadBody's status
\* is checked (interpreter.h:59).
WorkerFails ==
    \E t \in Busy : ~IsModule(entry[t].cell) /\ Fails(entry[t].cell, entry[t].wires)

\* The crash of a cell without inputs that is listed before a cell it feeds: it is
\* processed at once, as interpreter.h:255 says it should be, when the other cell
\* has no entry yet (interpreter.h:197).
ConstantBeforeUser ==
    \E c, d \in DOMAIN design.cells :
      /\ c < d /\ Cell(c).in = Cell(d).in /\ Cell(c).ins = <<>>
      /\ Range(Cell(c).outs) \cap Range(Cell(d).ins) # {}

\* The crash of dumping a cell, as interpreter.h:84-85 says can be asked for, when
\* a worker has interpreted it: its inputs were moved into the queue
\* (interpreter.h:331) and are looked up again with its result (interpreter.h:215).
DumpedByWorker ==
    output_queue # <<>> /\ Head(output_queue).cell \in design.dump

\* Every call returns what the netlist means for its inputs, and an error when
\* it means nothing: the cells are evaluated in whatever order their inputs
\* arrive, here or on a worker, each with all of its inputs.  The process ends
\* early in three situations and no other: where the code checks the status of a
\* worker, and in two crashes that are flaws of the code.  A netlist that has a
\* constant cell before its user gets no result at all.
ResultsCorrect ==
    /\ \A i \in DOMAIN returned : returned[i] = Expected(design.top, given[i])
    /\ aborted => WorkerFails \/ ConstantBeforeUser \/ DumpedByWorker
    /\ ConstantBeforeUser => returned = <<>>

\* A call takes back the results of the cells it dispatched, which activate
\* the wires it expects, and no others.
ResultsToTheirCalls ==
    [][\A t \in Callers :
         Drain(t) => Cell(Head(output_queue).cell).in = Top(t).module]_vars

\* A call returns, since the owner never waits for a result that no thread will
\* queue and no worker sleeps while a cell waits for it; and the destructor
\* returns, wherever the threads are when it begins.
CallsReturn ==
    /\ user = "calling" ~> (user = "idle" \/ aborted)
    /\ user = "joining" ~> (user = "destroyed" \/ aborted)
=============================================================================
