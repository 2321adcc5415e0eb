---------------------------- MODULE SmallNetworks ----------------------------
(* Small proc networks on which the runtimes of proc networks are checked. *)
EXTENDS Integers

CONSTANT none

MCValues == {0, 1}

Op(kind, ch, deps, when) == [kind |-> kind, ch |-> ch, deps |-> deps, when |-> when]

\* What is sent and the next state depend on the state and on what operation 1,
\* a receive in every proc below, returned.
MCSentValue(p, i, s, g) == IF g[1] = none THEN s ELSE (s + g[1]) % 2
MCNextState(p, s, g) == (s + 1) % 2
MCInitState == <<0, 1>>

\* A request and its answer: proc 1 polls a single-value channel and, in state 0,
\* passes its input to proc 2 and waits for the reply, so a Tick may leave it in
\* the middle of an iteration; it then looks for a hint, which proc 2 gives, with
\* an output, in every other iteration.  The first reply is there from the start.
LoopChannels == {"cfg", "in", "mid", "back", "hint", "out"}
LoopInputs == {"cfg", "in"}
LoopOutputs == {"out"}
LoopSingleValue == {"cfg"}
LoopInitialValues == [c \in LoopChannels |-> IF c = "back" THEN <<1>> ELSE <<>>]
LoopProgram ==
    << <<Op("nbrecv", "cfg", {}, {0, 1}), Op("recv", "in", {1}, {0}),
         Op("send", "mid", {1, 2}, {0}), Op("recv", "back", {3}, {0}),
         Op("nbrecv", "hint", {4}, {0, 1})>>,
       <<Op("recv", "mid", {}, {0, 1}), Op("send", "back", {1}, {0, 1}),
         Op("send", "hint", {1}, {1}), Op("send", "out", {1, 2}, {1})>> >>

\* A join: proc 1 has two receives that do not depend on each other, one fed from
\* outside and one, which starts with an initial value, by proc 2, and sends in
\* state 0 only; proc 2 receives in state 0 only, polls a single-value channel and
\* sends.
JoinChannels == {"cfg", "a", "b", "in", "out"}
JoinInputs == {"cfg", "a", "in"}
JoinOutputs == {"out"}
JoinSingleValue == {"cfg"}
JoinInitialValues == [c \in JoinChannels |-> IF c = "b" THEN <<1>> ELSE <<>>]
JoinProgram ==
    << <<Op("recv", "a", {}, {0, 1}), Op("recv", "b", {}, {0, 1}),
         Op("send", "out", {1, 2}, {0})>>,
       <<Op("recv", "in", {}, {0}), Op("nbrecv", "cfg", {1}, {0, 1}),
         Op("send", "b", {1, 2}, {0, 1})>> >>
=============================================================================
