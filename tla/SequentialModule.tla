-------------------------- MODULE SequentialModule --------------------------
(***************************************************************************)
(* The hardware SequentialModuleBuilder (xls/codegen/sequential_generator) *)
(* makes of a counted for loop: one copy of the loop body, reused for      *)
(* every iteration, under a state machine with a ready/valid interface.    *)
(* The module is a function from its registers and its inputs in one clock *)
(* cycle to its registers in the next.                                     *)
(*                                                                         *)
(* A loop d is a record: trip_count and stride of the CountedFor, latency  *)
(* of the pipeline its body was scheduled into.  Body(index, accumulator)  *)
(* is the body's function; loop invariants are part of it, since their     *)
(* registers load together with the accumulator.                           *)
(***************************************************************************)
EXTENDS Integers, Sequences

CONSTANT Body(_, _)

\* Bits::MinBitCountUnsigned: the number of bits that hold value.
MinBitCountUnsigned(value) ==
    CHOOSE b \in 0..value : value < 2^b /\ \A c \in 0..b - 1 : 2^c <= value

----------------------------------------------------------------------------
(***************************************************************************)
(* The index counter.  holds_max_inclusive_value compares it with the      *)
(* largest multiple of the stride below the limit.                         *)
(***************************************************************************)
max_inclusive_value(d) ==
    LET limit == d.stride * d.trip_count - 1 IN limit - (limit % d.stride)

num_counter_bits(d) == MinBitCountUnsigned(max_inclusive_value(d))

----------------------------------------------------------------------------
(***************************************************************************)
(* Registers and wires.  pipe holds what entered the pipeline of the body  *)
(* in each of the last latency cycles, most recent first.                  *)
(***************************************************************************)
\* Power-on: the state is Null and is left only by a reset.
SequentialInit(d) ==
    [state |-> "Null", index |-> 0, pipeline_counter |-> 0, accumulator |-> 0,
     pipe |-> [i \in 1..d.latency |-> <<0, 0>>]]

ready_in(m)  == m.state = "Ready"
valid_out(m) == m.state = "Done"

last_pipeline_cycle(d, m) ==
    m.state = "Running" /\ (d.latency = 0 \/ m.pipeline_counter = 0)

pipeline_output(d, m) ==
    LET in == IF d.latency = 0 THEN <<m.index, m.accumulator>>
              ELSE m.pipe[d.latency]
    IN  Body(in[1], in[2])

----------------------------------------------------------------------------
(***************************************************************************)
(* One clock cycle.  A reset sets the state and holds the pipeline         *)
(* counter; the data registers and the pipeline do not see it.             *)
(***************************************************************************)
StateNext(d, m, valid_in, ready_out) ==
    CASE m.state = "Ready" /\ valid_in                      -> "Running"
      [] /\ m.state = "Running" /\ last_pipeline_cycle(d, m)
         /\ m.index = max_inclusive_value(d)                -> "Done"
      [] m.state = "Done" /\ ready_out                      -> "Ready"
      [] OTHER                                              -> m.state

\* The down counter of the body's pipeline runs freely unless it is set.
PipelineCounterNext(d, m, rst_n) ==
    IF d.latency = 0 \/ ~rst_n THEN m.pipeline_counter
    ELSE IF m.state = "Ready" \/ last_pipeline_cycle(d, m) THEN d.latency
    ELSE (m.pipeline_counter - 1) % 2^MinBitCountUnsigned(d.latency)

IndexNext(d, m) ==
    IF ready_in(m) THEN 0
    ELSE IF last_pipeline_cycle(d, m)
    THEN (m.index + d.stride) % 2^num_counter_bits(d)
    ELSE m.index

SequentialNext(d, m, rst_n, valid_in, data_in, ready_out) ==
    [state |-> IF rst_n THEN StateNext(d, m, valid_in, ready_out) ELSE "Ready",
     index |-> IndexNext(d, m),
     pipeline_counter |-> PipelineCounterNext(d, m, rst_n),
     accumulator |-> IF ready_in(m) THEN data_in
                     ELSE IF last_pipeline_cycle(d, m) THEN pipeline_output(d, m)
                     ELSE m.accumulator,
     pipe |-> [i \in 1..d.latency |->
                 IF i = 1 THEN <<m.index, m.accumulator>> ELSE m.pipe[i - 1]]]

----------------------------------------------------------------------------
(***************************************************************************)
(* What the loop computes: the body applied trip_count times, to the       *)
(* indices 0, stride, 2 * stride, ...                                      *)
(***************************************************************************)
LoopResult(d, init) ==
    LET after[n \in 0..d.trip_count] ==
            IF n = 0 THEN init ELSE Body((n - 1) * d.stride, after[n - 1])
    IN  after[d.trip_count]
=============================================================================
