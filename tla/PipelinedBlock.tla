--------------------------- MODULE PipelinedBlock ---------------------------
(***************************************************************************)
(* The hardware that block conversion makes of a proc: a pipeline with     *)
(* bubble flow control, one-shot logic on the outputs, and buffers on the  *)
(* ports (codegen/block_conversion.cc, ProcToPipelinedBlock), clocked by   *)
(* the loop of the block interpreter that feeds it from channel sources    *)
(* and drains it into channel sinks (interpreter/block_interpreter.cc).    *)
(*                                                                         *)
(* One step is one clock cycle.  Its inputs are a record p: the input      *)
(* ports that are valid, the output ports whose taker is ready, and reset. *)
(* Every combinational signal of the block is an operator of p and of the  *)
(* registers; the registers are the variables.                             *)
(*                                                                         *)
(* Data is abstracted to what tells items apart: the n-th item of an input *)
(* channel is the number n, zero is the zero value, and a send carries the *)
(* proc state and everything the iteration received.  Predicates and the   *)
(* next state depend on the proc state alone.                              *)
(***************************************************************************)
EXTENDS Integers, Sequences, FiniteSets, RdvBuffer

CONSTANTS
  Ins,        \* streaming channels the proc receives from
  Outs,       \* streaming channels the proc sends to
  Blocks,     \* the procs with their schedules and codegen options
  MaxItems,   \* bound on the items an input channel is offered
  MaxResets   \* bound on the resets

(***************************************************************************)
(* A block is described by its proc (init, next, and for every channel the *)
(* states in which its predicate holds), the pipeline stage of every send  *)
(* and receive, and the options.                                           *)
(***************************************************************************)
BlocksAssumption ==
  /\ MaxItems \in Nat /\ MaxResets \in Nat
  /\ \A k \in Blocks :
       /\ k.last_stage \in Nat
       /\ k.in_stage \in [Ins -> 0..k.last_stage]
       /\ k.out_stage \in [Outs -> 0..k.last_stage]
       /\ k.in_when \in [Ins -> SUBSET k.states]
       /\ k.out_when \in [Outs -> SUBSET k.states]
       /\ k.init \in k.states /\ k.next \in [k.states -> k.states]
       /\ k.flop_inputs_kind \in IOKind /\ k.flop_outputs_kind \in IOKind
       /\ k.reset_data_path \in BOOLEAN

ASSUME BlockDescriptions == BlocksAssumption

VARIABLES
  block,          \* the block; never changes
  state_reg,      \* the state register
  p_valid,        \* the valid register after each stage but the last
  p_data,         \* the data registers after each stage but the last
  has_been_sent,  \* the one-shot register of each output
  in_buf,         \* the buffer of each input port
  out_buf,        \* the buffer of each output port
  is_valid_,      \* the sources that hold an item until it is taken
  accepted,       \* how many items each input port has taken since reset
  sent,           \* the items each output port has handed over since reset
  waiting,        \* the item each output port showed to a taker not ready
  resets          \* how many times the block was reset

registers == <<state_reg, p_valid, p_data, has_been_sent, in_buf, out_buf>>
blockVars == <<block, registers, is_valid_, accepted, sent, waiting, resets>>

Stage == 0..block.last_stage
PipelineRegisters == 0..(block.last_stage - 1)
Nothing == [i \in Ins |-> 0]
ZeroPayload == [state |-> block.init, got |-> Nothing]

(***************************************************************************)
(* AreStreamingOutputsMutuallyExclusive: with at most one send, or when no *)
(* state sends on two channels.  One-shot logic is added otherwise.        *)
(***************************************************************************)
MutuallyExclusive ==
  \A s \in block.states :
    Cardinality({o \in Outs : s \in block.out_when[o]}) <= 1

----------------------------------------------------------------------------
(* Combinational signals of the input side.                                *)

(* A source that is stalling shows zero.                                   *)
PortData(i, p) == IF i \in p.valid THEN accepted[i] + 1 ELSE 0

InValid(i, p) == ToValid(block.flop_inputs_kind, in_buf[i], i \in p.valid)
InData(i, p) == ToData(block.flop_inputs_kind, in_buf[i], PortData(i, p))

StageValid(s) == s = 0 \/ p_valid[s - 1]

StageInput(s) == IF s = 0 THEN [state |-> state_reg, got |-> Nothing]
                          ELSE p_data[s - 1]

ReceivePredicate(i) == StageInput(block.in_stage[i]).state \in block.in_when[i]
SendPredicate(o) == StageInput(block.out_stage[o]).state \in block.out_when[o]

(* What stage s computes with: a receive yields the data port as it is,    *)
(* whatever its predicate says.                                            *)
StageData(s, p) ==
  [StageInput(s) EXCEPT
     !.got = [i \in Ins |-> IF block.in_stage[i] = s THEN InData(i, p)
                                                     ELSE @[i]]]

AllActiveInputsValid(s, p) ==
  \A i \in {j \in Ins : block.in_stage[j] = s} :
    ReceivePredicate(i) => InValid(i, p)

----------------------------------------------------------------------------
(* Combinational signals of the output side.  open is the next_stage_open  *)
(* signal of the output's stage.                                           *)

OutputValid(o, open, p) ==
  LET s == block.out_stage[o]
  IN  AllActiveInputsValid(s, p) /\ StageValid(s) /\ open /\ SendPredicate(o)

(* Without the one-shot clamp an output stays valid after its transfer.    *)
OneShotValidUnclamped(o, open, p) == OutputValid(o, open, p)

(* The valid signal after the one-shot logic.                              *)
OneShotValid(o, open, p) == OutputValid(o, open, p) /\ ~has_been_sent[o]

(* The ready signal that the one-shot logic sees.                          *)
BufferReady(o, open, p) ==
  FromReady(block.flop_outputs_kind, out_buf[o], OneShotValid(o, open, p),
            o \in p.ready)

AllActiveOutputsReady(s, open, p) ==
  \A o \in {q \in Outs : block.out_stage[q] = s} :
    SendPredicate(o) => BufferReady(o, open, p) \/ has_been_sent[o]

StageDone(s, open, p) ==
  StageValid(s) /\ AllActiveInputsValid(s, p)
                /\ AllActiveOutputsReady(s, open, p)

(* data_load_enable: unless the data path is reset, its registers are      *)
(* transparent during reset.                                               *)
DataLoadEnable(s, open, p) ==
  \/ open /\ StageDone(s, open, p)
  \/ s < block.last_stage /\ p.reset /\ ~block.reset_data_path

(* A stage that waits for the next one to load even when it is empty.      *)
NextStageLoads(p) ==
  LET enable[s \in Stage] ==
        s = block.last_stage \/ DataLoadEnable(s + 1, enable[s + 1], p)
  IN  enable

(* enable_n: the next stage is empty, or hands on what it holds.           *)
NextStageOpen(p) ==
  LET enable[s \in Stage] ==
        \/ s = block.last_stage
        \/ ~StageValid(s + 1)
        \/ DataLoadEnable(s + 1, enable[s + 1], p)
  IN  [s \in Stage |-> enable[s]]

(* The ready signal of an input port, before and after its buffer.         *)
PipelineReady(i, open, p) ==
  LET s == block.in_stage[i]
  IN  ReceivePredicate(i) /\ DataLoadEnable(s, open[s], p)

PortReady(i, open, p) ==
  FromReady(block.flop_inputs_kind, in_buf[i], i \in p.valid,
            PipelineReady(i, open, p))

(* The valid and data signals of an output port, after its buffer.         *)
PortValid(o, open, p) ==
  ToValid(block.flop_outputs_kind, out_buf[o],
          OneShotValid(o, open[block.out_stage[o]], p))

PortItem(o, p) ==
  ToData(block.flop_outputs_kind, out_buf[o],
         StageData(block.out_stage[o], p))

----------------------------------------------------------------------------
(* The registers after a clock edge, p.reset low.                          *)

ClockPipeline(open, p) ==
  /\ p_valid' = [s \in PipelineRegisters |->
                   IF open[s] THEN StageDone(s, open[s], p) ELSE p_valid[s]]
  /\ p_data' = [s \in PipelineRegisters |->
                  IF DataLoadEnable(s, open[s], p)
                  THEN StageData(s, p) ELSE p_data[s]]
  /\ state_reg' = IF open[0] /\ StageDone(0, open[0], p)
                  THEN block.next[state_reg] ELSE state_reg

(* has_been_sent is set by a transfer, and cleared when all the active     *)
(* outputs of the stage are ready or have been sent.                       *)
ClockOneShot(open, p) ==
  has_been_sent' =
    [o \in Outs |->
       LET s    == block.out_stage[o]
           load == AllActiveOutputsReady(s, open[s], p)
           txfr == OneShotValid(o, open[s], p) /\ BufferReady(o, open[s], p)
       IN  /\ ~MutuallyExclusive
           /\ IF txfr \/ load THEN ~load ELSE has_been_sent[o]]

ClockBuffers(open, p) ==
  /\ in_buf' = [i \in Ins |->
                  ClockBuffer(block.flop_inputs_kind, in_buf[i], i \in p.valid,
                              PortData(i, p), PipelineReady(i, open, p))]
  /\ out_buf' = [o \in Outs |->
                   LET s == block.out_stage[o]
                   IN  ClockBuffer(block.flop_outputs_kind, out_buf[o],
                                   OneShotValid(o, open[s], p),
                                   StageData(s, p), o \in p.ready)]

(* The registers after a clock edge, p.reset high.                         *)
ResetRegisters(open, p) ==
  /\ p_valid' = [s \in PipelineRegisters |-> FALSE]
  /\ p_data' = [s \in PipelineRegisters |->
                  IF block.reset_data_path THEN ZeroPayload
                                           ELSE StageData(s, p)]
  /\ state_reg' = block.init
  /\ has_been_sent' = [o \in Outs |-> FALSE]
  /\ in_buf' = [i \in Ins |-> ResetBuffer(0)]
  /\ out_buf' = [o \in Outs |-> ResetBuffer(ZeroPayload)]

----------------------------------------------------------------------------
(* The sources and sinks around the block.                                 *)

(* A source that withdraws an item that was not taken.                     *)
SourcesShowFreely(valid) == \A i \in valid : accepted[i] < MaxItems

(* A source that is holding an item keeps showing it; another may start.   *)
SourcesShow(valid) ==
  /\ is_valid_ \subseteq valid
  /\ \A i \in valid : accepted[i] < MaxItems

SourcesGetReady(open, p) ==
  is_valid_' = {i \in p.valid : ~PortReady(i, open, p)}

(* What sinks collect when both signals are high, and what they leave.     *)
SinksCollect(open, p) ==
  /\ sent' = [o \in Outs |->
                IF o \in p.ready /\ PortValid(o, open, p)
                THEN Append(sent[o], PortItem(o, p)) ELSE sent[o]]
  /\ waiting' = [o \in Outs |->
                   IF o \notin p.ready /\ PortValid(o, open, p)
                   THEN {PortItem(o, p)} ELSE {}]

(* One cycle of the clocked loop.                                          *)
Cycle(p) ==
  LET open == NextStageOpen(p)
  IN  /\ SourcesShow(p.valid)
      /\ SourcesGetReady(open, p)
      /\ IF p.reset
         THEN /\ ResetRegisters(open, p)
              /\ accepted' = [i \in Ins |-> 0]
              /\ sent' = [o \in Outs |-> <<>>]
              /\ waiting' = [o \in Outs |-> {}]
              /\ resets' = resets + 1
         ELSE /\ ClockPipeline(open, p)
              /\ ClockOneShot(open, p)
              /\ ClockBuffers(open, p)
              /\ SinksCollect(open, p)
              /\ accepted' =
                   [i \in Ins |-> IF i \in p.valid /\ PortReady(i, open, p)
                                  THEN accepted[i] + 1 ELSE accepted[i]]
              /\ resets' = resets
      /\ block' = block

BlockInit ==
  /\ block \in Blocks
  /\ state_reg = block.init
  /\ p_valid = [s \in PipelineRegisters |-> FALSE]
  /\ p_data = [s \in PipelineRegisters |-> ZeroPayload]
  /\ has_been_sent = [o \in Outs |-> FALSE]
  /\ in_buf = [i \in Ins |-> ResetBuffer(0)]
  /\ out_buf = [o \in Outs |-> ResetBuffer(ZeroPayload)]
  /\ is_valid_ = {}
  /\ accepted = [i \in Ins |-> 0]
  /\ sent = [o \in Outs |-> <<>>]
  /\ waiting = [o \in Outs |-> {}]
  /\ resets = 0

Run ==
  \E valid \in SUBSET Ins, ready \in SUBSET Outs :
    Cycle([valid |-> valid, ready |-> ready, reset |-> FALSE])

Reset ==
  /\ resets < MaxResets
  /\ \E valid \in SUBSET Ins, ready \in SUBSET Outs :
       Cycle([valid |-> valid, ready |-> ready, reset |-> TRUE])

BlockNext == Run \/ Reset

(* The clock keeps running, and every taker is ready again and again, but  *)
(* not two of them in the same cycle.                                      *)
RunReady(o) ==
  \E valid \in SUBSET Ins, ready \in SUBSET Outs :
    /\ o \in ready
    /\ Cycle([valid |-> valid, ready |-> ready, reset |-> FALSE])

BlockFairness == \A o \in Outs : WF_blockVars(RunReady(o))

BlockSpec == BlockInit /\ [][BlockNext]_blockVars /\ BlockFairness

----------------------------------------------------------------------------
(* What the proc does, iteration by iteration.                             *)

(* Every iteration receives on some channel.                               *)
MaxIterations == MaxItems * Cardinality(Ins)

StateAt ==
  LET at[n \in 1..MaxIterations] ==
        IF n = 1 THEN block.init ELSE block.next[at[n - 1]]
  IN  at

(* The receives on channel i in the first n iterations.                    *)
Receives(i, n) == Cardinality({m \in 1..n : StateAt[m] \in block.in_when[i]})

(* The receives scheduled no later than the send on channel o.             *)
Before(o) == {i \in Ins : block.in_stage[i] <= block.out_stage[o]}

(* What the receive on channel i may yield in iteration n: its item, or,   *)
(* when its predicate is false, what the data port or its buffer happens   *)
(* to show, which is zero, the item taken last or the one to come.         *)
Yields(i, n) ==
  IF StateAt[n] \in block.in_when[i] THEN {Receives(i, n)}
  ELSE {0, Receives(i, n), Receives(i, n) + 1}

(* The item v is the send of iteration n on channel o: it carries what the *)
(* iteration has received by then.                                         *)
IsSendOf(v, o, n) ==
  /\ v.state = StateAt[n]
  /\ \A i \in Ins : v.got[i] \in IF i \in Before(o) THEN Yields(i, n) ELSE {0}

(* How many iterations the block has taken the items of channels I for.    *)
Supplied(I) ==
  Cardinality({n \in 1..MaxIterations :
                 \A i \in I : Receives(i, n) <= accepted[i]})

(* Of the first n iterations, those that send on channel o.                *)
Sends(o, n) ==
  SelectSeq([m \in 1..n |-> m],
            LAMBDA m : StateAt[m] \in block.out_when[o])

(* While item v is shown on port o, its data from channel i may change:    *)
(* without a buffer on the output, the data of a receive of the same stage *)
(* whose predicate is false comes straight from the input.                 *)
Floats(o, i, v) ==
  /\ block.flop_outputs_kind = "none"
  /\ block.in_stage[i] = block.out_stage[o]
  /\ v.state \notin block.in_when[i]

(* Item w is item v, shown again on port o.                                *)
SameItem(o, v, w) ==
  /\ w.state = v.state
  /\ \A i \in Ins : w.got[i] = v.got[i] \/ Floats(o, i, v)

(* An idle port that forgets the buffers.                                  *)
IdleWithoutBuffers ==
  LET p == [valid |-> {}, ready |-> {}, reset |-> FALSE]
  IN  /\ \A s \in PipelineRegisters : ~p_valid[s]
      /\ \A o \in Outs : ~PortValid(o, NextStageOpen(p), p)

(* The idle port, in a cycle in which no source shows an item.             *)
Idle ==
  LET p == [valid |-> {}, ready |-> {}, reset |-> FALSE]
  IN  /\ \A s \in PipelineRegisters : ~p_valid[s]
      /\ block.flop_inputs_kind # "none" => \A i \in Ins : ~InValid(i, p)
      /\ \A o \in Outs : ~PortValid(o, NextStageOpen(p), p)

----------------------------------------------------------------------------
(* Properties.                                                             *)

(* Whatever the stalls on either side, each output port hands over one     *)
(* item for every send of the proc's iterations, in order, each once, and  *)
(* none before its inputs were taken; with it every item the iteration has *)
(* received, exactly.  For a receive whose predicate is false the language *)
(* asks for zero (docs_src/ir_semantics.md:444) and the block does not     *)
(* give it (block_conversion.cc:2193): it sends on what Yields says.       *)
ComputesProc ==
  \A o \in Outs :
    LET sends == Sends(o, Supplied(Before(o)))
    IN  /\ Len(sent[o]) <= Len(sends)
        /\ \A n \in 1..Len(sent[o]) : IsSendOf(sent[o][n], o, sends[n])

(* When no source shows an item and the block reports idle, nothing it has *)
(* taken is still inside: every send of a supplied iteration has been      *)
(* handed over.                                                            *)
IdleMeansDrained ==
  is_valid_ = {} /\ Idle =>
    /\ \A o \in Outs : Len(sent[o]) = Len(Sends(o, Supplied(Ins)))
    /\ \A i \in Ins : accepted[i] = Receives(i, Supplied(Ins))

(* An item shown to a taker that is not ready is shown again in the next   *)
(* cycle, whatever the sources begin to show and the other takers do,      *)
(* until it is taken.  It is shown unchanged if the output has a buffer;   *)
(* if not, unchanged but for the data of receives of the same stage whose  *)
(* predicates are false (block_conversion.cc:2193), which may change under *)
(* the eyes of the taker.                                                  *)
OutputsHeld ==
  [][\A o \in Outs : \A v \in waiting[o] :
       \/ resets' # resets
       \/ \E w \in waiting'[o] : SameItem(o, v, w)
       \/ /\ Len(sent'[o]) = Len(sent[o]) + 1
          /\ SameItem(o, v, sent'[o][Len(sent'[o])])]_blockVars

(* When every taker is ready again and again, even if never two together,  *)
(* and the items of the first n iterations have been taken, everything     *)
(* these iterations send is handed over.                                   *)
EverythingSent ==
  \A n \in 1..MaxItems :
    Supplied(Ins) >= n
      ~> \/ \A o \in Outs : Len(sent[o]) >= Len(Sends(o, n))
         \/ Supplied(Ins) < n
============================================================================
