---------------------------- MODULE ChannelProofs ----------------------------
(***************************************************************************)
(* Theorems about what carries data from a sender to a receiver:           *)
(*  - the buffers that code generation puts at the ports of a block        *)
(*    (RdvBuffer), for every kind of buffer and every type of data;        *)
(*  - the pipeline of a block (PipelinedBlock), for every proc, schedule   *)
(*    and choice of buffers;                                               *)
(*  - the queue of the JIT (FifoJitChannelQueue), for every element size,  *)
(*    buffer size, set of values and bound, with one sending thread;       *)
(*  - the I/O wrapper around a device function (IoSystem), for every       *)
(*    width, latency, baud rate, device function, host and bound.          *)
(***************************************************************************)
EXTENDS PipelinedBlock, FifoJitChannelQueue, IoSystem, SequenceTheorems, TLAPS

------------------------------------------------------------------------------
(* The port buffers *)

(* The registers of a buffer keep their type and, for the kind of the      *)
(* buffer, their shape: what the clock edge does to the registers in       *)
(* AddRegisterToRDVNodes, AddSkidBufferToRDVNodes and                      *)
(* AddZeroLatencyBufferToRDVNodes.                                         *)
THEOREM ClockKeepsShape ==
  ASSUME NEW Data, NEW kind \in IOKind, NEW b \in Buffer(Data),
         WellFormed(kind, b), NEW from_valid \in BOOLEAN,
         NEW from_data \in Data, NEW to_is_ready \in BOOLEAN
  PROVE  LET next == ClockBuffer(kind, b, from_valid, from_data, to_is_ready)
         IN  next \in Buffer(Data) /\ WellFormed(kind, next)
<1>1. CASE kind = "none"
  BY <1>1 DEF ClockBuffer
<1>2. CASE kind = "flop"
  BY <1>2, Zenon DEF ClockBuffer, ClockFlop, Buffer, WellFormed
<1>3. CASE kind = "skid"
  BY <1>3, ZenonT(60) DEF ClockBuffer, ClockSkidBuffer, ClockSkidRegister, SkidLoad,
              Buffer, WellFormed
<1>4. CASE kind = "zero_latency"
  BY <1>4, Zenon DEF ClockBuffer, ClockSkidRegister, SkidLoad, Buffer, WellFormed
<1> QED
  BY <1>1, <1>2, <1>3, <1>4 DEF IOKind

(* Sequences of at most two items, which is all a buffer ever holds.       *)
LEMMA ShortSequences ==
  ASSUME NEW Data, NEW x \in Data, NEW y \in Data
  PROVE  /\ <<>> \o <<>> = <<>>
         /\ <<>> \o <<x>> = <<x>> /\ <<x>> \o <<>> = <<x>>
         /\ <<x>> \o <<y>> = <<x, y>> /\ <<x, y>> \o <<>> = <<x, y>>
         /\ <<x>> # <<>> /\ <<x, y>> # <<>>
         /\ Head(<<x>>) = x /\ Tail(<<x>>) = <<>>
         /\ Head(<<x, y>>) = x /\ Tail(<<x, y>>) = <<y>>
<1>1. <<>> \o <<>> = <<>>
  OBVIOUS
<1>2. <<>> \o <<x>> = <<x>>
  OBVIOUS
<1>2a. <<x>> \o <<>> = <<x>>
  OBVIOUS
<1>3. <<x>> \o <<y>> = <<x, y>>
  <2> DEFINE joined == <<x>> \o <<y>>
             pair   == <<x, y>>
  <2>1. <<x>> \in Seq(Data) /\ <<y>> \in Seq(Data) /\ pair \in Seq(Data)
    OBVIOUS
  <2>2. /\ joined \in Seq(Data) /\ Len(joined) = 2
        /\ joined[1] = x /\ joined[2] = y
    BY <2>1, ConcatProperties
  <2>3. Len(pair) = 2 /\ pair[1] = x /\ pair[2] = y
    OBVIOUS
  <2> HIDE DEF joined, pair
  <2>4. \A n \in 1..Len(joined) : joined[n] = pair[n]
    BY <2>2, <2>3
  <2>5. joined = pair
    BY <2>1, <2>2, <2>3, <2>4, SeqEqual
  <2> QED
    BY <2>5 DEF joined, pair
<1>4. <<x, y>> \o <<>> = <<x, y>>
  OBVIOUS
<1>5. <<x>> # <<>> /\ <<x, y>> # <<>>
  OBVIOUS
<1>6. Head(<<x>>) = x /\ Head(<<x, y>>) = x
  OBVIOUS
<1>7. Tail(<<x>>) = <<>>
  OBVIOUS
<1>8. Tail(<<x, y>>) = <<y>>
  OBVIOUS
<1> QED
  BY <1>1, <1>2, <1>2a, <1>3, <1>4, <1>5, <1>6, <1>7, <1>8

(* Whatever the two sides do in a cycle, every kind of buffer takes part   *)
(* in it as a queue: nothing is lost, repeated or reordered, including in  *)
(* the cycles in which the taker stalls and the skid register is filled.   *)
THEOREM BuffersAreQueues ==
  ASSUME NEW Data, NEW kind \in IOKind, NEW b \in Buffer(Data),
         WellFormed(kind, b), NEW from_valid \in BOOLEAN,
         NEW from_data \in Data, NEW to_is_ready \in BOOLEAN
  PROVE  CycleIsQueueStep(kind, b, from_valid, from_data, to_is_ready)
<1>b. /\ b.valid \in BOOLEAN /\ b.skid_valid \in BOOLEAN
      /\ b.data \in Data /\ b.skid \in Data
  BY DEF Buffer
<1>s. /\ <<b.skid>> \o <<b.data>> = <<b.skid, b.data>>
      /\ <<b.skid, b.data>> \o <<>> = <<b.skid, b.data>>
      /\ <<b.data>> \o <<from_data>> = <<b.data, from_data>>
      /\ <<b.skid>> \o <<>> = <<b.skid>> /\ <<b.data>> \o <<>> = <<b.data>>
      /\ <<>> \o <<b.data>> = <<b.data>>
      /\ <<>> \o <<from_data>> = <<from_data>> /\ <<>> \o <<>> = <<>>
      /\ Tail(<<b.skid, b.data>>) = <<b.data>>
      /\ Tail(<<b.data, from_data>>) = <<from_data>>
      /\ Tail(<<b.skid>>) = <<>> /\ Tail(<<b.data>>) = <<>>
      /\ Tail(<<from_data>>) = <<>>
      /\ Head(<<b.skid, b.data>>) = b.skid
      /\ Head(<<b.data, from_data>>) = b.data
      /\ Head(<<b.skid>>) = b.skid /\ Head(<<b.data>>) = b.data
      /\ Head(<<from_data>>) = from_data
      /\ <<b.skid, b.data>> # <<>> /\ <<b.data, from_data>> # <<>>
      /\ <<b.skid>> # <<>> /\ <<b.data>> # <<>> /\ <<from_data>> # <<>>
  BY <1>b, ShortSequences
<1>1. CASE kind = "none"
  <2>1. /\ ToValid(kind, b, from_valid) = from_valid
        /\ ToData(kind, b, from_data) = from_data
        /\ FromReady(kind, b, from_valid, to_is_ready) = to_is_ready
        /\ ClockBuffer(kind, b, from_valid, from_data, to_is_ready) = b
    BY <1>1, Zenon DEF ToValid, ToData, FromReady, ClockBuffer
  <2>2. Items(b) = <<>>
    BY <1>1, <1>s, <1>b DEF Items, WellFormed
  <2> QED
    BY <2>1, <2>2, <1>b, <1>s DEF CycleIsQueueStep
<1>2. CASE kind = "flop"
  <2> DEFINE next == ClockFlop(b, from_valid, from_data, to_is_ready)
  <2>1. /\ ToValid(kind, b, from_valid) = b.valid
        /\ ToData(kind, b, from_data) = b.data
        /\ FromReady(kind, b, from_valid, to_is_ready)
             = (from_valid /\ (to_is_ready \/ ~b.valid))
        /\ ClockBuffer(kind, b, from_valid, from_data, to_is_ready) = next
    BY <1>2, Zenon DEF ToValid, ToData, FromReady, ClockBuffer
  <2>2. /\ next.valid = IF to_is_ready \/ ~b.valid THEN from_valid ELSE b.valid
        /\ next.data = IF from_valid /\ (to_is_ready \/ ~b.valid)
                       THEN from_data ELSE b.data
        /\ next.skid_valid = FALSE /\ b.skid_valid = FALSE
    BY <1>2, <1>b DEF ClockFlop, Buffer, WellFormed
  <2> HIDE DEF next
  <2>3. Items(b) = IF b.valid THEN <<b.data>> ELSE <<>>
    BY <2>2, <1>b, <1>s, Zenon DEF Items
  <2>4. Items(next) = IF next.valid THEN <<next.data>> ELSE <<>>
    BY <2>2, <1>b, <1>s, Zenon DEF Items
  <2>5. CASE b.valid /\ to_is_ready /\ from_valid
    BY <2>1, <2>2, <2>3, <2>4, <2>5, <1>b, <1>s, ZenonT(60) DEF CycleIsQueueStep
  <2>6. CASE b.valid /\ to_is_ready /\ ~from_valid
    BY <2>1, <2>2, <2>3, <2>4, <2>6, <1>b, <1>s, SMTT(60) DEF CycleIsQueueStep
  <2>7. CASE b.valid /\ ~to_is_ready
    BY <2>1, <2>2, <2>3, <2>4, <2>7, <1>b, <1>s, SMTT(60) DEF CycleIsQueueStep
  <2>8. CASE ~b.valid /\ from_valid
    BY <2>1, <2>2, <2>3, <2>4, <2>8, <1>b, <1>s, ZenonT(60) DEF CycleIsQueueStep
  <2>9. CASE ~b.valid /\ ~from_valid
    BY <2>1, <2>2, <2>3, <2>4, <2>9, <1>b, <1>s, SMTT(60) DEF CycleIsQueueStep
  <2> QED
    BY <2>5, <2>6, <2>7, <2>8, <2>9, <1>b, SMTT(60)
<1>3. CASE kind = "skid"
  <2> DEFINE next == ClockSkidBuffer(b, from_valid, from_data, to_is_ready)
             input_read == from_valid /\ ~b.skid_valid
             load == b.valid /\ input_read /\ ~to_is_ready
  <2>1. /\ ToValid(kind, b, from_valid) = (b.valid \/ b.skid_valid)
        /\ ToData(kind, b, from_data)
             = IF b.skid_valid THEN b.skid ELSE b.data
        /\ FromReady(kind, b, from_valid, to_is_ready) = ~b.skid_valid
        /\ ClockBuffer(kind, b, from_valid, from_data, to_is_ready) = next
    BY <1>3, Zenon DEF ToValid, ToData, FromReady, ClockBuffer
  <2>2. /\ next.valid = IF (b.valid /\ to_is_ready /\ ~b.skid_valid)
                             \/ input_read
                        THEN from_valid ELSE b.valid
        /\ next.data = IF input_read THEN from_data ELSE b.data
        /\ next.skid_valid = IF load \/ (b.skid_valid /\ to_is_ready)
                             THEN ~b.skid_valid ELSE b.skid_valid
        /\ next.skid = IF load THEN b.data ELSE b.skid
        /\ b.skid_valid => b.valid
    BY <1>3, <1>b DEF ClockSkidBuffer, ClockSkidRegister, SkidLoad, Buffer,
                      WellFormed
  <2> HIDE DEF next
  <2>3. Items(b) = IF b.skid_valid THEN <<b.skid, b.data>>
                      ELSE IF b.valid THEN <<b.data>> ELSE <<>>
    BY <2>2, <1>b, <1>s, Zenon DEF Items
  <2>4. Items(next) = IF next.skid_valid THEN <<next.skid, next.data>>
                         ELSE IF next.valid THEN <<next.data>> ELSE <<>>
    BY <2>2, <1>b, <1>s, Zenon DEF Items
  <2>5. CASE b.skid_valid /\ to_is_ready
    BY <2>1, <2>2, <2>3, <2>4, <2>5, <1>b, <1>s, ZenonT(60) DEF CycleIsQueueStep
  <2>6. CASE b.skid_valid /\ ~to_is_ready
    BY <2>1, <2>2, <2>3, <2>4, <2>6, <1>b, <1>s DEF CycleIsQueueStep
  <2>7. CASE ~b.skid_valid /\ b.valid /\ to_is_ready /\ from_valid
    BY <2>1, <2>2, <2>3, <2>4, <2>7, <1>b, <1>s, ZenonT(60) DEF CycleIsQueueStep
  <2>8. CASE ~b.skid_valid /\ b.valid /\ to_is_ready /\ ~from_valid
    BY <2>1, <2>2, <2>3, <2>4, <2>8, <1>b, <1>s, ZenonT(60) DEF CycleIsQueueStep
  <2>9. CASE ~b.skid_valid /\ b.valid /\ ~to_is_ready /\ from_valid
    BY <2>1, <2>2, <2>3, <2>4, <2>9, <1>b, <1>s, ZenonT(60) DEF CycleIsQueueStep
  <2>10. CASE ~b.skid_valid /\ b.valid /\ ~to_is_ready /\ ~from_valid
    BY <2>1, <2>2, <2>3, <2>4, <2>10, <1>b, <1>s, SMTT(60) DEF CycleIsQueueStep
  <2>11. CASE ~b.skid_valid /\ ~b.valid /\ from_valid
    BY <2>1, <2>2, <2>3, <2>4, <2>11, <1>b, <1>s, ZenonT(60) DEF CycleIsQueueStep
  <2>12. CASE ~b.skid_valid /\ ~b.valid /\ ~from_valid
    BY <2>1, <2>2, <2>3, <2>4, <2>12, <1>b, <1>s, SMTT(60) DEF CycleIsQueueStep
  <2> QED
    BY <2>5, <2>6, <2>7, <2>8, <2>9, <2>10, <2>11, <2>12, <1>b, SMTT(60)
<1>4. CASE kind = "zero_latency"
  <2> DEFINE next == ClockSkidRegister(kind, b, from_valid, from_data, to_is_ready)
             load == from_valid /\ ~b.skid_valid /\ ~to_is_ready
  <2>1. /\ ToValid(kind, b, from_valid) = (from_valid \/ b.skid_valid)
        /\ ToData(kind, b, from_data)
             = IF b.skid_valid THEN b.skid ELSE from_data
        /\ FromReady(kind, b, from_valid, to_is_ready) = ~b.skid_valid
        /\ ClockBuffer(kind, b, from_valid, from_data, to_is_ready) = next
    BY <1>4, Zenon DEF ToValid, ToData, FromReady, ClockBuffer
  <2>2. /\ next.skid_valid = IF load \/ (b.skid_valid /\ to_is_ready)
                             THEN ~b.skid_valid ELSE b.skid_valid
        /\ next.skid = IF load THEN from_data ELSE b.skid
        /\ next.valid = FALSE /\ b.valid = FALSE
    BY <1>4, <1>b DEF ClockSkidRegister, SkidLoad, Buffer, WellFormed
  <2> HIDE DEF next
  <2>3. Items(b) = IF b.skid_valid THEN <<b.skid>> ELSE <<>>
    BY <2>2, <1>b, <1>s, Zenon DEF Items
  <2>4. Items(next) = IF next.skid_valid THEN <<next.skid>> ELSE <<>>
    <3>1. next.skid \in Data
      BY <2>2, <1>b
    <3>2. <<next.skid>> \o <<>> = <<next.skid>>
      BY <3>1, ShortSequences
    <3> QED
      BY <2>2, <3>2, <1>s, Zenon DEF Items
  <2>5. CASE b.skid_valid /\ to_is_ready
    BY <2>1, <2>2, <2>3, <2>4, <2>5, <1>b, <1>s, ZenonT(60) DEF CycleIsQueueStep
  <2>6. CASE b.skid_valid /\ ~to_is_ready
    BY <2>1, <2>2, <2>3, <2>4, <2>6, <1>b, <1>s, SMTT(60) DEF CycleIsQueueStep
  <2>7. CASE ~b.skid_valid /\ from_valid /\ to_is_ready
    BY <2>1, <2>2, <2>3, <2>4, <2>7, <1>b, <1>s, SMTT(60) DEF CycleIsQueueStep
  <2>8. CASE ~b.skid_valid /\ from_valid /\ ~to_is_ready
    BY <2>1, <2>2, <2>3, <2>4, <2>8, <1>b, <1>s, SMTT(60) DEF CycleIsQueueStep
  <2>9. CASE ~b.skid_valid /\ ~from_valid
    BY <2>1, <2>2, <2>3, <2>4, <2>9, <1>b, <1>s, SMTT(60) DEF CycleIsQueueStep
  <2> QED
    BY <2>5, <2>6, <2>7, <2>8, <2>9, <1>b
<1> QED
  BY <1>1, <1>2, <1>3, <1>4 DEF IOKind

------------------------------------------------------------------------------
(* The pipeline of a block *)

(* A buffer shows an item, whatever is offered to it.                      *)
Shows(kind, b, item) ==
  /\ \A from_valid \in BOOLEAN : ToValid(kind, b, from_valid)
  /\ \A from_data : ToData(kind, b, from_data) = item

(* After a clock cycle in which the taker is not ready a buffer shows it   *)
(* the same item.                                                          *)
LEMMA BufferHolds ==
  ASSUME NEW Data, NEW kind \in IOKind, kind # "none", NEW b \in Buffer(Data),
         NEW from_valid \in BOOLEAN, NEW from_data \in Data,
         ToValid(kind, b, from_valid)
  PROVE  Shows(kind, ClockBuffer(kind, b, from_valid, from_data, FALSE),
               ToData(kind, b, from_data))
<1> SUFFICES ASSUME NEW next, next = ClockBuffer(kind, b, from_valid, from_data,
                    FALSE),
                    NEW next_valid \in BOOLEAN, NEW next_data
             PROVE  /\ ToValid(kind, next, next_valid)
                    /\ ToData(kind, next, next_data)
                         = ToData(kind, b, from_data)
  BY Zenon DEF Shows
<1>b. /\ b.valid \in BOOLEAN /\ b.skid_valid \in BOOLEAN
      /\ b = [valid |-> b.valid, data |-> b.data, skid_valid |-> b.skid_valid,
              skid |-> b.skid]
  BY DEF Buffer
<1>1. CASE kind = "flop"
  <2>1. next = ClockFlop(b, from_valid, from_data, FALSE) /\ b.valid
    BY <1>1, Zenon DEF ClockBuffer, ToValid
  <2>2. next.valid /\ next.data = b.data
    BY <2>1, <1>b, Zenon DEF ClockFlop
  <2> QED
    BY <1>1, <2>2, Zenon DEF ToValid, ToData
<1>2. CASE kind = "skid"
  <2>1. next = ClockSkidBuffer(b, from_valid, from_data, FALSE)
    BY <1>2, Zenon DEF ClockBuffer
  <2>2. b.valid \/ b.skid_valid
    BY <1>2, Zenon DEF ToValid
  <2>3. /\ next.valid \/ next.skid_valid
        /\ (IF next.skid_valid THEN next.skid ELSE next.data)
             = (IF b.skid_valid THEN b.skid ELSE b.data)
    BY <2>1, <2>2, <1>b, ZenonT(60)
       DEF ClockSkidBuffer, ClockSkidRegister, SkidLoad
  <2> QED
    BY <1>2, <2>3, Zenon DEF ToValid, ToData
<1>3. CASE kind = "zero_latency"
  <2>1. next = ClockSkidRegister(kind, b, from_valid, from_data, FALSE)
    BY <1>3, Zenon DEF ClockBuffer
  <2>2. from_valid \/ b.skid_valid
    BY <1>3, Zenon DEF ToValid
  <2>3. /\ next.skid_valid
        /\ next.skid = (IF b.skid_valid THEN b.skid ELSE from_data)
    BY <1>3, <2>1, <2>2, <1>b, ZenonT(60) DEF ClockSkidRegister, SkidLoad
  <2> QED
    BY <1>3, <2>3, Zenon DEF ToValid, ToData
<1> QED
  BY <1>1, <1>2, <1>3, Zenon DEF IOKind

(* The signals of a buffer and its registers keep their types.             *)
LEMMA BufferTypes ==
  ASSUME NEW Data, NEW kind \in IOKind, NEW b \in Buffer(Data),
         NEW from_valid \in BOOLEAN, NEW from_data \in Data, NEW to_is_ready \in BOOLEAN
  PROVE  /\ ToValid(kind, b, from_valid) \in BOOLEAN
         /\ ToData(kind, b, from_data) \in Data
         /\ FromReady(kind, b, from_valid, to_is_ready) \in BOOLEAN
         /\ ClockBuffer(kind, b, from_valid, from_data, to_is_ready)
              \in Buffer(Data)
<1>b. /\ b.valid \in BOOLEAN /\ b.skid_valid \in BOOLEAN /\ b.data \in Data
      /\ b.skid \in Data
  BY DEF Buffer
<1>1. CASE kind = "none"
  BY <1>1, Zenon DEF ToValid, ToData, FromReady, ClockBuffer
<1>2. CASE kind = "flop"
  <2>1. ClockFlop(b, from_valid, from_data, to_is_ready) \in Buffer(Data)
    BY Zenon DEF ClockFlop, Buffer
  <2> QED
    BY <1>2, <1>b, <2>1, Zenon
       DEF ToValid, ToData, FromReady, ClockBuffer
<1>3. CASE kind = "skid"
  <2>1. ClockSkidBuffer(b, from_valid, from_data, to_is_ready) \in Buffer(Data)
    BY ZenonT(60)
       DEF ClockSkidBuffer, ClockSkidRegister, SkidLoad, Buffer
  <2> QED
    BY <1>3, <1>b, <2>1, Zenon
       DEF ToValid, ToData, FromReady, ClockBuffer
<1>4. CASE kind = "zero_latency"
  <2>1. ClockSkidRegister(kind, b, from_valid, from_data, to_is_ready)
             \in Buffer(Data)
    BY ZenonT(60) DEF ClockSkidRegister, SkidLoad, Buffer
  <2> QED
    BY <1>4, <1>b, <2>1, Zenon
       DEF ToValid, ToData, FromReady, ClockBuffer
<1> QED
  BY <1>1, <1>2, <1>3, <1>4 DEF IOKind

(* The inputs of a cycle, and the items that move through the pipeline.    *)
Inputs == [valid : SUBSET Ins, ready : SUBSET Outs, reset : BOOLEAN]
Payload == [state : block.states, got : [Ins -> Nat]]

(* What the registers, the sources and the sinks hold.                     *)
BlockTypeOK ==
  /\ block \in Blocks
  /\ state_reg \in block.states
  /\ p_valid \in [PipelineRegisters -> BOOLEAN]
  /\ p_data \in [PipelineRegisters -> Payload]
  /\ has_been_sent \in [Outs -> BOOLEAN]
  /\ in_buf \in [Ins -> Buffer(Nat)]
  /\ out_buf \in [Outs -> Buffer(Payload)]
  /\ is_valid_ \in SUBSET Ins
  /\ accepted \in [Ins -> Nat]
  /\ sent \in [Outs -> Seq(Payload)]
  /\ waiting \in [Outs -> SUBSET Payload]
  /\ resets \in Nat

(* The signals of the output side only change with the registers: the      *)
(* signal that runs back through the pipeline,                             *)
LEMMA OpenUnchanged ==
  ASSUME NEW r, block' = block, UNCHANGED registers
  PROVE  NextStageOpen(r)' = NextStageOpen(r)
<1>1. /\ state_reg' = state_reg /\ p_valid' = p_valid /\ p_data' = p_data
      /\ has_been_sent' = has_been_sent /\ in_buf' = in_buf /\ out_buf' = out_buf
  BY Zenon DEF registers
<1> QED
  BY <1>1
     DEF NextStageOpen, StageValid, DataLoadEnable, StageDone,
     AllActiveOutputsReady, AllActiveInputsValid, BufferReady,
     OneShotValid, OutputValid, SendPredicate, ReceivePredicate,
     StageInput, InValid, Stage, Nothing

(* and what a port shows.                                                  *)
LEMMA PortUnchanged ==
  ASSUME NEW o, NEW r, block' = block, UNCHANGED registers, accepted' = accepted
  PROVE  /\ PortValid(o, NextStageOpen(r), r)'
              <=> PortValid(o, NextStageOpen(r), r)
         /\ PortItem(o, r)' = PortItem(o, r)
<1>1. /\ state_reg' = state_reg /\ p_valid' = p_valid /\ p_data' = p_data
      /\ has_been_sent' = has_been_sent /\ in_buf' = in_buf /\ out_buf' = out_buf
  BY Zenon DEF registers
<1>2. PICK open : open = NextStageOpen(r)[block.out_stage[o]]
  OBVIOUS
<1>3. NextStageOpen(r)'[block'.out_stage[o]] = open
  BY <1>2, OpenUnchanged, Zenon
<1>4. OneShotValid(o, open, r)' = OneShotValid(o, open, r)
  BY <1>1 DEF OneShotValid, OutputValid, AllActiveInputsValid,
     SendPredicate, ReceivePredicate, StageInput, StageValid,
     InValid, Nothing
<1>5. PortValid(o, NextStageOpen(r), r)
        = ToValid(block.flop_outputs_kind, out_buf[o], OneShotValid(o, open, r))
  BY <1>2, Zenon DEF PortValid
<1>6. PortValid(o, NextStageOpen(r), r)'
        = ToValid(block'.flop_outputs_kind, out_buf'[o], OneShotValid(o, open, r)')
  BY <1>3, Zenon DEF PortValid
<1>7. PortItem(o, r)' = PortItem(o, r)
  BY <1>1 DEF PortItem, StageInput, StageData, InData,
     PortData, Nothing
<1> QED
  BY <1>1, <1>4, <1>5, <1>6, <1>7, Zenon

(* What the description of a block says of the block that is clocked.      *)
LEMMA BlockFacts ==
  ASSUME BlocksAssumption, block \in Blocks
  PROVE  /\ block.last_stage \in Nat
         /\ \A i \in Ins : block.in_stage[i] \in Stage
         /\ \A o \in Outs : block.out_stage[o] \in Stage
         /\ block.init \in block.states
         /\ \A s \in block.states : block.next[s] \in block.states
         /\ block.flop_inputs_kind \in IOKind
         /\ block.flop_outputs_kind \in IOKind
         /\ block.reset_data_path \in BOOLEAN
  BY Zenon DEF BlocksAssumption, Stage

(* What a stage starts from and what it computes.                          *)
LEMMA StageFacts ==
  ASSUME BlocksAssumption, BlockTypeOK, NEW p \in Inputs, NEW s \in Stage
  PROVE  /\ StageInput(s) \in Payload
         /\ StageValid(s) \in BOOLEAN
         /\ \A i \in Ins : PortData(i, p) \in Nat /\ InData(i, p) \in Nat
                           /\ InValid(i, p) \in BOOLEAN
         /\ StageData(s, p) \in Payload
         /\ StageData(s, p).state = StageInput(s).state
         /\ \A i \in Ins : StageData(s, p).got[i]
                = IF block.in_stage[i] = s THEN InData(i, p)
                  ELSE StageInput(s).got[i]
<1>1. block.last_stage \in Nat /\ block.flop_inputs_kind \in IOKind
  BY BlockFacts DEF BlockTypeOK
<1>2. s # 0 => s - 1 \in PipelineRegisters
  BY <1>1 DEF Stage, PipelineRegisters
<1>3. StageInput(s) \in Payload
  <2>1. CASE s = 0
    <3>1. Nothing \in [Ins -> Nat]
      BY DEF Nothing
    <3> QED
      BY <2>1, <3>1 DEF StageInput, Payload, BlockTypeOK
  <2>2. CASE s # 0
    BY <2>2, <1>2 DEF StageInput, BlockTypeOK
  <2> QED
    BY <2>1, <2>2
<1>4. StageValid(s) \in BOOLEAN
  BY <1>2 DEF StageValid, BlockTypeOK
<1>5. ASSUME NEW i \in Ins
      PROVE  /\ PortData(i, p) \in Nat /\ InData(i, p) \in Nat
             /\ InValid(i, p) \in BOOLEAN
  <2>1. PortData(i, p) \in Nat
    BY DEF PortData, BlockTypeOK
  <2>2. in_buf[i] \in Buffer(Nat) /\ (i \in p.valid) \in BOOLEAN
    BY DEF BlockTypeOK
  <2> QED
    BY <1>1, <2>1, <2>2, BufferTypes, ZenonT(60) DEF InData, InValid
<1> DEFINE g == [i \in Ins |-> IF block.in_stage[i] = s THEN InData(i, p)
                               ELSE StageInput(s).got[i]]
<1>6. g \in [Ins -> Nat]
  BY <1>3, <1>5 DEF Payload
<1>7. StageData(s, p) = [StageInput(s) EXCEPT !.got = g]
  BY Zenon DEF StageData
<1>8. StageData(s, p) = [state |-> StageInput(s).state, got |-> g]
  <2> HIDE DEF g
  <2> QED
    BY <1>3, <1>7 DEF Payload
<1> HIDE DEF g
<1>9. /\ StageData(s, p) \in Payload
      /\ StageData(s, p).state = StageInput(s).state
      /\ StageData(s, p).got = g
  BY <1>3, <1>6, <1>8 DEF Payload
<1>10. \A i \in Ins : g[i] = IF block.in_stage[i] = s THEN InData(i, p)
                             ELSE StageInput(s).got[i]
  BY DEF g
<1> QED
  BY <1>3, <1>4, <1>5, <1>9, <1>10, ZenonT(60)

(* e is what the enable signals of stages 0 to N have to be: a stage is    *)
(* open if it is by itself, or by the next stage's enable signal.          *)
Solves(e, N, base, done, clear) ==
  \A s \in 0..N :
     e[s] <=> \/ base[s]
              \/ s # N /\ IF e[s + 1] THEN done[s + 1] ELSE clear[s + 1]

(* The combinational signals that run back through the pipeline are well   *)
(* defined: a stage may hand on what it holds if from it to the end, or to *)
(* an empty stage, each may.                                               *)
LEMMA OpenSolution ==
  ASSUME NEW N \in Nat, NEW base \in [0..N -> BOOLEAN], NEW done \in [0..N -> BOOLEAN],
         NEW clear \in [0..N -> BOOLEAN], base[N], \A s \in 0..N : clear[s] => done[s]
  PROVE  \E e \in [0..N -> BOOLEAN] : Solves(e, N, base, done, clear)
<1> DEFINE good(s, k) == /\ base[k] \/ (k # N /\ clear[k + 1])
                         /\ \A j \in s + 1..k : done[j]
           e == [s \in 0..N |-> \E k \in s..N : good(s, k)]
<1>1. e \in [0..N -> BOOLEAN]
  OBVIOUS
<1>2. ASSUME NEW s \in 0..N
      PROVE  e[s] <=> \/ base[s]
                      \/ s # N /\ IF e[s + 1] THEN done[s + 1] ELSE clear[s + 1]
  <2>1. e[s] <=> \E k \in s..N : good(s, k)
    OBVIOUS
  <2>2. good(s, s) <=> base[s] \/ (s # N /\ clear[s + 1])
    OBVIOUS
  <2>3. CASE s = N
    BY <2>1, <2>2, <2>3
  <2>4. CASE s # N
    <3>1. s + 1 \in 0..N
      BY <2>4
    <3>2. e[s + 1] <=> \E k \in s + 1..N : good(s + 1, k)
      BY <3>1
    <3>3. \A k \in s + 1..N : good(s, k) <=> good(s + 1, k) /\ done[s + 1]
      <4> SUFFICES ASSUME NEW k \in s + 1..N
                   PROVE (\A j \in s + 1..k : done[j])
                           <=> (\A j \in s + 1 + 1..k : done[j]) /\ done[s + 1]
        BY Zenon
      <4> QED
        OBVIOUS
    <3> HIDE DEF good
    <3>4. (\E k \in s..N : good(s, k)) <=> good(s, s) \/ \E k \in s + 1..N : good(s, k)
      OBVIOUS
    <3>5. (\E k \in s + 1..N : good(s, k)) <=> e[s + 1] /\ done[s + 1]
      BY <3>2, <3>3, Zenon
    <3>6. e[s] <=> base[s] \/ clear[s + 1] \/ (e[s + 1] /\ done[s + 1])
      BY <2>1, <2>2, <2>4, <3>4, <3>5, Zenon
    <3>7. clear[s + 1] => done[s + 1]
      BY <3>1
    <3> HIDE DEF e
    <3> QED
      BY <3>6, <3>7, <2>4
  <2> QED
    BY <2>3, <2>4
<1> HIDE DEF e
<1> QED
  BY <1>1, <1>2, Zenon DEF Solves

(* So the enable signals are what their definition says.                   *)
LEMMA OpenFacts ==
  ASSUME BlocksAssumption, BlockTypeOK, NEW p \in Inputs
  PROVE  /\ NextStageOpen(p) \in [Stage -> BOOLEAN]
         /\ \A s \in Stage : NextStageOpen(p)[s] <=>
              \/ s = block.last_stage
              \/ ~StageValid(s + 1)
              \/ DataLoadEnable(s + 1, NextStageOpen(p)[s + 1], p)
<1> DEFINE N == block.last_stage
           base == [s \in 0..N |-> s = N \/ ~StageValid(s + 1)]
           done == [s \in 0..N |-> DataLoadEnable(s, TRUE, p)]
           clear == [s \in 0..N |-> DataLoadEnable(s, FALSE, p)]
           body(e) == [s \in Stage |-> \/ s = block.last_stage
                                       \/ ~StageValid(s + 1)
                                       \/ DataLoadEnable(s + 1, e[s + 1], p)]
           enable == CHOOSE e : e = body(e)
<1>1. N \in Nat /\ Stage = 0..N
  BY BlockFacts DEF BlockTypeOK, Stage
<1>2. /\ base \in [0..N -> BOOLEAN] /\ done \in [0..N -> BOOLEAN]
      /\ clear \in [0..N -> BOOLEAN] /\ base[N]
  <2>1. \A s, open : DataLoadEnable(s, open, p) \in BOOLEAN
    BY Zenon DEF DataLoadEnable
  <2>2. base \in [0..N -> BOOLEAN] /\ done \in [0..N -> BOOLEAN]
        /\ clear \in [0..N -> BOOLEAN]
    BY <2>1, Zenon
  <2>3. N \in 0..N
    BY <1>1
  <2> QED
    BY <2>2, <2>3, Zenon
<1>3. \A s \in 0..N : clear[s] => done[s]
  BY Zenon DEF DataLoadEnable
<1>4. PICK e \in [0..N -> BOOLEAN] : \A s \in 0..N :
         e[s] <=> \/ base[s]
                  \/ s # N /\ IF e[s + 1] THEN done[s + 1] ELSE clear[s + 1]
  <2> HIDE DEF base, done, clear, N
  <2>1. \E e \in [0..N -> BOOLEAN] : Solves(e, N, base, done, clear)
    BY <1>1, <1>2, <1>3, OpenSolution, Zenon
  <2> QED
    BY <2>1, Zenon DEF Solves
<1>5. ASSUME NEW s \in 0..N
      PROVE  e[s] <=> \/ s = N
                      \/ ~StageValid(s + 1)
                      \/ DataLoadEnable(s + 1, e[s + 1], p)
  <2>1. CASE s = N
    BY <1>4, <1>2, <2>1, Zenon
  <2>2. CASE s # N
    <3>1. s + 1 \in 0..N
      BY <1>1, <2>2
    <3>2. base[s] <=> ~StageValid(s + 1)
      BY <2>2, Zenon
    <3>3. /\ done[s + 1] <=> DataLoadEnable(s + 1, TRUE, p)
          /\ clear[s + 1] <=> DataLoadEnable(s + 1, FALSE, p)
      BY <3>1
    <3>4. e[s + 1] = TRUE \/ e[s + 1] = FALSE
      BY <3>1
    <3>5. (IF e[s + 1] THEN done[s + 1] ELSE clear[s + 1])
             <=> DataLoadEnable(s + 1, e[s + 1], p)
      BY <3>3, <3>4, Zenon
    <3> HIDE DEF base, done, clear
    <3> QED
      BY <1>4, <2>2, <3>2, <3>5
  <2> QED
    BY <2>1, <2>2
<1>6. e = body(e)
  <2>1. \A s \in 0..N : body(e)[s] = e[s]
    <3> SUFFICES ASSUME NEW s \in 0..N PROVE body(e)[s] = e[s]
      BY ZenonT(60)
    <3>1. body(e)[s] = (\/ s = N
                        \/ ~StageValid(s + 1)
                        \/ DataLoadEnable(s + 1, e[s + 1], p))
      BY <1>1, Zenon
    <3> QED
      BY <3>1, <1>5, Zenon
  <2>2. body(e) = [s \in 0..N |-> body(e)[s]]
    BY <1>1, Zenon
  <2> HIDE DEF body
  <2> QED
    BY <2>1, <2>2, Zenon
<1>7. enable = body(enable)
  BY <1>6, Zenon
<1>8. NextStageOpen(p) = [s \in Stage |-> enable[s]]
  BY Zenon DEF NextStageOpen
<1> HIDE DEF enable
<1>9. \A s \in Stage : enable[s] = (\/ s = block.last_stage
                                    \/ ~StageValid(s + 1)
                                    \/ DataLoadEnable(s + 1, enable[s + 1], p))
  BY <1>7, Zenon
<1>10. \A s \in Stage : enable[s] \in BOOLEAN
  BY <1>9, Zenon
<1>11. NextStageOpen(p) \in [Stage -> BOOLEAN]
  BY <1>8, <1>10
<1>12. \A s \in Stage : NextStageOpen(p)[s] = enable[s]
  BY <1>8
<1>13. ASSUME NEW s \in Stage
       PROVE  NextStageOpen(p)[s] <=>
                \/ s = block.last_stage
                \/ ~StageValid(s + 1)
                \/ DataLoadEnable(s + 1, NextStageOpen(p)[s + 1], p)
  <2>1. CASE s = N
    BY <2>1, <1>9, <1>12, Zenon
  <2>2. CASE s # N
    <3>1. s + 1 \in Stage
      BY <1>1, <2>2
    <3> QED
      BY <3>1, <1>9, <1>12, Zenon
  <2> QED
    BY <2>1, <2>2
<1> QED
  BY <1>11, <1>13

(* What the output ports show has its type.                                *)
LEMMA OutputFacts ==
  ASSUME BlocksAssumption, BlockTypeOK, NEW p \in Inputs, NEW o \in Outs, NEW open
  PROVE  /\ OneShotValid(o, open, p) \in BOOLEAN
         /\ PortItem(o, p) \in Payload
         /\ \A ready \in BOOLEAN :
              ClockBuffer(block.flop_outputs_kind, out_buf[o],
                          OneShotValid(o, open, p),
                          StageData(block.out_stage[o], p),
                          ready) \in Buffer(Payload)
<1>1. OneShotValid(o, open, p) \in BOOLEAN
  BY Zenon DEF OneShotValid
<1>2. /\ block.flop_outputs_kind \in IOKind /\ block.out_stage[o] \in Stage
      /\ out_buf[o] \in Buffer(Payload)
  BY BlockFacts DEF BlockTypeOK
<1>3. StageData(block.out_stage[o], p) \in Payload
  BY <1>2, StageFacts
<1> QED
  BY <1>1, <1>2, <1>3, BufferTypes, Zenon DEF PortItem

(* A clock cycle keeps the types.                                          *)
LEMMA BlockTypeStep ==
  ASSUME BlocksAssumption, BlockTypeOK, NEW p \in Inputs, Cycle(p)
  PROVE  BlockTypeOK'
<1> DEFINE open == NextStageOpen(p)
<1>1. /\ block' = block /\ Payload' = Payload
      /\ PipelineRegisters' = PipelineRegisters
      /\ PipelineRegisters \subseteq Stage /\ block.last_stage \in Nat
  <2>1. block' = block
    BY Zenon DEF Cycle
  <2>2. block.last_stage \in Nat
    BY BlockFacts, Zenon DEF BlockTypeOK
  <2>3. PipelineRegisters \subseteq Stage
    BY <2>2 DEF PipelineRegisters, Stage
  <2> QED
    BY <2>1, <2>2, <2>3, Zenon DEF Payload, PipelineRegisters
<1>2. is_valid_' \in SUBSET Ins
  BY Zenon DEF Cycle, SourcesGetReady, Inputs
<1>3. /\ block \in Blocks /\ state_reg \in block.states /\ block.init \in block.states
      /\ block.next[state_reg] \in block.states
      /\ block.flop_inputs_kind \in IOKind /\ block.flop_outputs_kind \in IOKind
  BY BlockFacts, Zenon DEF BlockTypeOK
<1>4. ZeroPayload \in Payload
  <2>1. Nothing \in [Ins -> Nat]
    BY DEF Nothing
  <2> QED
    BY <2>1, <1>3 DEF ZeroPayload, Payload
<1>5. /\ ResetBuffer(0) \in Buffer(Nat)
      /\ ResetBuffer(ZeroPayload) \in Buffer(Payload)
  <2> HIDE DEF ZeroPayload, Payload
  <2> QED
    BY <1>4 DEF ResetBuffer, Buffer
<1>6. \A s \in PipelineRegisters : StageData(s, p) \in Payload
  BY <1>1, StageFacts, Zenon
<1>7. CASE p.reset
  <2>1. /\ ResetRegisters(open, p) /\ accepted' = [i \in Ins |-> 0]
        /\ sent' = [o \in Outs |-> <<>>] /\ waiting' = [o \in Outs |-> {}]
        /\ resets' = resets + 1
    BY <1>7, Zenon DEF Cycle
  <2>2. /\ p_valid' \in [PipelineRegisters -> BOOLEAN]
        /\ p_data' \in [PipelineRegisters -> Payload]
        /\ state_reg' \in block.states /\ has_been_sent' \in [Outs -> BOOLEAN]
        /\ in_buf' \in [Ins -> Buffer(Nat)]
        /\ out_buf' \in [Outs -> Buffer(Payload)]
    BY <2>1, <1>3, <1>4, <1>5, <1>6, ZenonT(60) DEF ResetRegisters
  <2>3. /\ accepted' \in [Ins -> Nat] /\ sent' \in [Outs -> Seq(Payload)]
        /\ waiting' \in [Outs -> SUBSET Payload] /\ resets' \in Nat
    <3>1. <<>> \in Seq(Payload)
      OBVIOUS
    <3>2. resets \in Nat
      BY DEF BlockTypeOK
    <3> QED
      BY <2>1, <3>1, <3>2
  <2> QED
    BY <1>1, <1>2, <1>3, <2>2, <2>3, Zenon DEF BlockTypeOK
<1>8. CASE ~p.reset
  <2>1. /\ ClockPipeline(open, p) /\ ClockOneShot(open, p)
        /\ ClockBuffers(open, p)
        /\ SinksCollect(open, p) /\ resets' = resets
        /\ accepted' = [i \in Ins |-> IF i \in p.valid /\ PortReady(i, open, p)
                                      THEN accepted[i] + 1 ELSE accepted[i]]
    BY <1>8, Zenon DEF Cycle
  <2>2. /\ p_valid' \in [PipelineRegisters -> BOOLEAN]
        /\ p_data' \in [PipelineRegisters -> Payload] /\ state_reg' \in block.states
    <3>1. \A s, e : StageDone(s, e, p) \in BOOLEAN
      BY Zenon DEF StageDone
    <3>2. /\ p_valid \in [PipelineRegisters -> BOOLEAN]
          /\ p_data \in [PipelineRegisters -> Payload]
      BY DEF BlockTypeOK
    <3> QED
      BY <2>1, <3>1, <3>2, <1>3, <1>6, Zenon DEF ClockPipeline
  <2>3. has_been_sent' \in [Outs -> BOOLEAN]
    BY <2>1, Zenon DEF ClockOneShot
  <2>4. in_buf' \in [Ins -> Buffer(Nat)]
    <3>1. ASSUME NEW i \in Ins
          PROVE  ClockBuffer(block.flop_inputs_kind, in_buf[i], i \in p.valid,
                             PortData(i, p), PipelineReady(i, open,
                             p)) \in Buffer(Nat)
      <4>1. (i \in p.valid) \in BOOLEAN /\ PipelineReady(i, open, p) \in BOOLEAN
        BY DEF PipelineReady
      <4>2. in_buf[i] \in Buffer(Nat) /\ PortData(i, p) \in Nat
        BY DEF BlockTypeOK, PortData
      <4> QED
        BY <4>1, <4>2, <1>3, BufferTypes, ZenonT(60)
    <3> QED
      BY <2>1, <3>1, Zenon DEF ClockBuffers
  <2>5. out_buf' \in [Outs -> Buffer(Payload)]
    <3>1. \A o \in Outs : (o \in p.ready) \in BOOLEAN
      OBVIOUS
    <3> QED
      BY <2>1, <3>1, OutputFacts, Zenon DEF ClockBuffers
  <2>6. accepted' \in [Ins -> Nat] /\ resets' \in Nat
    BY <2>1 DEF BlockTypeOK
  <2>7. sent' \in [Outs -> Seq(Payload)] /\ waiting' \in [Outs -> SUBSET Payload]
    <3>1. \A o \in Outs : PortItem(o, p) \in Payload /\ sent[o] \in Seq(Payload)
      BY OutputFacts, Zenon DEF BlockTypeOK
    <3>2. \A o \in Outs : Append(sent[o], PortItem(o, p)) \in Seq(Payload)
      BY <3>1
    <3> QED
      BY <2>1, <3>1, <3>2, Zenon DEF SinksCollect
  <2> QED
    BY <1>1, <1>2, <1>3, <2>2, <2>3, <2>4, <2>5, <2>6, <2>7, ZenonT(60) DEF BlockTypeOK
<1> QED
  BY <1>7, <1>8, Zenon

(* The signal of stage s that runs back from the stage after it is what    *)
(* its definition says.                                                    *)
OpenAt(p, s) ==
  NextStageOpen(p)[s] <=>
    \/ s = block.last_stage
    \/ ~StageValid(s + 1)
    \/ DataLoadEnable(s + 1, NextStageOpen(p)[s + 1], p)

(* What stage s computes with has the type of an item.                     *)
DataAt(p, s) ==
  /\ StageData(s, p) \in Payload
  /\ StageData(s, p).state = StageInput(s).state
  /\ \A i \in Ins : StageData(s, p).got[i]
         = IF block.in_stage[i] = s THEN InData(i, p) ELSE StageInput(s).got[i]

(* Both, for all inputs and stages.                                        *)
SignalsOK == \A p \in Inputs : \A s \in Stage : OpenAt(p, s) /\ DataAt(p, s)

(* They follow from the types of the registers, before and after a cycle.  *)
LEMMA SignalsAlways ==
  ASSUME BlocksAssumption
  PROVE  (BlockTypeOK => SignalsOK) /\ (BlockTypeOK' => SignalsOK')
<1>1. BlockTypeOK => SignalsOK
  <2> SUFFICES ASSUME BlockTypeOK, NEW p \in Inputs, NEW s \in Stage
               PROVE  OpenAt(p, s) /\ DataAt(p, s)
    BY Zenon DEF SignalsOK
  <2>1. OpenAt(p, s)
    BY OpenFacts, Zenon DEF OpenAt
  <2>2. DataAt(p, s)
    BY StageFacts, Zenon DEF DataAt
  <2> QED
    BY <2>1, <2>2
<1>2. BlockTypeOK' => SignalsOK'
  BY <1>1, PTL
<1> QED
  BY <1>1, <1>2

(* Stage s has in the next cycle, with the inputs r, what it has with p.   *)
HeldAt(s, p, r) ==
  /\ StageValid(s)' /\ StageInput(s)' = StageInput(s)
  /\ AllActiveInputsValid(s, r)' /\ NextStageOpen(r)'[s]
  /\ \A i \in Ins : block.in_stage[i] = s /\ ReceivePredicate(i)
                      => InData(i, r)' = InData(i, p)

(* A stage that holds an iteration and cannot hand it on holds it in the   *)
(* next cycle, with the same inputs, and the stage behind it is free.      *)
LEMMA StageHeld ==
  ASSUME BlocksAssumption, BlockTypeOK, BlockTypeOK',
         NEW p \in Inputs, ~p.reset, Cycle(p), NEW s \in Stage,
         StageValid(s), NextStageOpen(p)[s], AllActiveInputsValid(s, p),
         ~AllActiveOutputsReady(s, NextStageOpen(p)[s], p),
         NEW r \in Inputs, ~r.reset, is_valid_' \subseteq r.valid
  PROVE  HeldAt(s, p, r)
<1> DEFINE open == NextStageOpen(p)
           kind == block.flop_inputs_kind
<1>1. /\ ClockPipeline(open, p) /\ ClockBuffers(open, p)
      /\ SourcesGetReady(open, p)
      /\ accepted' = [i \in Ins |-> IF i \in p.valid /\ PortReady(i, open, p)
                                    THEN accepted[i] + 1 ELSE accepted[i]]
      /\ block' = block
  BY ZenonT(60) DEF Cycle
<1>2. /\ block.last_stage \in Nat /\ kind \in IOKind
      /\ Stage = 0..block.last_stage
      /\ PipelineRegisters = 0..(block.last_stage - 1)
  BY BlockFacts DEF BlockTypeOK, Stage, PipelineRegisters
<1>3. ~StageDone(s, open[s], p)
  BY Zenon DEF StageDone
<1>4. ~DataLoadEnable(s, open[s], p)
  BY <1>3, Zenon DEF DataLoadEnable
<1>5. StageValid(s)' /\ StageInput(s)' = StageInput(s)
  <2>1. CASE s = 0
    <3>1. state_reg' = state_reg
      BY <1>1, <1>3, <2>1, Zenon DEF ClockPipeline
    <3> QED
      BY <2>1, <3>1 DEF StageValid, StageInput, Nothing
  <2>2. CASE s # 0
    <3>1. s - 1 \in Stage /\ s - 1 + 1 = s /\ s - 1 # block.last_stage
          /\ s - 1 \in PipelineRegisters
      BY <1>2, <2>2
    <3>2. ~open[s - 1]
      <4>1. OpenAt(p, s - 1)
        BY <3>1, SignalsAlways, Zenon DEF SignalsOK
      <4>2. open[s - 1] <=> \/ s - 1 = block.last_stage
                            \/ ~StageValid(s)
                            \/ DataLoadEnable(s, open[s], p)
        BY <4>1, <3>1, Zenon DEF OpenAt
      <4> QED
        BY <4>2, <3>1, <1>4, ZenonT(60)
    <3>3. ~DataLoadEnable(s - 1, open[s - 1], p)
      BY <3>2, Zenon DEF DataLoadEnable
    <3>4. p_valid'[s - 1] = p_valid[s - 1] /\ p_data'[s - 1] = p_data[s - 1]
      BY <1>1, <3>1, <3>2, <3>3, ZenonT(60) DEF ClockPipeline
    <3> QED
      BY <2>2, <3>4, ZenonT(60) DEF StageValid, StageInput
  <2> QED
    BY <2>1, <2>2, ZenonT(60)
<1>6. ASSUME NEW i \in Ins, block.in_stage[i] = s, ReceivePredicate(i)
      PROVE  InValid(i, r)' /\ InData(i, r)' = InData(i, p)
  <2>1. InValid(i, p)
    BY <1>6, Zenon DEF AllActiveInputsValid
  <2>2. PipelineReady(i, open, p) = FALSE
    BY <1>4, <1>6, Zenon DEF PipelineReady
  <2>3. in_buf'[i]
             = ClockBuffer(kind, in_buf[i], i \in p.valid, PortData(i, p), FALSE)
    BY <1>1, <2>2, Zenon DEF ClockBuffers
  <2>4. /\ InValid(i, r)' = ToValid(kind, in_buf'[i], i \in r.valid)
        /\ InData(i, r)' = ToData(kind, in_buf'[i], PortData(i, r)')
    BY <1>1, Zenon DEF InValid, InData
  <2>5. CASE kind = "none"
    <3>1. i \in p.valid
      BY <2>1, <2>5, Zenon DEF InValid, ToValid
    <3>2. ~PortReady(i, open, p)
      BY <2>2, <2>5, Zenon DEF PortReady, FromReady
    <3>3. i \in r.valid /\ accepted'[i] = accepted[i]
      BY <1>1, <3>1, <3>2, ZenonT(60) DEF SourcesGetReady
    <3>4. PortData(i, r)' = PortData(i, p)
      BY <3>1, <3>3 DEF PortData
    <3> QED
      BY <2>4, <2>5, <3>3, <3>4, Zenon DEF ToValid, ToData, InData
  <2>6. CASE kind # "none"
    <3>1. /\ in_buf[i] \in Buffer(Nat) /\ PortData(i, p) \in Nat
          /\ kind \in IOKind /\ kind # "none"
          /\ (i \in p.valid) \in BOOLEAN /\ (i \in r.valid) \in BOOLEAN
      <4>1. in_buf[i] \in Buffer(Nat)
        BY Zenon DEF BlockTypeOK
      <4>2. PortData(i, p) \in Nat
        BY StageFacts, Zenon
      <4>3. (i \in p.valid) \in BOOLEAN /\ (i \in r.valid) \in BOOLEAN
        OBVIOUS
      <4> QED
        BY <1>2, <2>6, <4>1, <4>2, <4>3, Zenon
    <3>2. /\ ToValid(kind, in_buf[i], i \in p.valid)
          /\ InData(i, p) = ToData(kind, in_buf[i], PortData(i, p))
      BY <2>1, Zenon DEF InValid, InData
    <3>3. /\ ToValid(kind, in_buf'[i], i \in r.valid)
          /\ ToData(kind, in_buf'[i], PortData(i, r)')
               = ToData(kind, in_buf[i], PortData(i, p))
      <4>1. Shows(kind,
                  ClockBuffer(kind, in_buf[i], i \in p.valid, PortData(i, p),
                              FALSE),
                  ToData(kind, in_buf[i], PortData(i, p)))
        BY <3>1, <3>2, BufferHolds, Zenon
      <4>2. Shows(kind, in_buf'[i], ToData(kind, in_buf[i], PortData(i, p)))
        BY <2>3, <4>1, Zenon
      <4> QED
        BY <4>2, <3>1, Zenon DEF Shows
    <3> QED
      BY <2>4, <3>2, <3>3, ZenonT(60)
  <2> QED
    BY <2>5, <2>6
<1>7. AllActiveInputsValid(s, r)'
  <2>1. \A i \in Ins : block.in_stage[i] = s
             => (ReceivePredicate(i)' <=> ReceivePredicate(i))
    BY <1>1, <1>5, ZenonT(60) DEF ReceivePredicate
  <2> QED
    BY <1>1, <1>6, <2>1, Zenon DEF AllActiveInputsValid
<1>8. NextStageOpen(r)'[s]
  <2>1. NextStageOpen(r)'[s] <=> \/ s = block.last_stage
                                 \/ ~StageValid(s + 1)'
                                 \/ DataLoadEnable(s + 1, NextStageOpen(r)[s + 1], r)'
    <3>1. SignalsOK' /\ Stage' = Stage /\ block' = block
      BY <1>1, SignalsAlways DEF Stage
    <3>2. OpenAt(r, s)'
      BY <3>1, Zenon DEF SignalsOK
    <3> QED
      BY <3>1, <3>2, ZenonT(60) DEF OpenAt
  <2>2. CASE s = block.last_stage
    BY <2>1, <2>2, ZenonT(60)
  <2>3. CASE s # block.last_stage
    <3>1. s \in PipelineRegisters /\ s + 1 # 0 /\ s + 1 - 1 = s
      BY <1>2, <2>3
    <3>2. ~p_valid'[s]
      BY <1>1, <1>3, <3>1, ZenonT(60) DEF ClockPipeline
    <3>3. ~StageValid(s + 1)'
      <4>1. \A k \in Nat : StageValid(k)' <=> k = 0 \/ p_valid'[k - 1]
        BY DEF StageValid
      <4> QED
        BY <4>1, <3>1, <3>2, <1>2
    <3> QED
      BY <2>1, <3>3
  <2> QED
    BY <2>2, <2>3, ZenonT(60)
<1> QED
  BY <1>5, <1>6, <1>7, <1>8, Zenon DEF HeldAt

(* An item that a port has shown is shown again, whatever the sources and  *)
(* the takers do.                                                          *)
Promised(o, v) ==
  \A r \in Inputs :
    ~r.reset /\ is_valid_ \subseteq r.valid =>
      /\ PortValid(o, NextStageOpen(r), r)
      /\ SameItem(o, v, PortItem(o, r))

(* The promise of every item that a taker has left.                        *)
Promises == \A o \in Outs : \A v \in waiting[o] : Promised(o, v)

(* A cycle in which a port shows an item that is not taken makes one.      *)
LEMMA OutputHeld ==
  ASSUME BlocksAssumption, BlockTypeOK, BlockTypeOK', NEW p \in Inputs, ~p.reset,
         Cycle(p),
         NEW o \in Outs, o \notin p.ready, PortValid(o, NextStageOpen(p), p),
         NEW v, v = PortItem(o, p)
  PROVE  Promised(o, v)'
<1> SUFFICES ASSUME NEW r \in Inputs, ~r.reset, is_valid_' \subseteq r.valid
             PROVE  /\ PortValid(o, NextStageOpen(r), r)'
                    /\ SameItem(o, v, PortItem(o, r))'
  BY Zenon DEF Promised
<1> DEFINE open == NextStageOpen(p)
<1>1. block' = block
  BY Zenon DEF Cycle
<1>2. PICK s \in Stage : s = block.out_stage[o]
  BY BlockFacts, ZenonT(60) DEF BlockTypeOK
<1>3. PICK kind \in IOKind : kind = block.flop_outputs_kind
  BY BlockFacts DEF BlockTypeOK
<1>4. /\ PortValid(o, open, p)
           <=> ToValid(kind, out_buf[o], OneShotValid(o, open[s], p))
      /\ v = ToData(kind, out_buf[o], StageData(s, p))
  BY <1>2, <1>3, Zenon DEF PortValid, PortItem
<1>5. /\ PortValid(o, NextStageOpen(r), r)'
           <=> ToValid(kind, out_buf'[o], OneShotValid(o, NextStageOpen(r)[s], r)')
      /\ PortItem(o, r)' = ToData(kind, out_buf'[o], StageData(s, r)')
  BY <1>1, <1>2, <1>3, ZenonT(60) DEF PortValid, PortItem
<1>6. SignalsOK /\ SignalsOK' /\ Stage' = Stage /\ Payload' = Payload
  BY <1>1, SignalsAlways, ZenonT(60) DEF Stage, Payload
<1>7. DataAt(p, s) /\ DataAt(r, s)'
  BY <1>6, Zenon DEF SignalsOK
<1>8. CASE kind # "none"
  <2>1. /\ OneShotValid(o, open[s], p) \in BOOLEAN
        /\ out_buf[o] \in Buffer(Payload)
        /\ StageData(s, p) \in Payload /\ StageData(s, r)' \in Payload
        /\ OneShotValid(o, NextStageOpen(r)[s], r)' \in BOOLEAN
    BY <1>6, <1>7, Zenon DEF OneShotValid, BlockTypeOK, DataAt
  <2>2. ToValid(kind, out_buf[o], OneShotValid(o, open[s], p))
    BY <1>4, ZenonT(60)
  <2>3. (o \in p.ready) = FALSE
    OBVIOUS
  <2>4. out_buf'[o] = ClockBuffer(kind, out_buf[o], OneShotValid(o, open[s], p),
                                  StageData(s, p), FALSE)
    BY <2>3, <1>2, <1>3, Zenon DEF Cycle, ClockBuffers
  <2>5. Shows(kind, ClockBuffer(kind, out_buf[o], OneShotValid(o, open[s], p),
                                StageData(s, p), FALSE),
              ToData(kind, out_buf[o], StageData(s, p)))
    BY <2>1, <2>2, <1>8, BufferHolds, Zenon
  <2>6. Shows(kind, out_buf'[o], v)
    BY <2>4, <2>5, <1>4, Zenon
  <2>7. /\ ToValid(kind, out_buf'[o],
                   OneShotValid(o, NextStageOpen(r)[s], r)')
        /\ ToData(kind, out_buf'[o], StageData(s, r)') = v
    BY <2>6, <2>1, Zenon DEF Shows
  <2>8. SameItem(o, v, PortItem(o, r))'
    BY <2>7, <1>5, Zenon DEF SameItem
  <2> QED
    BY <2>7, <2>8, <1>5, Zenon
<1>9. CASE kind = "none"
  <2>1. OneShotValid(o, open[s], p)
    BY <1>4, <1>9, Zenon DEF ToValid
  <2>2. /\ AllActiveInputsValid(s, p) /\ StageValid(s) /\ open[s]
        /\ SendPredicate(o)
        /\ ~has_been_sent[o]
    BY <1>2, <2>1, Zenon DEF OneShotValid, OutputValid
  <2>3. ~BufferReady(o, open[s], p)
    BY <1>3, <1>9, Zenon DEF BufferReady, FromReady
  <2>4. ~AllActiveOutputsReady(s, open[s], p)
    BY <1>2, <2>2, <2>3, Zenon DEF AllActiveOutputsReady
  <2>5. HeldAt(s, p, r)
    BY <2>2, <2>4, StageHeld, Zenon
  <2>6. ~has_been_sent'[o]
    BY <1>2, <2>2, <2>3, <2>4, ZenonT(60) DEF Cycle, ClockOneShot
  <2>7. OneShotValid(o, NextStageOpen(r)[s], r)'
    <3>1. SendPredicate(o)'
      BY <1>1, <1>2, <2>2, <2>5, Zenon DEF SendPredicate, HeldAt
    <3> QED
      BY <1>1, <1>2, <2>5, <2>6, <3>1, ZenonT(60)
         DEF OneShotValid, OutputValid, HeldAt
  <2>8. PortItem(o, r)' = StageData(s, r)' /\ v = StageData(s, p)
    BY <1>4, <1>5, <1>9, ZenonT(60) DEF ToData
  <2>9. PICK w : w = StageData(s, r)'
    OBVIOUS
  <2>10. /\ w.state = v.state
         /\ \A i \in Ins : w.got[i] = v.got[i] \/ Floats(o, i, v)
    <3>1. /\ v.state = StageInput(s).state
          /\ \A i \in Ins : v.got[i]
               = IF block.in_stage[i] = s THEN InData(i, p)
                 ELSE StageInput(s).got[i]
      BY <1>7, <2>8, Zenon DEF DataAt
    <3>2. /\ w.state = StageInput(s)'.state
          /\ \A i \in Ins : w.got[i]
               = IF block.in_stage[i] = s THEN InData(i, r)'
                 ELSE StageInput(s)'.got[i]
      BY <1>1, <1>7, <2>9, ZenonT(60) DEF DataAt
    <3>3. ASSUME NEW i \in Ins, ~Floats(o, i, v)
          PROVE  w.got[i] = v.got[i]
      <4>1. CASE block.in_stage[i] = s
        <5>1. v.state \in block.in_when[i]
          BY <1>2, <1>3, <1>9, <3>3, <4>1, Zenon DEF Floats
        <5>2. ReceivePredicate(i)
          BY <3>1, <4>1, <5>1, Zenon DEF ReceivePredicate
        <5> QED
          BY <3>1, <3>2, <4>1, <5>2, <2>5, ZenonT(60) DEF HeldAt
      <4>2. CASE block.in_stage[i] # s
        BY <3>1, <3>2, <4>2, <2>5, ZenonT(60) DEF HeldAt
      <4> QED
        BY <4>1, <4>2
    <3> QED
      BY <3>1, <3>2, <3>3, <2>5, ZenonT(60) DEF HeldAt
  <2>11. \A i \in Ins : Floats(o, i, v)' <=> Floats(o, i, v)
    BY <1>1, Zenon DEF Floats
  <2>12. SameItem(o, v, PortItem(o, r))'
    BY <2>8, <2>9, <2>10, <2>11, ZenonT(60) DEF SameItem
  <2>13. PortValid(o, NextStageOpen(r), r)'
    BY <1>5, <1>9, <2>7, Zenon DEF ToValid
  <2> QED
    BY <2>12, <2>13, Zenon
<1> QED
  BY <1>8, <1>9

(* Every step keeps the types and the promises.                            *)
LEMMA BlockStep ==
  ASSUME BlocksAssumption, BlockTypeOK, NEW p \in Inputs, Cycle(p)
  PROVE  BlockTypeOK' /\ Promises'
<1>1. BlockTypeOK'
  BY BlockTypeStep, Zenon
<1>2. ASSUME NEW o \in Outs, NEW v \in waiting'[o]
      PROVE  Promised(o, v)'
  <2>1. CASE p.reset
    BY <1>2, <2>1, Zenon DEF Cycle
  <2>2. CASE ~p.reset
    <3>1. waiting'[o] = IF o \notin p.ready /\ PortValid(o, NextStageOpen(p), p)
                        THEN {PortItem(o, p)} ELSE {}
      BY <2>2, Zenon DEF Cycle, SinksCollect
    <3>2. /\ o \notin p.ready /\ PortValid(o, NextStageOpen(p), p)
          /\ v = PortItem(o, p)
      BY <1>2, <3>1, Zenon
    <3> QED
      BY <1>1, <2>2, <3>2, OutputHeld, Zenon
  <2> QED
    BY <2>1, <2>2
<1> QED
  BY <1>1, <1>2, Zenon DEF Promises

(* What a cycle does about the items that were left in the cycle before.   *)
Kept(o) ==
  \A v \in waiting[o] :
    \/ resets' # resets
    \/ \E w \in waiting'[o] : SameItem(o, v, w)
    \/ /\ Len(sent'[o]) = Len(sent[o]) + 1
       /\ SameItem(o, v, sent'[o][Len(sent'[o])])

(* A promised item is shown, so that it is taken or left again.            *)
LEMMA PromiseKept ==
  ASSUME BlocksAssumption, BlockTypeOK, Promises, NEW p \in Inputs, Cycle(p),
         NEW o \in Outs
  PROVE  Kept(o)
<1> SUFFICES ASSUME NEW v \in waiting[o], ~p.reset
             PROVE  \/ \E w \in waiting'[o] : SameItem(o, v, w)
                    \/ /\ Len(sent'[o]) = Len(sent[o]) + 1
                       /\ SameItem(o, v, sent'[o][Len(sent'[o])])
  <2>1. p.reset => resets' # resets
    <3>1. p.reset => resets' = resets + 1
      BY Zenon DEF Cycle
    <3> QED
      BY <3>1 DEF BlockTypeOK
  <2> QED
    BY <2>1, Zenon DEF Kept
<1>1. /\ PortValid(o, NextStageOpen(p), p)
      /\ SameItem(o, v, PortItem(o, p))
  BY Zenon DEF Cycle, SourcesShow, Promises, Promised
<1>2. /\ sent'[o] = IF o \in p.ready THEN Append(sent[o], PortItem(o, p)) ELSE sent[o]
      /\ waiting'[o] = IF o \notin p.ready THEN {PortItem(o, p)} ELSE {}
  BY <1>1, Zenon DEF Cycle, SinksCollect
<1>3. CASE o \notin p.ready
  <2>1. waiting'[o] = {PortItem(o, p)}
    BY <1>2, <1>3, Zenon
  <2> QED
    BY <1>1, <2>1, Zenon
<1>4. CASE o \in p.ready
  <2>1. sent[o] \in Seq(Payload) /\ PortItem(o, p) \in Payload
    BY OutputFacts, Zenon DEF BlockTypeOK
  <2>2. sent'[o] = Append(sent[o], PortItem(o, p))
    BY <1>2, <1>4, ZenonT(60)
  <2>3. Len(sent'[o]) = Len(sent[o]) + 1 /\ sent'[o][Len(sent'[o])] = PortItem(o, p)
    BY <2>1, <2>2
  <2> QED
    BY <1>1, <2>3, Zenon
<1> QED
  BY <1>3, <1>4, Zenon

(* A block starts with the types and without promises.                     *)
LEMMA BlockStarts ==
  ASSUME BlocksAssumption, BlockInit
  PROVE  BlockTypeOK /\ Promises
<1>1. block \in Blocks /\ block.init \in block.states
  BY DEF BlockInit, BlocksAssumption
<1>2. Nothing \in [Ins -> Nat] /\ ZeroPayload \in Payload
  BY <1>1 DEF Nothing, ZeroPayload, Payload
<1>3. ResetBuffer(ZeroPayload) \in Buffer(Payload)
  BY <1>2 DEF ResetBuffer, Buffer
<1>4. ResetBuffer(0) \in Buffer(Nat)
  BY ZenonT(60) DEF ResetBuffer, Buffer
<1>5. BlockTypeOK
  BY <1>1, <1>2, <1>3, <1>4 DEF BlockInit, BlockTypeOK
<1>6. Promises
  BY Zenon DEF BlockInit, Promises
<1> QED
  BY <1>5, <1>6, ZenonT(60)

(* An item that a block's output port shows to a taker that is not ready   *)
(* is shown again until it is taken, for every proc, schedule and choice   *)
(* of buffers: the whole item if the output has a buffer, and otherwise    *)
(* its state and all data but that of receives of the same stage whose     *)
(* predicates are false (block_conversion.cc:2193).                        *)
THEOREM OutputsAlwaysHeld == BlockSpec => OutputsHeld
<1>0. BlocksAssumption
  BY BlockDescriptions
<1> USE <1>0
<1>1. BlockInit => BlockTypeOK /\ Promises
  BY BlockStarts
<1>2. ASSUME BlockNext
      PROVE  \E p \in Inputs : Cycle(p)
  BY <1>2, Zenon DEF BlockNext, Run, Reset, Inputs
<1>3. BlockTypeOK /\ Promises /\ [BlockNext]_blockVars => (BlockTypeOK /\ Promises)'
  <2>1. CASE BlockNext
    BY <1>2, <2>1, BlockStep, Zenon
  <2>2. ASSUME BlockTypeOK, Promises, UNCHANGED blockVars
        PROVE  BlockTypeOK' /\ Promises'
    <3>1. BlockTypeOK'
      BY <2>2, ZenonT(60)
         DEF BlockTypeOK, blockVars, registers, Payload, PipelineRegisters
    <3>2. Promises'
      <4>1. waiting' = waiting /\ is_valid_' = is_valid_
        BY <2>2 DEF blockVars
      <4> SUFFICES ASSUME NEW o \in Outs, NEW v \in waiting[o], NEW r \in Inputs,
                          ~r.reset, is_valid_ \subseteq r.valid
                   PROVE  /\ PortValid(o, NextStageOpen(r), r)'
                          /\ SameItem(o, v, PortItem(o, r))'
        BY <4>1, Zenon DEF Promises, Promised
      <4>2. /\ PortValid(o, NextStageOpen(r), r)
            /\ SameItem(o, v, PortItem(o, r))
        BY <2>2, Zenon DEF Promises, Promised
      <4>3. block' = block /\ accepted' = accepted /\ UNCHANGED registers
        BY <2>2, Zenon DEF blockVars
      <4>4. /\ PortValid(o, NextStageOpen(r), r)'
            /\ PortItem(o, r)' = PortItem(o, r)
        BY <4>2, <4>3, PortUnchanged, Zenon
      <4>5. SameItem(o, v, PortItem(o, r))'
        BY <4>2, <4>3, <4>4, Zenon DEF SameItem, Floats
      <4> QED
        BY <4>4, <4>5, ZenonT(60)
    <3> QED
      BY <3>1, <3>2, Zenon
  <2> QED
    BY <2>1, <2>2
<1>4. BlockTypeOK /\ Promises /\ [BlockNext]_blockVars
           => [\A o \in Outs : Kept(o)]_blockVars
  BY <1>2, PromiseKept, Zenon
<1> QED
  BY <1>1, <1>3, <1>4, PTL DEF BlockSpec, OutputsHeld, Kept

------------------------------------------------------------------------------
(***************************************************************************)
(* The queue of the JIT.  The argument is about the buffer alone: Ring     *)
(* says what a well-formed circular buffer is, and a lemma for each        *)
(* operation on it says that the result is well-formed and which elements  *)
(* it holds.                                                               *)
(***************************************************************************)
\* A buffer that has been allocated and is in order.
Ring(r) ==
    /\ r.size \in Nat /\ r.used \in Nat /\ r.deq \in Nat
    /\ r.max \in Nat \ {0} /\ r.max = Slots(r.size)
    /\ r.used <= r.max
    /\ r.deq < r.max
    /\ r.enq = IF r.deq + r.used < r.max THEN r.deq + r.used
                                         ELSE r.deq + r.used - r.max
    /\ r.buf \in [0..(r.max - 1) -> Values \cup {Zero}]
    /\ \A i \in 1..r.used : r.buf[SlotOf(r, i)] \in Values

\* The buffer before the first Send: nothing allocated, nothing stored.
Unallocated(r) ==
    /\ r.size = 0 /\ r.max \in Nat /\ r.used = 0 /\ r.enq = 0 /\ r.deq = 0
    /\ r.buf \in [0..-1 -> Values \cup {Zero}]

------------------------------------------------------------------------------
(* The capacity of the buffer *)

\* A buffer of at least one element's size holds at least one element.
LEMMA SlotsPositive ==
    ASSUME NEW n \in Nat, n >= AllocatedElementSize
    PROVE  Slots(n) \in Nat \ {0}
  BY SizesAssumption DEF Slots

\* Doubling the bytes at least doubles the elements: Send's growth step makes
\* room for the elements it moves and for one more.
LEMMA SlotsDouble ==
    ASSUME NEW n \in Nat
    PROVE  Slots(n) \in Nat /\ Slots(2 * n) \in Nat /\ Slots(2 * n) >= 2 * Slots(n)
  BY SizesAssumption DEF Slots

------------------------------------------------------------------------------
(* The operations on the buffer *)

\* The first Send's allocation yields an empty buffer with room.
LEMMA AllocatedRing ==
    ASSUME NEW r, Unallocated(r)
    PROVE  /\ Ring(Allocated(r))
           /\ Allocated(r).used = 0
           /\ Contents(Allocated(r)) = Contents(r)
  <1>1. InitialSize \in Nat /\ InitialSize >= AllocatedElementSize
    BY SizesAssumption DEF InitialSize
  <1>2. Slots(InitialSize) \in Nat \ {0}
    BY <1>1, SlotsPositive
  <1>3. Resized(r.buf, Slots(InitialSize))
            \in [0..(Slots(InitialSize) - 1) -> Values \cup {Zero}]
    BY <1>2 DEF Resized, Unallocated
  <1> DEFINE a == Allocated(r)
  <1>4. /\ a = [size |-> InitialSize, max |-> Slots(InitialSize), used |-> 0,
                enq |-> 0, deq |-> 0, buf |-> Resized(r.buf, Slots(InitialSize))]
    BY DEF Allocated, Unallocated
  <1>5. Ring(a)
    BY <1>1, <1>2, <1>3, <1>4 DEF Ring
  <1>6. Contents(a) = Contents(r)
    BY <1>4 DEF Contents, Unallocated
  <1> QED
    BY <1>4, <1>5, <1>6

\* Growing a full buffer keeps its elements in order and makes room for one.
LEMMA GrownRing ==
    ASSUME NEW r, Ring(r), r.used = r.max
    PROVE  /\ Ring(Grown(r))
           /\ Grown(r).used < Grown(r).max
           /\ Contents(Grown(r)) = Contents(r)
  <1> DEFINE max == Slots(2 * r.size)
             buf == Resized(r.buf, max)
             g == Grown(r)
  <1>1. max \in Nat /\ max >= 2 * r.max
    BY SlotsDouble, ZenonT(60) DEF Ring
  <1>2. /\ buf \in [0..(max - 1) -> Values \cup {Zero}]
        /\ \A i \in 0..(r.max - 1) : buf[i] = r.buf[i]
    BY <1>1, SMTT(60) DEF Resized, Ring
  <1>3. /\ Moved(buf, r) \in [0..(max - 1) -> Values \cup {Zero}]
        /\ \A i \in 0..(max - 1) :
              Moved(buf, r)[i] = IF i \in r.used..(r.used + r.deq - 1)
                                 THEN buf[i - r.used] ELSE buf[i]
    <2> HIDE DEF buf, max
    <2> QED BY <1>1, <1>2, SMTT(60) DEF Moved, Ring
  <1>4. r.deq = 0 => Moved(buf, r) = buf
    <2> HIDE DEF buf, max
    <2> QED BY <1>1, <1>2, <1>3 DEF Ring
  <1>5. g = [size |-> 2 * r.size, max |-> max, used |-> r.used,
             enq |-> r.used + r.deq, deq |-> r.deq, buf |-> Moved(buf, r)]
    <2>1. Wrapped(r.used + r.deq, max) = r.used + r.deq
      BY <1>1, SMTT(60) DEF Wrapped, Ring
    <2> QED BY <2>1, <1>4, ZenonT(60) DEF Grown, Ring
  <1>6. \A i \in 1..r.used : g.buf[SlotOf(g, i)] = r.buf[SlotOf(r, i)]
    <2> TAKE i \in 1..r.used
    <2> DEFINE old == r.deq + i - 1
    <2>1. old \in 0..(max - 1) /\ SlotOf(g, i) = old /\ g.buf = Moved(buf, r)
      BY <1>1, <1>5, SMTT(60) DEF Ring, SlotOf
    <2> HIDE DEF buf, max, g
    <2>2. CASE old < r.max
      <3>1. /\ SlotOf(r, i) = old
            /\ old \notin r.used..(r.used + r.deq - 1)
            /\ old \in 0..(r.max - 1)
        BY <2>2, SMTT(60) DEF Ring, SlotOf
      <3> QED BY <2>1, <2>2, <3>1, <1>2, <1>3
    <2>3. CASE ~(old < r.max)
      <3>1. /\ SlotOf(r, i) = old - r.used
            /\ old \in r.used..(r.used + r.deq - 1)
            /\ old - r.used \in 0..(r.max - 1)
        BY <2>3, SMTT(60) DEF Ring, SlotOf
      <3> QED BY <2>1, <3>1, <1>2, <1>3, ZenonT(60)
    <2> QED BY <2>2, <2>3
  <1>7. Ring(g)
    <2>1. /\ g.size \in Nat /\ g.used \in Nat /\ g.deq \in Nat
          /\ g.max \in Nat \ {0} /\ g.max = Slots(g.size)
          /\ g.used <= g.max /\ g.deq < g.max
          /\ g.enq = g.deq + g.used /\ g.deq + g.used < g.max
      <3> HIDE DEF buf, g
      <3> QED BY <1>1, <1>5, SMTT(60) DEF Ring
    <2>2. g.buf \in [0..(g.max - 1) -> Values \cup {Zero}]
      <3> HIDE DEF buf, g
      <3> QED BY <1>3, <1>5, Zenon
    <2>3. \A i \in 1..g.used : g.buf[SlotOf(g, i)] \in Values
      <3> HIDE DEF buf, g
      <3> QED BY <1>5, <1>6, Zenon DEF Ring
    <2> HIDE DEF g
    <2> QED BY <2>1, <2>2, <2>3, Zenon DEF Ring
  <1>8. Contents(g) = Contents(r)
    <2> HIDE DEF buf, max, g
    <2> QED BY <1>5, <1>6, ZenonT(60) DEF Contents
  <1>9. g.used < g.max
    <2> HIDE DEF buf, g
    <2> QED BY <1>1, <1>5 DEF Ring
  <1> QED
    BY <1>7, <1>8, <1>9

\* The counters of a buffer in order, apart from what it stores.
LEMMA RingCounters ==
    ASSUME NEW r, Ring(r)
    PROVE  /\ r.size \in Nat /\ r.used \in Nat /\ r.deq \in Nat /\ r.enq \in Nat
           /\ r.max \in Nat \ {0} /\ r.max = Slots(r.size)
           /\ r.used <= r.max /\ r.deq < r.max /\ r.enq < r.max
           /\ r.enq = IF r.deq + r.used < r.max THEN r.deq + r.used
                                                ELSE r.deq + r.used - r.max
  BY SMTT(60) DEF Ring

\* The elements of a buffer in order are a sequence of values.
LEMMA RingContents ==
    ASSUME NEW r, Ring(r)
    PROVE  /\ Contents(r) \in Seq(Values) /\ Len(Contents(r)) = r.used
           /\ \A i \in 1..r.used : Contents(r)[i] = r.buf[SlotOf(r, i)]
  BY SMTT(60) DEF Ring, Contents

\* Appending to a buffer with room appends to its elements.
LEMMA PushedRing ==
    ASSUME NEW r, Ring(r), r.used < r.max, NEW v \in Values
    PROVE  /\ Ring(Pushed(r, v))
           /\ Contents(Pushed(r, v)) = Append(Contents(r), v)
  <1> DEFINE p == Pushed(r, v)
  <1>1. p = [size |-> r.size, max |-> r.max, used |-> r.used + 1,
             enq |-> Wrapped(r.enq + 1, r.max), deq |-> r.deq,
             buf |-> Written(r.buf, r.enq, v)]
    BY Zenon DEF Pushed
  <1>2. /\ Written(r.buf, r.enq, v) \in [0..(r.max - 1) -> Values \cup {Zero}]
        /\ \A i \in 0..(r.max - 1) :
              Written(r.buf, r.enq, v)[i] = IF i = r.enq THEN v ELSE r.buf[i]
    BY ZenonT(60) DEF Ring, Written
  <1> HIDE DEF p
  <1>3. /\ p.size \in Nat /\ p.used \in Nat /\ p.deq \in Nat
        /\ p.max \in Nat \ {0} /\ p.max = Slots(p.size)
        /\ p.used <= p.max /\ p.deq < p.max
        /\ p.enq = IF p.deq + p.used < p.max THEN p.deq + p.used
                                             ELSE p.deq + p.used - p.max
    BY <1>1, RingCounters DEF Wrapped
  <1>4. \A i \in 1..(r.used + 1) :
           /\ SlotOf(r, i) \in 0..(r.max - 1)
           /\ SlotOf(p, i) = SlotOf(r, i)
           /\ SlotOf(r, i) = r.enq <=> i = r.used + 1
    BY <1>1, RingCounters DEF SlotOf
  <1>5. \A i \in 1..(r.used + 1) :
           p.buf[SlotOf(p, i)] = IF i = r.used + 1 THEN v ELSE r.buf[SlotOf(r, i)]
    BY <1>1, <1>2, <1>4, ZenonT(60)
  <1>6. \A i \in 1..p.used : p.buf[SlotOf(p, i)] \in Values
    BY <1>1, <1>5, SMTT(60) DEF Ring
  <1>7. Ring(p)
    BY <1>1, <1>2, <1>3, <1>6, ZenonT(60) DEF Ring
  <1>8. Contents(p) = Append(Contents(r), v)
    <2> DEFINE s == Contents(p)
               t == Append(Contents(r), v)
    <2>1. /\ t \in Seq(Values) /\ Len(t) = r.used + 1
          /\ \A i \in 1..(r.used + 1) :
                t[i] = IF i = r.used + 1 THEN v ELSE r.buf[SlotOf(r, i)]
      BY RingContents, RingCounters, AppendProperties
    <2>2. /\ s \in Seq(Values) /\ Len(s) = r.used + 1
          /\ \A i \in 1..(r.used + 1) : s[i] = p.buf[SlotOf(p, i)]
      BY <1>1, <1>7, RingContents
    <2> HIDE DEF s, t
    <2>3. \A i \in 1..Len(s) : s[i] = t[i]
      BY <2>1, <2>2, <1>5, Zenon
    <2>4. s = t
      BY <2>1, <2>2, <2>3, SeqEqual, ZenonT(60)
    <2> QED BY <2>4, ZenonT(60) DEF s, t
  <1> QED
    BY <1>7, <1>8 DEF p

\* Taking the front element of a buffer that is not empty removes the oldest.
LEMMA PoppedRing ==
    ASSUME NEW r, Ring(r), r.used # 0
    PROVE  /\ Ring(Popped(r))
           /\ Contents(r) # <<>>
           /\ Contents(Popped(r)) = Tail(Contents(r))
           /\ Front(r) = {Head(Contents(r))}
           /\ Head(Contents(r)) \in Values
  <1> DEFINE p == Popped(r)
  <1>1. p = [size |-> r.size, max |-> r.max, used |-> r.used - 1,
             enq |-> r.enq, deq |-> Wrapped(r.deq + 1, r.max), buf |-> r.buf]
    BY ZenonT(60) DEF Popped
  <1> HIDE DEF p
  <1>2. /\ p.size \in Nat /\ p.used \in Nat /\ p.deq \in Nat
        /\ p.max \in Nat \ {0} /\ p.max = Slots(p.size)
        /\ p.used <= p.max /\ p.deq < p.max
        /\ p.enq = IF p.deq + p.used < p.max THEN p.deq + p.used
                                             ELSE p.deq + p.used - p.max
    BY <1>1, RingCounters DEF Wrapped
  <1>3. \A i \in 1..p.used : i + 1 \in 1..r.used /\ SlotOf(p, i) = SlotOf(r, i + 1)
    BY <1>1, RingCounters, SMTT(60) DEF SlotOf, Wrapped
  <1>4. Ring(p)
    BY <1>1, <1>2, <1>3, ZenonT(60) DEF Ring
  <1>5. Contents(r) # <<>>
    BY RingContents, RingCounters, Zenon
  <1>6. Head(Contents(r)) = r.buf[r.deq] /\ Head(Contents(r)) \in Values
    <2>1. 1 \in 1..r.used /\ SlotOf(r, 1) = r.deq
      BY RingCounters DEF SlotOf
    <2>2. Contents(r)[1] = r.buf[r.deq] /\ r.buf[r.deq] \in Values
      BY RingContents, <2>1, Zenon DEF Ring
    <2>3. Head(Contents(r)) = Contents(r)[1]
      <3>1. Contents(r) \in Seq(Values)
        BY RingContents, ZenonT(60)
      <3> QED BY <1>5, <3>1
    <2> QED BY <2>2, <2>3, ZenonT(60)
  <1>7. Front(r) = {Head(Contents(r))}
    BY <1>6 DEF Front, Ring
  <1>8. Contents(p) = Tail(Contents(r))
    <2> DEFINE s == Contents(p)
               t == Tail(Contents(r))
    <2>1. /\ t \in Seq(Values) /\ Len(t) = r.used - 1
          /\ \A i \in 1..(r.used - 1) : t[i] = r.buf[SlotOf(r, i + 1)]
      BY RingContents, RingCounters, <1>5, HeadTailProperties
    <2>2. /\ s \in Seq(Values) /\ Len(s) = r.used - 1
          /\ \A i \in 1..(r.used - 1) : s[i] = p.buf[SlotOf(p, i)]
      BY <1>1, <1>4, RingContents, SMTT(60)
    <2> HIDE DEF s, t
    <2>3. \A i \in 1..Len(s) : s[i] = t[i]
      BY <2>1, <2>2, <1>1, <1>3, SMTT(60)
    <2>4. s = t
      BY <2>1, <2>2, <2>3, SeqEqual, ZenonT(60)
    <2> QED BY <2>4, ZenonT(60) DEF s, t
  <1> QED
    BY <1>4, <1>5, <1>6, <1>7, <1>8, ZenonT(60) DEF p
------------------------------------------------------------------------------
(* One sender *)

\* One thread sends; with LocklessFifoJitChannelQueue, the caller's duty.
SingleSender == \A s, t \in Senders : s = t

\* The buffer that SendLocked appends to.
Prepared(s) == WithRoom(IF sending[s].first_call THEN Allocated(q) ELSE q)

\* The inductive invariant: the buffer is in order as soon as it is allocated,
\* and the only Send that can find it unallocated is the one that saw
\* channel_element_size_ at zero and will allocate it.
IInv ==
    /\ element_size_set \in BOOLEAN
    /\ \A s \in Senders :
          sending[s] = NotSending \/ \E b \in BOOLEAN, v \in Values :
                                  sending[s] = AtLock(b, v)
    /\ DOMAIN sending = Senders
    /\ result \in Values \cup {NoData}
    /\ Unallocated(q) \/ Ring(q)
    /\ ~element_size_set => Unallocated(q) /\ \A s \in Senders : sending[s] = NotSending
    /\ \A s \in Senders :
          sending[s] # NotSending => IF sending[s].first_call THEN Unallocated(q) ELSE Ring(q)
    /\ (element_size_set /\ \A s \in Senders : sending[s] = NotSending) => Ring(q)

\* An empty buffer has no elements, allocated or not.
LEMMA EmptyContents ==
    ASSUME NEW r, Unallocated(r) \/ Ring(r)
    PROVE  r.used \in Nat /\ (r.used = 0 <=> Contents(r) = <<>>)
  <1>1. CASE Unallocated(r)
    BY <1>1 DEF Unallocated, Contents
  <1>2. CASE Ring(r)
    BY <1>2, RingContents, RingCounters, SMTT(60)
  <1> QED BY <1>1, <1>2, ZenonT(60)

\* SendLocked appends to a buffer in order with room and the same elements.
LEMMA PreparedRing ==
    ASSUME IInv, NEW s \in Senders, sending[s] # NotSending
    PROVE  /\ Ring(Prepared(s))
           /\ Prepared(s).used < Prepared(s).max
           /\ Contents(Prepared(s)) = Contents(q)
           /\ sending[s].data \in Values
  <1>1. sending[s].first_call \in BOOLEAN /\ sending[s].data \in Values
    BY DEF IInv, AtLock
  <1> DEFINE r == IF sending[s].first_call THEN Allocated(q) ELSE q
  <1>2. Ring(r) /\ Contents(r) = Contents(q)
    BY <1>1, AllocatedRing, ZenonT(60) DEF IInv
  <1> HIDE DEF r
  <1>3. /\ Ring(WithRoom(r)) /\ WithRoom(r).used < WithRoom(r).max
        /\ Contents(WithRoom(r)) = Contents(r)
    BY <1>2, GrownRing, RingCounters DEF WithRoom
  <1> QED BY <1>1, <1>2, <1>3, ZenonT(60) DEF Prepared, r

\* Initially nothing is allocated and nobody is sending.
LEMMA InitIInv == Init => IInv
  <1> SUFFICES ASSUME Init PROVE IInv
    OBVIOUS
  <1>1. Unallocated(q)
    BY SizesAssumption DEF Init, Unallocated
  <1> QED BY <1>1, ZenonT(60) DEF Init, IInv

\* Every step of the queue, with one sender, keeps the invariant.
LEMMA NextIInv ==
    ASSUME SingleSender, IInv, [Next]_vars
    PROVE  IInv'
  <1>1. CASE UNCHANGED vars
    BY <1>1 DEF vars, IInv
  <1>2. CASE Recv
    <2>1. CASE q.used = 0
      BY <1>2, <2>1 DEF Recv, IInv
    <2>2. CASE q.used # 0
      <3>1. Ring(q) /\ q' = Popped(q) /\ result' \in Front(q)
            /\ UNCHANGED <<element_size_set, sending>>
        BY <1>2, <2>2, Zenon DEF Recv, IInv, Unallocated
      <3>2. Ring(q') /\ result' \in Values
        BY <2>2, <3>1, PoppedRing, Zenon
      <3>3. ~Unallocated(q)
        BY <3>1, <2>2, Zenon DEF Unallocated
      <3> QED BY <3>1, <3>2, <3>3, Zenon DEF IInv
    <2> QED BY <2>1, <2>2, ZenonT(60)
  <1>3. ASSUME NEW s \in Senders, NEW v \in Values, SendCheck(s, v)
        PROVE  IInv'
    <2>1. \A t \in Senders : t = s
      BY DEF SingleSender
    <2>2. /\ sending' = [sending EXCEPT ![s] = AtLock(~element_size_set, v)]
          /\ element_size_set' = TRUE /\ sending[s] = NotSending
          /\ UNCHANGED <<q, result>>
      BY <1>3 DEF SendCheck
    <2>3. /\ AtLock(~element_size_set, v).at # NotSending.at
          /\ AtLock(~element_size_set, v).first_call = ~element_size_set
      BY DEF AtLock, NotSending
    <2>4. element_size_set \in BOOLEAN
      BY Zenon DEF IInv
    <2> QED BY <2>1, <2>2, <2>3, <2>4, ZenonT(60) DEF IInv
  <1>4. ASSUME NEW s \in Senders, SendLocked(s)
        PROVE  IInv'
    <2>1. \A t \in Senders : t = s
      BY DEF SingleSender
    <2>2. /\ sending[s] # NotSending /\ q' = Pushed(Prepared(s), sending[s].data)
          /\ sending' = [sending EXCEPT ![s] = NotSending]
          /\ UNCHANGED <<element_size_set, result>>
      BY <1>4, Zenon DEF SendLocked, Prepared
    <2>3. Ring(q')
      BY <2>2, PreparedRing, PushedRing, ZenonT(60)
    <2>4. element_size_set
      BY <2>2 DEF IInv
    <2> QED BY <2>1, <2>2, <2>3, <2>4, ZenonT(60) DEF IInv
  <1> QED BY <1>1, <1>2, <1>3, <1>4, ZenonT(60) DEF Next

\* The invariant holds throughout, with one sender.
LEMMA SpecIInv ==
    ASSUME SingleSender
    PROVE  Spec => []IInv
  <1>1. IInv /\ [Next]_vars => IInv'
    BY NextIInv
  <1> QED BY InitIInv, <1>1, PTL DEF Spec

------------------------------------------------------------------------------
(* The results *)

\* With one sender every member keeps its type and the vector its length.
THEOREM TypeCorrect ==
    ASSUME SingleSender
    PROVE  Spec => []TypeOK
  <1>1. IInv => TypeOK
    <2> SUFFICES ASSUME IInv PROVE TypeOK
      BY Zenon
    <2>1. /\ {q.size, q.max, q.used, q.enq, q.deq} \subseteq Nat
          /\ q.buf \in [0..(Slots(q.size) - 1) -> Values \cup {Zero}]
      <3>1. CASE Unallocated(q)
        <4>1. Slots(q.size) = 0
          BY <3>1, SizesAssumption DEF Unallocated, Slots
        <4> QED BY <3>1, <4>1 DEF Unallocated
      <3>2. CASE Ring(q)
        <4>1. /\ q.size \in Nat /\ q.max \in Nat /\ q.used \in Nat
              /\ q.enq \in Nat /\ q.deq \in Nat
          BY <3>2, RingCounters, ZenonT(60)
        <4> QED BY <3>2, <4>1, Zenon DEF Ring
      <3> QED BY <3>1, <3>2, ZenonT(60) DEF IInv
    <2> QED BY <2>1 DEF IInv, TypeOK
  <1> QED BY <1>1, SpecIInv, PTL

\* With one sender the counters of the circular buffer always agree, whatever
\* the element size, the initial buffer size and the number of growth steps.
THEOREM IndicesAlwaysAgree ==
    ASSUME SingleSender
    PROVE  Spec => []IndicesAgree
  <1>1. IInv => IndicesAgree
    BY DEF IInv, IndicesAgree, Unallocated, Ring
  <1> QED BY <1>1, SpecIInv, PTL

\* With one sender Recv only returns what Send was given.
THEOREM OnlySentValuesReceived ==
    ASSUME SingleSender
    PROVE  Spec => []OnlySentValues
  <1>1. IInv => OnlySentValues
    BY DEF IInv, OnlySentValues
  <1> QED BY <1>1, SpecIInv, PTL

\* With one sender the circular buffer implements the unbounded FIFO channel:
\* SendLocked is a Send, Recv is a Recv, and SendCheck changes nothing.
THEOREM QueueImplementsFifo ==
    ASSUME SingleSender
    PROVE  Spec => ImplementsFifo
  <1>1. Init => Channel!Init
    <2> SUFFICES ASSUME Init PROVE Channel!Init
      BY ZenonT(60)
    <2>1. q.used = 0 /\ (Unallocated(q) \/ Ring(q))
      BY InitIInv DEF Init, IInv
    <2> QED BY <2>1, EmptyContents DEF Init, Channel!Init
  <1>2. IInv /\ [Next]_vars => [Channel!Next]_(Channel!vars)
    <2> SUFFICES ASSUME IInv, [Next]_vars
                 PROVE  Channel!Next \/ UNCHANGED Channel!vars
      OBVIOUS
    <2>1. CASE UNCHANGED vars
      BY <2>1 DEF vars, Channel!vars, Contents
    <2>2. CASE Recv
      <3>1. CASE q.used = 0
        <4>1. Contents(q) = <<>>
          BY <3>1, EmptyContents, Zenon DEF IInv
        <4> QED BY <2>2, <3>1, <4>1, Zenon DEF Recv, Channel!Next, Channel!Recv
      <3>2. CASE q.used # 0
        <4>1. Ring(q)
          BY <3>2 DEF IInv, Unallocated
        <4> QED
          BY <2>2, <3>2, <4>1, PoppedRing, ZenonT(60) DEF Recv, Channel!Next, Channel!Recv
      <3> QED BY <3>1, <3>2
    <2>3. ASSUME NEW s \in Senders, NEW v \in Values, SendCheck(s, v)
          PROVE  UNCHANGED Channel!vars
      BY <2>3, Zenon DEF SendCheck, Channel!vars
    <2>4. ASSUME NEW s \in Senders, SendLocked(s)
          PROVE  Channel!Next
      <3>1. /\ sending[s] # NotSending /\ UNCHANGED result
            /\ q' = Pushed(Prepared(s), sending[s].data)
        BY <2>4, Zenon DEF SendLocked, Prepared
      <3>2. Contents(q') = Append(Contents(q), sending[s].data)
        BY <3>1, PreparedRing, PushedRing, ZenonT(60)
      <3> QED
        BY <3>1, <3>2, PreparedRing, Zenon DEF Channel!Next, Channel!Send
    <2> QED BY <2>1, <2>2, <2>3, <2>4, ZenonT(60) DEF Next
  <1> QED
    BY <1>1, <1>2, SpecIInv, PTL DEF Spec, ImplementsFifo, Channel!Spec

------------------------------------------------------------------------------
(* The I/O wrapper *)

\* A computing device holds both of its neighbours still, whatever the host, the
\* sink and the UARTs do.  This is inductive: a start needs both neighbours in
\* place, neither moves until the device acknowledges it in Done, and a reset
\* takes all three back together.
LEMMA StartsHeld == IoInit => OutputReadyHeld
BY DEF IoInit, WrapIoInit, ComputeInit, OutputReadyHeld, IsFixed

\* A clock cycle of the wrapper keeps them so, whatever is at its byte ports.
LEMMA CycleHolds ==
    ASSUME NEW b, NEW v, NEW r, OutputReadyHeld, IoWrapperCycle(b, v, r)
    PROVE  OutputReadyHeld'
<1> SUFFICES ASSUME IsFixed', compute'.state # "Idle"
             PROVE  output'.state = "Idle" /\ input'.state = "DataDone"
    BY DEF OutputReadyHeld, flat_output_ready, flat_input_valid
<1>1. IsFixed
    BY Zenon DEF IoWrapperCycle, IsFixed
<1>2. compute' = FixedLatencyNext
    BY <1>1 DEF IoWrapperCycle, ComputeNext
<1> DEFINE start ==
        compute.state = "Idle" /\ flat_input_valid /\ flat_output_ready
<1>3. compute'.state = CASE ~rst_n \/ compute.state = "Done" -> "Idle"
          [] rst_n /\ start -> "Computing"
          [] rst_n /\ compute.state = "Computing" /\ compute.cycle_counter = 0
                -> "Done"
          [] OTHER -> compute.state
    BY <1>2, Zenon DEF FixedLatencyNext, FixedLatencyStep
<1>4. rst_n /\ compute.state # "Done" /\ (start \/ compute.state # "Idle")
    BY <1>3, Zenon
<1>5. flat_output_ready /\ flat_input_valid
    BY <1>1, <1>4, Zenon DEF OutputReadyHeld
<1>6. ~flat_input_ready /\ ~flat_output_valid
    BY <1>1, <1>4, Zenon DEF flat_input_ready, flat_output_valid
<1>7. input'.state = RxFsmNext(v, flat_input_ready)
    BY <1>4 DEF IoWrapperCycle, InputControllerNext
<1>8. RxFsmNext(v, flat_input_ready) = "DataDone"
    <2>1. input.state = "DataDone"
        BY <1>5 DEF flat_input_valid
    <2> QED
        BY <2>1, <1>6, Zenon DEF RxFsmNext
<1>9. output'.state = OutputFsmNext(r)
    BY <1>4 DEF IoWrapperCycle, OutputControllerNext, OutputStep
<1>10. OutputFsmNext(r) = "Idle"
    <2>1. output.state = "Idle"
        BY <1>5 DEF flat_output_ready
    <2> QED
        BY <2>1, <1>6, Zenon DEF OutputFsmNext
<1> QED
    BY <1>7, <1>8, <1>9, <1>10, ZenonT(60)

\* The fixed-latency state machine may rely on the output's ready for the whole
\* of a computation, as the comment in InstantiateFixedLatencyDeviceFunction
\* says it does.
THEOREM OutputReadyHeldAlways == IoSpec => []OutputReadyHeld
<1>1. OutputReadyHeld /\ [IoNext]_ioVars => OutputReadyHeld'
    <2> SUFFICES ASSUME OutputReadyHeld, [IoNext]_ioVars
                 PROVE  OutputReadyHeld'
        OBVIOUS
    <2>1. CASE Ice40Cycle
        BY <2>1, CycleHolds, Zenon DEF Ice40Cycle
    <2>2. ASSUME NEW ready \in BOOLEAN, NullCycle(ready)
          PROVE  OutputReadyHeld'
        BY <2>2, CycleHolds, Zenon DEF NullCycle
    <2>3. CASE UNCHANGED ioVars
        BY <2>3
           DEF ioVars, wrapVars, OutputReadyHeld, IsFixed, flat_output_ready,
                    flat_input_valid
    <2> QED
        BY <2>1, <2>2, <2>3, ZenonT(60) DEF IoNext
<1> QED
    BY <1>1, StartsHeld, PTL DEF IoSpec
==============================================================================
