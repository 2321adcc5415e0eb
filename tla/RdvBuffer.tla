----------------------------- MODULE RdvBuffer -----------------------------
(***************************************************************************)
(* The buffers that block conversion puts between a streaming port and the *)
(* pipeline (codegen/block_conversion.cc).  Each is inserted on a data,    *)
(* valid and ready triple: "from" is the side that offers data, "to" the   *)
(* side that takes it.                                                     *)
(*                                                                         *)
(*   none          no buffer                                               *)
(*   flop          AddRegisterToRDVNodes                                   *)
(*   skid          AddSkidBufferToRDVNodes                                 *)
(*   zero_latency  AddZeroLatencyBufferToRDVNodes                          *)
(*                                                                         *)
(* A buffer is a record of its registers.  The signals are combinational   *)
(* functions of the registers and the ports; ClockBuffer gives the         *)
(* registers after a clock edge.                                           *)
(***************************************************************************)
EXTENDS Naturals, Sequences

IOKind == {"none", "flop", "skid", "zero_latency"}

Buffer(Data) ==
  [valid : BOOLEAN, data : Data, skid_valid : BOOLEAN, skid : Data]

(* Registers are reset to zero; zero is the zero value of the data type.   *)
ResetBuffer(zero) ==
  [valid |-> FALSE, data |-> zero, skid_valid |-> FALSE, skid |-> zero]

(* The valid signal seen by the side that takes the data.                  *)
ToValid(kind, b, from_valid) ==
  CASE kind = "none"         -> from_valid
    [] kind = "flop"         -> b.valid
    [] kind = "skid"         -> b.valid \/ b.skid_valid
    [] kind = "zero_latency" -> from_valid \/ b.skid_valid

(* The data seen by the side that takes it: the skid register comes first. *)
ToData(kind, b, from_data) ==
  CASE kind = "none"         -> from_data
    [] kind = "flop"         -> b.data
    [] kind = "skid"         -> IF b.skid_valid THEN b.skid ELSE b.data
    [] kind = "zero_latency" -> IF b.skid_valid THEN b.skid ELSE from_data

(* The ready signal seen by the side that offers the data.                 *)
FromReady(kind, b, from_valid, to_is_ready) ==
  CASE kind = "none"         -> to_is_ready
    [] kind = "flop"         -> from_valid /\ (to_is_ready \/ ~b.valid)
    [] kind = "skid"         -> ~b.skid_valid
    [] kind = "zero_latency" -> ~b.skid_valid

(* The skid register is loaded when an item comes in that cannot go on.    *)
SkidLoad(kind, b, from_valid, to_is_ready) ==
  /\ kind \in {"skid", "zero_latency"}
  /\ from_valid /\ ~b.skid_valid /\ ~to_is_ready
  /\ kind = "skid" => b.valid

ClockFlop(b, from_valid, from_data, to_is_ready) ==
  LET valid_load_en == to_is_ready \/ ~b.valid
  IN  [b EXCEPT !.valid = IF valid_load_en THEN from_valid ELSE @,
                !.data  = IF from_valid /\ valid_load_en
                          THEN from_data ELSE @]

(* Both skid kinds toggle the skid valid bit: it is set when the skid      *)
(* register is loaded, cleared when its item is taken.                     *)
ClockSkidRegister(kind, b, from_valid, stored, to_is_ready) ==
  LET load == SkidLoad(kind, b, from_valid, to_is_ready)
  IN  [b EXCEPT
         !.skid       = IF load THEN stored ELSE @,
         !.skid_valid = IF load \/ (@ /\ to_is_ready) THEN ~@ ELSE @]

ClockSkidBuffer(b, from_valid, from_data, to_is_ready) ==
  LET input_read == from_valid /\ ~b.skid_valid
      data_is_sent_to == b.valid /\ to_is_ready /\ ~b.skid_valid
      skidded ==
        ClockSkidRegister("skid", b, from_valid, b.data, to_is_ready)
  IN  [skidded EXCEPT
         !.data  = IF input_read THEN from_data ELSE @,
         !.valid = IF data_is_sent_to \/ input_read THEN from_valid ELSE @]

ClockBuffer(kind, b, from_valid, from_data, to_is_ready) ==
  CASE kind = "none" -> b
    [] kind = "flop" -> ClockFlop(b, from_valid, from_data, to_is_ready)
    [] kind = "skid" -> ClockSkidBuffer(b, from_valid, from_data, to_is_ready)
    [] kind = "zero_latency" ->
         ClockSkidRegister(kind, b, from_valid, from_data, to_is_ready)

(* The items a buffer holds, oldest first.                                 *)
Items(b) ==
  (IF b.skid_valid THEN <<b.skid>> ELSE <<>>)
    \o (IF b.valid THEN <<b.data>> ELSE <<>>)

(* The registers a kind of buffer has: the others stay at zero.            *)
WellFormed(kind, b) ==
  /\ kind \in {"none", "zero_latency"} => ~b.valid
  /\ kind \in {"none", "flop"} => ~b.skid_valid
  /\ b.skid_valid /\ kind = "skid" => b.valid

(***************************************************************************)
(* One clock cycle is a step of a queue: the item offered is appended when *)
(* the buffer is ready for it, and the item shown is removed when the      *)
(* taker is ready.  An item may pass through in the same cycle.            *)
(***************************************************************************)
CycleIsQueueStep(kind, b, from_valid, from_data, to_is_ready) ==
  LET accepted == from_valid /\ FromReady(kind, b, from_valid, to_is_ready)
      taken    == ToValid(kind, b, from_valid) /\ to_is_ready
      next     == ClockBuffer(kind, b, from_valid, from_data, to_is_ready)
      queue    == Items(b) \o (IF accepted THEN <<from_data>> ELSE <<>>)
  IN  /\ taken => /\ queue # <<>>
                  /\ Head(queue) = ToData(kind, b, from_data)
      /\ Items(next) = IF taken THEN Tail(queue) ELSE queue
============================================================================
