------------------------------- MODULE WrapIo -------------------------------
(***************************************************************************)
(* The hardware WrapIo (xls/tools/wrap_io.cc) builds around a device       *)
(* function: the input resetter, the input controller with its shift       *)
(* register and escape decoder, the device function behind its interface,  *)
(* and the output controller.  Bytes of a request arrive most significant  *)
(* first, are decoded and shifted into flat_input; when it is complete the *)
(* device function computes flat_output, whose bytes leave least           *)
(* significant first.                                                      *)
(*                                                                         *)
(* Every variable is a register or a group of registers; the operators     *)
(* named like the code's wires are the values the wires have during the    *)
(* cycle, and IoWrapperCycle is the clock edge that ends it.               *)
(***************************************************************************)
EXTENDS SequentialModule

CONSTANTS InputBits,        \* signature.TotalDataInputBits()
          OutputBits,       \* signature.TotalDataOutputBits()
          Compute(_)        \* the function of a fixed-latency device

ASSUME WidthAssumption == InputBits \in Nat \ {0} /\ OutputBits \in Nat \ {0}

kReset  == 254              \* IoControlCode
kEscape == 255
kResetByte  == 0            \* IoEscapeCode
kEscapeByte == 255

n_bytes      == (InputBits + 7) \div 8
output_bytes == (OutputBits + 7) \div 8

VARIABLES device,           \* the signature of the device function: constant
          resetter,         \* state of the reset FSM of the input resetter
          input,            \* input controller: rx FSM, is_escaped, shifter
          compute,          \* the device function and the FSM in front of it
          output            \* output controller: FSM, shift register, counter

wrapVars == <<device, resetter, input, compute, output>>

----------------------------------------------------------------------------
(***************************************************************************)
(* Input resetter.  rst_n_in is tied to 1 by WrapIo, so rst_n is low only  *)
(* in the cycle after a reset control code is seen.                        *)
(***************************************************************************)
rst_n == resetter # "Reset"

\* Fault: the reset code waits for the receive FSM to be idle.
InputResetNextWhenIdle(byte_in, byte_in_valid) ==
    IF /\ resetter = "Idle" /\ byte_in_valid /\ byte_in = kReset
       /\ input.state = "Idle"
    THEN "Reset" ELSE "Idle"

InputResetNext(byte_in, byte_in_valid) ==
    IF resetter = "Idle" /\ byte_in_valid /\ byte_in = kReset
    THEN "Reset" ELSE "Idle"

----------------------------------------------------------------------------
(***************************************************************************)
(* Input controller.                                                       *)
(***************************************************************************)
\* The registers of the shifter have no initial value; Init clears the counter.
InputInit == [state |-> "Init", is_escaped |-> FALSE, data |-> 0,
              byte_countdown |-> 0]

shifter_done     == input.byte_countdown = 0
flat_input       == input.data
flat_input_valid == input.state = "DataDone"

\* byte_in_ready of the input controller: its own or the resetter's.
byte_in_ready == input.state = "InputValid" \/ resetter = "Reset"

\* The escaped escape byte is compared with kResetByte in the code as well;
\* an escaped kEscapeByte is passed through, which is the value kEscape.
EscapeDecoder(byte_in, is_escaped) ==
    IF is_escaped /\ byte_in = kResetByte THEN kReset ELSE byte_in

IsEscape(byte_in) == ~input.is_escaped /\ byte_in = kEscape

shifter_write_en(byte_in) == input.state = "InputValid" /\ ~IsEscape(byte_in)

ByteCountdownNext(byte_in) ==
    IF input.state = "Init" THEN n_bytes
    ELSE IF shifter_write_en(byte_in)
    THEN (input.byte_countdown - 1) % 2^MinBitCountUnsigned(n_bytes)
    ELSE input.byte_countdown

\* While the shifter is cleared data_next is a latch, which holds data (after a
\* reset in the middle of a write, possibly one more shift of it: either way the
\* n_bytes writes of the next request push all of it out).
DataNext(byte_in) ==
    IF shifter_write_en(byte_in)
    THEN (input.data * 256 + EscapeDecoder(byte_in, input.is_escaped))
         % 2^InputBits
    ELSE input.data

RxFsmNext(byte_in_valid, data_out_ready) ==
    CASE input.state = "Init"                          -> "Idle"
      [] input.state = "Idle" /\ shifter_done          -> "DataDone"
      [] input.state = "Idle" /\ ~shifter_done /\ byte_in_valid
                                                       -> "InputValid"
      [] input.state = "InputValid"                    -> "Idle"
      [] input.state = "DataDone" /\ data_out_ready    -> "Init"
      [] OTHER                                         -> input.state

\* Fault: is_escaped has no reset value.
InputControllerNextKeepsEscape(byte_in, byte_in_valid, data_out_ready) ==
    [state |-> IF rst_n THEN RxFsmNext(byte_in_valid, data_out_ready) ELSE "Init",
     is_escaped |-> IF rst_n /\ input.state = "InputValid" THEN IsEscape(byte_in)
                    ELSE input.is_escaped,
     data |-> DataNext(byte_in),
     byte_countdown |-> ByteCountdownNext(byte_in)]

InputControllerNext(byte_in, byte_in_valid, data_out_ready) ==
    [state |-> IF rst_n THEN RxFsmNext(byte_in_valid, data_out_ready) ELSE "Init",
     is_escaped |-> /\ rst_n
                    /\ IF input.state = "InputValid" THEN IsEscape(byte_in)
                       ELSE input.is_escaped,
     data |-> DataNext(byte_in),
     byte_countdown |-> ByteCountdownNext(byte_in)]

----------------------------------------------------------------------------
(***************************************************************************)
(* The device function.  A fixed-latency one sits behind the state machine *)
(* of InstantiateFixedLatencyDeviceFunction, which waits for a request and *)
(* a ready output, counts its latency and then acknowledges both sides in  *)
(* one cycle; pipe is what entered the device in the last latency cycles.  *)
(* A ready/valid one is connected directly: here the sequential module.    *)
(***************************************************************************)
IsFixed == device.interface = "fixed_latency"

ComputeInit(d) ==
    IF d.interface = "fixed_latency"
    THEN [state |-> "Idle", cycle_counter |-> 0,
          pipe |-> [i \in 1..d.latency |-> 0]]
    ELSE SequentialInit(d)

flat_output_ready == output.state = "Idle"

flat_input_ready ==
    IF IsFixed THEN compute.state = "Done" ELSE ready_in(compute)

flat_output_valid ==
    IF IsFixed THEN compute.state = "Done" ELSE valid_out(compute)

flat_output ==
    IF IsFixed THEN Compute(compute.pipe[device.latency]) ELSE compute.accumulator

cycle_counter_width ==
    LET bits == MinBitCountUnsigned(device.latency - 1)
    IN  IF bits = 0 THEN 1 ELSE bits

\* One cycle of the state machine, with the condition for starting.
FixedLatencyStep(start) ==
    [state |->
        CASE ~rst_n \/ compute.state = "Done"                    -> "Idle"
          [] rst_n /\ start                                      -> "Computing"
          [] rst_n /\ compute.state = "Computing" /\ compute.cycle_counter = 0
                                                                 -> "Done"
          [] OTHER                                               -> compute.state,
     cycle_counter |->
        IF ~rst_n THEN compute.cycle_counter
        ELSE IF start THEN device.latency - 1
        ELSE (compute.cycle_counter - 1) % 2^cycle_counter_width,
     pipe |-> [i \in 1..device.latency |->
                 IF i = 1 THEN flat_input ELSE compute.pipe[i - 1]]]

\* Fault: the computation starts without looking at the output's ready.
FixedLatencyNextEager ==
    FixedLatencyStep(compute.state = "Idle" /\ flat_input_valid)

FixedLatencyNext ==
    FixedLatencyStep(compute.state = "Idle" /\ flat_input_valid /\ flat_output_ready)

ComputeNext ==
    IF IsFixed THEN FixedLatencyNext
    ELSE SequentialNext(device, compute, rst_n, flat_input_valid, flat_input,
                        flat_output_ready)

----------------------------------------------------------------------------
(***************************************************************************)
(* Output controller.                                                      *)
(***************************************************************************)
OutputInit == [state |-> "Idle", shift_out_reg |-> 0, byte_counter |-> 0]

byte_out == output.shift_out_reg % 256
byte_out_valid == \/ output.state = "Valid"
                  \/ output.state = "Shifting" /\ output.byte_counter # 0

OutputFsmNext(byte_out_ready) ==
    CASE output.state = "Idle" /\ flat_output_valid              -> "Shifting"
      [] output.state = "Shifting" /\ output.byte_counter = 0    -> "Idle"
      [] output.state = "Shifting" /\ output.byte_counter # 0    -> "Valid"
      [] output.state = "Valid" /\ byte_out_ready                -> "HoldingData"
      [] output.state = "HoldingData"                            -> "Shifting"
      [] OTHER                                                   -> output.state

OutputStep(byte_out_ready) ==
    [state |-> OutputFsmNext(byte_out_ready),
     shift_out_reg |->
       CASE output.state = "Idle" /\ flat_output_valid -> flat_output
         [] output.state = "HoldingData"  -> output.shift_out_reg \div 256
         [] OTHER                         -> output.shift_out_reg,
     byte_counter |->
       CASE output.state = "Idle" /\ flat_output_valid -> output_bytes
         [] output.state = "HoldingData"  -> output.byte_counter - 1
         [] OTHER                         -> output.byte_counter]

\* Fault: the output controller is not reset.
OutputControllerNextUnreset(byte_out_ready) == OutputStep(byte_out_ready)

\* A reset sets the state alone; the two registers keep their values.
OutputControllerNext(byte_out_ready) ==
    IF rst_n THEN OutputStep(byte_out_ready)
    ELSE [output EXCEPT !.state = "Idle"]

----------------------------------------------------------------------------
WrapIoInit(d) ==
    /\ device = d
    /\ resetter = "Idle"
    /\ input = InputInit
    /\ compute = ComputeInit(d)
    /\ output = OutputInit

\* One clock cycle of the wrapper.
IoWrapperCycle(byte_in, byte_in_valid, byte_out_ready) ==
    /\ resetter' = InputResetNext(byte_in, byte_in_valid)
    /\ input' = InputControllerNext(byte_in, byte_in_valid, flat_input_ready)
    /\ compute' = ComputeNext
    /\ output' = OutputControllerNext(byte_out_ready)
    /\ UNCHANGED device
=============================================================================
