------------------------------- MODULE Uart -------------------------------
(***************************************************************************)
(* The two hand-written UARTs of xls/uncore_rtl/ice40, uart_transmitter.v  *)
(* and uart_receiver.v, as functions from the registers and the inputs of  *)
(* one clock cycle to the registers of the next.  A frame is one start bit *)
(* (0), eight data bits, least significant first, and one stop bit (1),    *)
(* each held for ClocksPerBaud cycles.  The modules that compose a UART    *)
(* with its users declare the registers as variables.                      *)
(*                                                                         *)
(* One-bit wires with a logical meaning (valid, done, rst_n) are Booleans; *)
(* the serial lines are 0 or 1.                                            *)
(***************************************************************************)
EXTENDS Integers

CONSTANT ClocksPerBaud      \* clock ticks in the time of one bit

\* The receiver samples a bit at three quarters, so a baud has four of them.
ASSUME ClocksPerBaudAssumption == ClocksPerBaud \in Nat /\ ClocksPerBaud >= 4

Byte == 0..255
Bit(byte, i) == (byte \div 2^i) % 2

----------------------------------------------------------------------------
(***************************************************************************)
(* The transmitter.                                                        *)
(***************************************************************************)
\* Power-on values and the values under reset are the same.
TransmitterReset ==
    [tx |-> 1, tx_byte_done |-> TRUE, tx_state |-> "Idle",
     tx_countdown |-> 0, tx_bitno |-> 0]

TxIdle(t, tx_byte_valid) ==
    [tx |-> 1, tx_byte_done |-> ~tx_byte_valid,
     tx_state |-> IF tx_byte_valid \/ ~t.tx_byte_done THEN "Start" ELSE "Idle",
     tx_countdown |-> ClocksPerBaud - 1, tx_bitno |-> 0]

TxCountdown(t) ==
    IF t.tx_countdown = 0 THEN ClocksPerBaud - 1 ELSE t.tx_countdown - 1

TxStart(t) ==
    [tx |-> 0, tx_byte_done |-> FALSE,
     tx_state |-> IF t.tx_countdown = 0 THEN "Frame" ELSE "Start",
     tx_countdown |-> TxCountdown(t), tx_bitno |-> 0]

TxFrame(t, tx_byte) ==
    LET last == t.tx_countdown = 0 /\ t.tx_bitno = 7 IN
    [tx |-> Bit(tx_byte, t.tx_bitno), tx_byte_done |-> last,
     tx_state |-> IF last THEN "Stop" ELSE "Frame",
     tx_countdown |-> TxCountdown(t),
     tx_bitno |-> IF t.tx_countdown = 0 THEN (t.tx_bitno + 1) % 8
                  ELSE t.tx_bitno]

\* A byte presented during the stop bit is remembered by a false tx_byte_done
\* and sent straight after it.
TxStop(t, tx_byte_valid) ==
    [tx |-> 1, tx_byte_done |-> t.tx_byte_done /\ ~tx_byte_valid,
     tx_state |-> IF t.tx_countdown # 0 THEN "Stop"
                  ELSE IF t.tx_byte_done THEN "Idle" ELSE "Start",
     tx_countdown |-> TxCountdown(t), tx_bitno |-> t.tx_bitno]

TransmitterNext(t, rst_n, tx_byte, tx_byte_valid) ==
    CASE ~rst_n                           -> TransmitterReset
      [] rst_n /\ t.tx_state = "Idle"     -> TxIdle(t, tx_byte_valid)
      [] rst_n /\ t.tx_state = "Start"    -> TxStart(t)
      [] rst_n /\ t.tx_state = "Frame"    -> TxFrame(t, tx_byte)
      [] rst_n /\ t.tx_state = "Stop"     -> TxStop(t, tx_byte_valid)

----------------------------------------------------------------------------
(***************************************************************************)
(* The receiver.                                                           *)
(***************************************************************************)
RxErrors == {"InconsistentError", "ClobberError", "StopBitError"}

QuarterBaud == ClocksPerBaud \div 4

ReceiverReset ==
    [state |-> "Idle", samples |-> [i \in 0..2 |-> 0], sample_count |-> 0,
     data_bitno |-> 0, rx_countdown |-> 0, rx_byte |-> 0,
     rx_byte_valid |-> FALSE]

\* All three samples of the bit agree.
samples_consistent(r) == \A i, j \in 0..2 : r.samples[i] = r.samples[j]

ready_to_transition(r) == r.rx_countdown = 0 /\ r.sample_count = 3

\* Fault: clear to send while a byte is waiting.
clear_to_send_outEarly(r, rx) == r.state \in {"Idle", "Stop"} /\ rx = 1

clear_to_send_out(r, rx) ==
    r.state \in {"Idle", "Stop"} /\ ~r.rx_byte_valid /\ rx = 1

RxIdle(r, rx, rx_byte_done) ==
    [r EXCEPT !.state = IF rx = 1 THEN "Idle"
                        ELSE IF r.rx_byte_valid THEN "ClobberError" ELSE "Start",
              !.samples = [i \in 0..2 |-> 0], !.sample_count = 0,
              !.rx_countdown = QuarterBaud - 1, !.data_bitno = 0,
              !.rx_byte_valid = @ /\ ~rx_byte_done]

\* One cycle of the countdown to the next sampling point.  The fourth point of
\* a baud is its end: it writes no sample, and the two-bit count wraps.
Sample(r, rx) ==
    IF r.rx_countdown # 0
    THEN [r EXCEPT !.rx_countdown = @ - 1]
    ELSE [r EXCEPT !.rx_countdown = QuarterBaud - 1,
                   !.samples = [i \in 0..2 |->
                       IF i = r.sample_count THEN rx ELSE r.samples[i]],
                   !.sample_count = (@ + 1) % 4]

RxStart(r, rx) ==
    [Sample(r, rx) EXCEPT
        !.state = IF ~ready_to_transition(r) THEN "Start"
                  ELSE IF samples_consistent(r) THEN "Data"
                  ELSE "InconsistentError",
        !.rx_byte = 0, !.data_bitno = 0]

\* The sampled bit is shifted in from the top.
RxData(r, rx) ==
    IF ~ready_to_transition(r) THEN Sample(r, rx)
    ELSE [Sample(r, rx) EXCEPT
            !.state = IF ~samples_consistent(r) THEN "InconsistentError"
                      ELSE IF r.data_bitno = 7 THEN "Stop" ELSE "Data",
            !.rx_byte = 128 * r.samples[0] + r.rx_byte \div 2,
            !.rx_byte_valid = r.data_bitno = 7 /\ samples_consistent(r),
            !.data_bitno = (r.data_bitno + 1) % 8]

RxStop(r, rx, rx_byte_done) ==
    [Sample(r, rx) EXCEPT
        !.state = IF ~ready_to_transition(r) THEN "Stop"
                  ELSE IF \E i \in 0..2 : r.samples[i] = 0 THEN "StopBitError"
                  ELSE IF rx = 0 THEN "Start" ELSE "Idle",
        !.rx_byte_valid = r.rx_byte_valid /\ ~rx_byte_done,
        !.data_bitno = 0]

\* The receiver stays in an error state until it is reset.
RxError(r) == [r EXCEPT !.rx_byte = 255, !.rx_byte_valid = FALSE]

ReceiverNext(r, rst_n, rx, rx_byte_done) ==
    CASE ~rst_n                          -> ReceiverReset
      [] rst_n /\ r.state = "Idle"       -> RxIdle(r, rx, rx_byte_done)
      [] rst_n /\ r.state = "Start"      -> RxStart(r, rx)
      [] rst_n /\ r.state = "Data"       -> RxData(r, rx)
      [] rst_n /\ r.state = "Stop"       -> RxStop(r, rx, rx_byte_done)
      [] rst_n /\ r.state \in RxErrors   -> RxError(r)
=============================================================================
