------------------------------ MODULE IoSystem ------------------------------
(***************************************************************************)
(* The wrapped device function with its two ends, in either IO strategy of *)
(* xls/tools.  With the null strategy the byte ports of the wrapper are    *)
(* its ports: a source holds a byte until it is taken, a sink takes bytes  *)
(* when it likes.  With the ICE40 strategy the ports are two UARTs, and    *)
(* the host at the other end of the serial lines starts a byte only while  *)
(* clear_to_send is up.  The host is not in the repository; it is modelled *)
(* with the same two UARTs, on the same clock.                             *)
(*                                                                         *)
(* The model also keeps what the protocol says must come out: `expect'     *)
(* decodes the bytes the wrapper takes, by the meaning of the control      *)
(* codes, into the requests it owes the device function and the bytes it   *)
(* owes the host.                                                          *)
(***************************************************************************)
EXTENDS WrapIo, Uart

CONSTANTS Strategies,       \* a subset of {"null", "ice40"}
          Devices,          \* the signatures of the device functions
          Bytes,            \* the bytes a host sends
          MaxBytes          \* how many it sends with each strategy: a bound

ASSUME SystemAssumption ==
    /\ Strategies \subseteq {"null", "ice40"}
    /\ \A d \in Devices :
          \/ d.interface = "fixed_latency" /\ d.latency \in Nat \ {0}
          \/ /\ d.interface = "ready_valid" /\ d.latency \in Nat
             /\ d.stride \in Nat \ {0} /\ d.trip_count \in Nat \ {0, 1}
    /\ Bytes \subseteq Byte
    /\ MaxBytes \in [Strategies -> Nat]

VARIABLES strategy,         \* the IO strategy the wrapper was built with
          rx, tx,           \* uart_receiver and uart_transmitter of the wrapper
          host_tx, host_rx, \* the UARTs of the host
          host,             \* the byte the host presents, and how many are left
          seen,             \* byte_out_valid was up in the last cycle
          expect            \* what the protocol says must come out

envVars == <<strategy, rx, tx, host_tx, host_rx, host, seen, expect>>
ioVars == <<wrapVars, envVars>>

IsNull == strategy = "null"

----------------------------------------------------------------------------
(***************************************************************************)
(* The wires AddTopLevelDependencies and InstantiateIoBlocks connect.      *)
(***************************************************************************)
byte_in        == IF IsNull THEN host.byte ELSE rx.rx_byte
byte_in_valid  == IF IsNull THEN host.valid ELSE rx.rx_byte_valid
clear_to_send  == clear_to_send_out(rx, host_tx.tx)

----------------------------------------------------------------------------
(***************************************************************************)
(* What must come out.  sent are the bytes the host has sent and the       *)
(* wrapper has not taken, bytes the decoded bytes of an incomplete         *)
(* request, owed the complete requests the device function has not         *)
(* accepted, replies the bytes of its answers the host has not received.   *)
(***************************************************************************)
ExpectNothing ==
    [sent |-> <<>>, escaped |-> FALSE, bytes |-> <<>>, owed |-> <<>>,
     replies |-> <<>>]

Drop(s) == IF s = <<>> THEN s ELSE Tail(s)

\* The value of an escaped byte: a code stands for the control byte it escapes.
Unescape(b) == CASE b = kResetByte  -> kReset
                 [] b = kEscapeByte -> kEscape
                 [] OTHER           -> b

\* The number that bytes, most significant first, represent in InputBits bits.
RequestOf(bytes) ==
    LET value[n \in 0..Len(bytes)] ==
            IF n = 0 THEN 0 ELSE 256 * value[n - 1] + bytes[n]
    IN  value[Len(bytes)] % 2^InputBits

ResultOf(request) ==
    IF IsFixed THEN Compute(request) ELSE LoopResult(device, request)

ReplyBytes(result) ==
    [i \in 1..output_bytes |-> (result \div 2^(8 * (i - 1))) % 256]

DecodeByte(e, b) ==
    IF ~e.escaped /\ b = kEscape THEN [e EXCEPT !.escaped = TRUE]
    ELSE LET bytes == Append(e.bytes, IF e.escaped THEN Unescape(b) ELSE b) IN
         [e EXCEPT !.escaped = FALSE,
                   !.bytes = IF Len(bytes) = n_bytes THEN <<>> ELSE bytes,
                   !.owed = IF Len(bytes) = n_bytes
                            THEN Append(@, RequestOf(bytes)) ELSE @]

TakeByte(e) ==
    IF ~byte_in_ready THEN e
    ELSE [(IF rst_n THEN DecodeByte(e, Head(e.sent)) ELSE e)
            EXCEPT !.sent = Tail(@)]

TakeRequest(e) ==
    IF flat_input_valid /\ flat_input_ready /\ e.owed # <<>>
    THEN [e EXCEPT !.owed = Tail(@),
                   !.replies = @ \o ReplyBytes(ResultOf(Head(e.owed)))]
    ELSE e

\* One cycle in which the wrapper takes a byte or not, the host receives the
\* first reply byte or not (received), and sends the bytes of new (at most one).
\* A reset drops everything the wrapper has taken.
ExpectNext(received, new) ==
    LET after == TakeByte(TakeRequest(
                    IF received THEN [expect EXCEPT !.replies = Drop(@)] ELSE expect))
        all   == [after EXCEPT !.sent = @ \o new]
    IN  expect' = IF rst_n THEN all ELSE [ExpectNothing EXCEPT !.sent = all.sent]

----------------------------------------------------------------------------
IoInit ==
    /\ strategy \in Strategies
    /\ \E d \in Devices : WrapIoInit(d)
    /\ rx = ReceiverReset /\ host_rx = ReceiverReset
    /\ tx = TransmitterReset /\ host_tx = TransmitterReset
    /\ host = [byte |-> 0, valid |-> FALSE, left |-> MaxBytes[strategy]]
    /\ seen = FALSE
    /\ expect = ExpectNothing

Present(b) == [byte |-> b, valid |-> TRUE, left |-> host.left - 1]

\* Null strategy: the source may offer its next byte once the last is taken.
\* The sink sees a byte that was already valid in the cycle before, and takes
\* it by raising byte_out_ready.
NullCycle(byte_out_ready) ==
    /\ strategy = "null"
    /\ IoWrapperCycle(byte_in, byte_in_valid, byte_out_ready)
    /\ seen' = (byte_out_valid /\ rst_n)
    /\ LET received == seen /\ byte_out_valid /\ byte_out_ready IN
       \/ /\ host.valid /\ ~byte_in_ready
          /\ host' = host
          /\ ExpectNext(received, <<>>)
       \/ /\ ~host.valid \/ byte_in_ready
          /\ host' = [host EXCEPT !.byte = 0, !.valid = FALSE]
          /\ ExpectNext(received, <<>>)
       \/ /\ ~host.valid \/ byte_in_ready
          /\ host.left > 0
          /\ \E b \in Bytes : host' = Present(b) /\ ExpectNext(received, <<b>>)
    /\ UNCHANGED <<strategy, rx, tx, host_tx, host_rx>>

\* ICE40 strategy: the host may start a byte when its transmitter is done with
\* the last one and clear_to_send is up; it takes every byte it receives.
HostMaySend ==
    /\ host.left > 0
    /\ host_tx.tx_state \in {"Idle", "Stop"} /\ host_tx.tx_byte_done
    /\ clear_to_send

Ice40Cycle ==
    /\ strategy = "ice40"
    /\ IoWrapperCycle(byte_in, byte_in_valid, tx.tx_byte_done)
    /\ rx' = ReceiverNext(rx, rst_n, host_tx.tx, byte_in_ready)
    /\ tx' = TransmitterNext(tx, rst_n, byte_out, byte_out_valid)
    /\ host_rx' = ReceiverNext(host_rx, TRUE, tx.tx, host_rx.rx_byte_valid)
    /\ LET received == host_rx.rx_byte_valid IN
       \/ /\ host' = [host EXCEPT !.valid = FALSE]
          /\ host_tx' = TransmitterNext(host_tx, TRUE, host.byte, FALSE)
          /\ ExpectNext(received, <<>>)
       \/ /\ HostMaySend
          /\ \E b \in Bytes :
                /\ host' = Present(b)
                /\ host_tx' = TransmitterNext(host_tx, TRUE, b, TRUE)
                /\ ExpectNext(received, <<b>>)
    /\ UNCHANGED <<strategy, seen>>

IoNext == Ice40Cycle \/ \E byte_out_ready \in BOOLEAN : NullCycle(byte_out_ready)

\* The clock keeps ticking, and the sink does not leave a byte forever.
IoFairness ==
    /\ WF_ioVars(IoNext)
    /\ WF_ioVars(seen /\ byte_out_valid /\ NullCycle(TRUE))

IoSpec == IoInit /\ [][IoNext]_ioVars /\ IoFairness

----------------------------------------------------------------------------
(***************************************************************************)
(* Properties.                                                             *)
(***************************************************************************)
\* The request the input controller presents is the oldest complete request of
\* the bytes taken since the last reset, decoded by the meaning of the control
\* codes; it never runs ahead of the device function by more than that one.
RequestsDecoded ==
    /\ flat_input_valid => expect.owed = <<flat_input>>
    /\ Len(expect.owed) <= 1

\* With the null strategy the byte on byte_out while byte_out_valid is up is the
\* next byte of the answers to the requests taken so far: none is repeated,
\* skipped or left over from before a reset, at whatever moments the sink is
\* ready.
RepliesInOrder ==
    IsNull /\ byte_out_valid =>
        expect.replies # <<>> /\ byte_out = Head(expect.replies)

\* What the fixed-latency state machine relies on: while it computes, the output
\* controller stays ready and the input controller keeps the request.
OutputReadyHeld ==
    IsFixed /\ compute.state # "Idle" => flat_output_ready /\ flat_input_valid

\* A host that watches clear_to_send never makes the receiver fail, and the byte
\* the receiver presents is the one byte the host has sent and the wrapper has
\* not taken; byte_in_ready is only raised for such a byte.
BytesDelivered ==
    /\ rx.state \notin RxErrors
    /\ byte_in_valid => expect.sent = <<byte_in>>
    /\ byte_in_ready => byte_in_valid

\* A sequential module powers on in its Null state, which only a reset leaves.
Unreset == ~IsFixed /\ compute.state = "Null"

\* Nothing gets stuck.  Unless the device function still waits for its first
\* reset, every byte the host sends is taken, and every complete request is
\* accepted or dropped by a reset; with the null strategy the bytes of every
\* answer reach the sink; and a reset control code gets through whatever the
\* wrapper is waiting for.
EverythingGetsThrough ==
    /\ (expect.sent # <<>> /\ ~Unreset) ~> (expect.sent = <<>>)
    /\ (expect.owed # <<>> /\ ~Unreset) ~> (expect.owed = <<>>)
    /\ (IsNull /\ expect.replies # <<>>) ~> (expect.replies = <<>>)
    /\ (byte_in_valid /\ byte_in = kReset) ~> ~rst_n

\* With the ICE40 strategy the host receives the bytes of the answers, in order,
\* and nothing else.
HostReceivesReplies ==
    ~IsNull /\ host_rx.rx_byte_valid =>
        expect.replies # <<>> /\ host_rx.rx_byte = Head(expect.replies)
=============================================================================
