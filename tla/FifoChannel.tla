---------------------------- MODULE FifoChannel ----------------------------
(***************************************************************************)
(* What a streaming channel promises to procs, whichever queue backs it:   *)
(* an unbounded first-in first-out queue whose receive never waits and     *)
(* reports an empty queue without changing anything (the interface         *)
(* comments of JitChannelQueue::Send and Recv).                            *)
(***************************************************************************)
EXTENDS Sequences

CONSTANTS
    Values,    \* what a proc can send
    NoData     \* what Recv reports when the queue is empty

VARIABLES
    queue,     \* the values sent and not yet received, oldest first
    result     \* the outcome of the latest Recv

vars == <<queue, result>>

Init ==
    /\ queue = <<>>
    /\ result = NoData

Send(v) ==
    /\ queue' = Append(queue, v)
    /\ UNCHANGED result

Recv ==
    \/ /\ queue = <<>>
       /\ result' = NoData
       /\ UNCHANGED queue
    \/ /\ queue # <<>>
       /\ result' = Head(queue)
       /\ queue' = Tail(queue)

Next == Recv \/ \E v \in Values : Send(v)

Spec == Init /\ [][Next]_vars
=============================================================================
