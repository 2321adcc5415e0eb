------------------------- MODULE FifoJitChannelQueue -------------------------
(***************************************************************************)
(* The queue behind a streaming channel of a JIT-compiled proc network: a  *)
(* circular buffer, sized by the first Send, doubled by a Send that finds  *)
(* it full.  Indices and counts are in elements of allocated_element_size_ *)
(* bytes (the code keeps every index a multiple of it); only the vector's  *)
(* size is in bytes.  Send looks at channel_element_size_ before it takes  *)
(* mutex_, so it is two steps; Recv is one critical section.               *)
(*                                                                         *)
(* LocklessFifoJitChannelQueue is the same code without the mutex, for     *)
(* callers that never overlap: the behaviours with one sender.             *)
(***************************************************************************)
EXTENDS Integers, Sequences, FiniteSets

CONSTANTS
    Senders,                \* threads that call Send
    Values,                 \* element values
    Zero,                   \* an element of fresh, zero-initialised bytes
    NoData,                 \* Recv returned false
    AllocatedElementSize,   \* allocated_element_size_, bytes
    ElementSize2,           \* 1 << CeilOfLog2(allocated_element_size_)
    InitBufferSize,         \* kInitBufferSize
    UninitializedCounts,    \* what max_byte_count_ may hold before it is set
    MaxQueued               \* bound: elements in the queue or being sent

ASSUME SizesAssumption ==
    /\ AllocatedElementSize \in Nat \ {0}
    /\ ElementSize2 \in Nat /\ ElementSize2 >= AllocatedElementSize
    /\ InitBufferSize \in Nat
    /\ UninitializedCounts \subseteq Nat

ASSUME ValuesAssumption == Zero \notin Values /\ NoData \notin Values

VARIABLES
    element_size_set,   \* channel_element_size_ != 0
    q,                  \* the members mutex_ guards
    sending,            \* each sender's progress through Send
    result              \* the outcome of the latest Recv

vars == <<element_size_set, q, sending, result>>

NotSending == [at |-> "idle"]

\* A sender between the unlocked check and the critical section.
AtLock(first_call, v) == [at |-> "lock", first_call |-> first_call, data |-> v]

------------------------------------------------------------------------------
(* The circular buffer *)

\* FloorOfRatio(bytes, allocated_element_size_)
Slots(bytes) == bytes \div AllocatedElementSize

\* The vector resized to n slots: new bytes are zero.
Resized(buf, n) ==
    [i \in 0..(n - 1) |-> IF i \in DOMAIN buf THEN buf[i] ELSE Zero]

InitialSize ==
    IF ElementSize2 > InitBufferSize THEN ElementSize2 ELSE InitBufferSize

\* The storage the first Send allocates.
Allocated(r) ==
    [size |-> InitialSize, max |-> Slots(InitialSize), used |-> r.used,
     enq |-> r.enq, deq |-> r.deq, buf |-> Resized(r.buf, Slots(InitialSize))]

\* An index that reaches the end of the buffer returns to its start.
Wrapped(index, max) == IF index = max THEN 0 ELSE index

\* The elements before dequeue_index_, the newest of a full buffer, moved
\* behind the others.
Moved(buf, r) ==
    [i \in DOMAIN buf |->
        IF i \in r.used..(r.used + r.deq - 1) THEN buf[i - r.used] ELSE buf[i]]

\* Fault: enqueue_index_ is not realigned.
GrownUnaligned(r) ==
    LET max == Slots(2 * r.size)
    IN  [size |-> 2 * r.size, max |-> max, used |-> r.used,
         enq |-> r.enq, deq |-> r.deq, buf |-> Moved(Resized(r.buf, max), r)]

\* The full buffer doubled.
Grown(r) ==
    LET max == Slots(2 * r.size)
        buf == Resized(r.buf, max)
    IN  [size |-> 2 * r.size, max |-> max, used |-> r.used,
         enq |-> Wrapped(r.used + r.deq, max), deq |-> r.deq,
         buf |-> IF r.deq # 0 THEN Moved(buf, r) ELSE buf]

WithRoom(r) == IF r.used = r.max THEN Grown(r) ELSE r

\* A write past the vector's end reaches no element of it.
Written(buf, index, v) == [i \in DOMAIN buf |-> IF i = index THEN v ELSE buf[i]]

Pushed(r, v) ==
    [size |-> r.size, max |-> r.max, used |-> r.used + 1,
     enq |-> Wrapped(r.enq + 1, r.max), deq |-> r.deq,
     buf |-> Written(r.buf, r.enq, v)]

\* What memcpy from the front can yield: past the vector's end, anything.
Front(r) ==
    IF r.deq \in DOMAIN r.buf THEN {r.buf[r.deq]} ELSE Values \cup {Zero}

Popped(r) ==
    [size |-> r.size, max |-> r.max, used |-> r.used - 1,
     enq |-> r.enq, deq |-> Wrapped(r.deq + 1, r.max), buf |-> r.buf]

------------------------------------------------------------------------------
(* Send and Recv *)

Init ==
    /\ element_size_set = FALSE
    /\ \E garbage \in UninitializedCounts :
          q = [size |-> 0, max |-> garbage, used |-> 0, enq |-> 0, deq |-> 0,
               buf |-> <<>>]
    /\ sending = [s \in Senders |-> NotSending]
    /\ result = NoData

Pending == {s \in Senders : sending[s] # NotSending}

\* Send up to the mutex: the first caller records the element size.
SendCheck(s, v) ==
    /\ sending[s] = NotSending
    /\ q.used + Cardinality(Pending) < MaxQueued
    /\ sending' = [sending EXCEPT ![s] = AtLock(~element_size_set, v)]
    /\ element_size_set' = TRUE
    /\ UNCHANGED <<q, result>>

\* Send under the mutex.
SendLocked(s) ==
    /\ sending[s] # NotSending
    /\ LET r == IF sending[s].first_call THEN Allocated(q) ELSE q
       IN  q' = Pushed(WithRoom(r), sending[s].data)
    /\ sending' = [sending EXCEPT ![s] = NotSending]
    /\ UNCHANGED <<element_size_set, result>>

Recv ==
    \/ /\ q.used = 0
       /\ result' = NoData
       /\ UNCHANGED <<element_size_set, q, sending>>
    \/ /\ q.used # 0
       /\ result' \in Front(q)
       /\ q' = Popped(q)
       /\ UNCHANGED <<element_size_set, sending>>

Next ==
    \/ Recv
    \/ \E s \in Senders : SendLocked(s) \/ \E v \in Values : SendCheck(s, v)

Spec == Init /\ [][Next]_vars

------------------------------------------------------------------------------
(* Properties *)

\* The slot that holds the i-th oldest element.
SlotOf(r, i) ==
    LET index == r.deq + i - 1 IN IF index < r.max THEN index ELSE index - r.max

\* The elements in the queue, oldest first.
Contents(r) == [i \in 1..r.used |-> r.buf[SlotOf(r, i)]]

\* Every member has its type, and the vector holds max_byte_count_ bytes once
\* the first Send has allocated it.
TypeOK ==
    /\ element_size_set \in BOOLEAN
    /\ {q.size, q.max, q.used, q.enq, q.deq} \subseteq Nat
    /\ q.buf \in [0..(Slots(q.size) - 1) -> Values \cup {Zero}]
    /\ \A s \in Senders :
          sending[s] = NotSending \/ \E b \in BOOLEAN, v \in Values :
                                  sending[s] = AtLock(b, v)
    /\ result \in Values \cup {Zero, NoData}

\* The three counters of the circular buffer agree through every wrap and every
\* growth: enqueue_index_ is where the element after the newest one goes, and
\* both indices stay inside the buffer (Send and Recv, the wrap tests).
IndicesAgree ==
    q.size # 0 =>
        /\ q.max = Slots(q.size)
        /\ q.used <= q.max
        /\ q.deq < q.max
        /\ q.enq = IF q.deq + q.used < q.max THEN q.deq + q.used
                                            ELSE q.deq + q.used - q.max

\* Recv hands over only values that were sent, never the bytes of a slot that
\* nothing was written to.
OnlySentValues == result \in Values \cup {NoData}

\* The circular buffer is a first-in first-out queue: no Send or Recv loses,
\* repeats, reorders or alters an element, across wraps and growth.
Channel == INSTANCE FifoChannel WITH queue <- Contents(q)

ImplementsFifo == Channel!Spec
=============================================================================
