----------------------- MODULE MCFifoJitChannelQueue -----------------------
(* FifoJitChannelQueue for TLC: 48-byte elements in a 128-byte buffer, so the *)
(* buffer holds 2, then 5, then 10 elements, and its size is never a multiple *)
(* of the element size.                                                       *)
EXTENDS FifoJitChannelQueue

CONSTANTS a, b, s1, s2, zero, none

MCValues == {a, b}
MCOneSender == {s1}
MCTwoSenders == {s1, s2}
=============================================================================
