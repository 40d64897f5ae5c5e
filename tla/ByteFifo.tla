------------------------------ MODULE ByteFifo ------------------------------
(***************************************************************************)
(* What the two users of driver/audio/ring_buffer.c rely on: a FIFO of     *)
(* bytes with room for Room bytes.  Bytes are named by their place in the  *)
(* stream, so the state is two counters and the chunk handed out last.     *)
(***************************************************************************)
EXTENDS Naturals

CONSTANT Room       \* bytes the buffer holds when it is full

VARIABLES sent,     \* bytes accepted since the device was opened
          rcvd,     \* bytes handed to the reader since then
          out       \* the chunk the last read returned

vars == <<sent, rcvd, out>>

Init == sent = 0 /\ rcvd = 0 /\ out = <<>>

\* A write is taken whole, and only when it fits.
Put == \E n \in 1 .. Room - (sent - rcvd) :
           /\ sent' = sent + n
           /\ UNCHANGED <<rcvd, out>>

\* A read returns the oldest bytes, in the order they were written.
Get == \E n \in 0 .. sent - rcvd :
           /\ out' = [i \in 1 .. n |-> rcvd + i]
           /\ rcvd' = rcvd + n
           /\ UNCHANGED sent

\* Opening or closing the device empties it.
Reset == sent' = 0 /\ rcvd' = 0 /\ out' = <<>>

Next == Put \/ Get \/ Reset

Spec == Init /\ [][Next]_vars
=============================================================================
