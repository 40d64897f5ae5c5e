---------------------------- MODULE PacketStream ----------------------------
(***************************************************************************)
(* What the send_func of func/video_transfer relies on: the camera's       *)
(* packets reach it in the order of their arrival, whole, and each at most *)
(* once.  A packet may be refused on arrival and never later.              *)
(***************************************************************************)
EXTENDS Naturals, Sequences

CONSTANT None       \* no packet

VARIABLES pending,  \* packets accepted and not yet sent, oldest first
          newest,   \* the packet accepted last in this session, or None
          got       \* the packet sent last, or None

vars == <<pending, newest, got>>

Packets == [n : Nat, frame : Nat, eof : BOOLEAN]

\* b may follow a in the stream: it came later, of the same frame or a later
\* one, and nothing of a frame follows its end.
Follows(a, b) ==
    /\ a.n < b.n
    /\ a.frame <= b.frame
    /\ a.eof => a.frame < b.frame

Init == pending = <<>> /\ newest = None /\ got = None

Accept == /\ newest' \in Packets
          /\ newest # None => Follows(newest, newest')
          /\ pending' = Append(pending, newest')
          /\ UNCHANGED got

Deliver == /\ pending # <<>>
           /\ got' = Head(pending)
           /\ pending' = Tail(pending)
           /\ UNCHANGED newest

\* A session begins or ends.
Reset == pending' = <<>> /\ newest' = None /\ UNCHANGED got

Next == Accept \/ Deliver \/ Reset

Spec == Init /\ [][Next]_vars
=============================================================================
