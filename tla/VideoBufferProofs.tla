-------------------------- MODULE VideoBufferProofs --------------------------
(***************************************************************************)
(* Proofs about VideoBuffer for every pool, set of buffer lengths, width   *)
(* of the packet numbers and number of frames that hdr.id tells apart.     *)
(*                                                                         *)
(* Two arguments.  The hand-over of the reader's buffer (Handed, Settled)  *)
(* says who may touch what while it is handed in.  The order of arrival    *)
(* (Arrival, Copying) says that the pieces copied for one hdr.id come from *)
(* one frame with growing numbers, so that n pieces of which the first is  *)
(* number 1 and the last is number n leave no gap.                         *)
(***************************************************************************)
EXTENDS VideoBuffer, SequenceTheorems, TLAPS

Handing == {"waiting", "judging", "clearing"}
Done == {"GET", "FULL", "ERR"}

\* The buffer is handed in from the publication to the clearing, and only
\* then is anything put together.
Handed ==
    /\ base <=> rd \in Handing
    /\ base => vbuf
    /\ ~base => start_buf = "INIT"
    /\ ~Serving => pending = <<>>

\* Whoever is woken by the video thread finds an outcome.
Settled ==
    /\ rd = "drained" => sem # "recv"
    /\ rd = "waiting" /\ sem = "recv" => start_buf \in Done
    /\ rd = "judging" /\ woken = "recv" => start_buf \in Done
    /\ UnknownOnlyFromClose

Room == base => Len(buf) <= buf_len \/ start_buf = "INIT"

\* Piece x came before piece y, and before what follows piece k of frame f.
Precedes(x, y) == x.f < y.f \/ (x.f = y.f /\ x.k < y.k /\ ~x.last)
Past(x, f, k) == x.f < f \/ (x.f = f /\ x.k <= k /\ ~x.last)

Arrival ==
    /\ \A i \in 1 .. Len(pending) :
          /\ Past(pending[i].piece, frame, piece)
          /\ pending[i].id = pending[i].piece.f
    /\ \A i, j \in 1 .. Len(pending) :
          i < j => Precedes(pending[i].piece, pending[j].piece)

\* The numbers grow by one at least from one copied piece to the next.
Grown ==
    /\ \A i \in 1 .. Len(buf) :
          /\ buf[i].f = frame_id /\ buf[i].read = reads
          /\ Past(buf[i], frame, piece)
          /\ \A j \in 1 .. Len(pending) : Precedes(buf[i], pending[j].piece)
    /\ \A i, j \in 1 .. Len(buf) :
          i < j => buf[j].k - buf[i].k >= j - i /\ ~buf[i].last

Copying == start_buf = "COPY" => Grown

WholeFrame(b, r) ==
    /\ Len(b) > 0
    /\ \A i \in 1 .. Len(b) :
          /\ b[i].k = i /\ b[i].f = b[1].f
          /\ b[i].last = (i = Len(b))
          /\ b[i].read = r

Whole ==
    /\ start_buf = "GET" => WholeFrame(buf, reads)
    /\ res.err = 0 => WholeFrame(res.data, reads)

IInv == TypeOK /\ Handed /\ Settled /\ Room /\ Arrival /\ Copying /\ Whole

-----------------------------------------------------------------------------
(***************************************************************************)
(* What a step of the video thread comes to.                               *)
(***************************************************************************)

\* The packet p is added to the pieces b, or finds no room after them.
Outcome(p, b) ==
    \/ /\ Len(b) < buf_len /\ buf' = Append(b, Taken(p))
       /\ \/ ~p.eof /\ start_buf' = "COPY" /\ sem' = sem
          \/ p.eof /\ RightImage(buf') /\ start_buf' = "GET" /\ sem' = "recv"
          \/ p.eof /\ ~RightImage(buf') /\ start_buf' = "ERR" /\ sem' = "recv"
    \/ ~(Len(b) < buf_len) /\ buf' = b /\ start_buf' = "FULL" /\ sem' = "recv"

Skips == UNCHANGED <<frame_id, frame_pkt_cnt, start_buf, buf, sem>>

Starts(p) ==
    /\ base /\ start_buf \in {"COPY", "INIT"}
    /\ frame_id' = p.id /\ frame_pkt_cnt' \in Nat /\ Outcome(p, <<>>)

Continues(p) ==
    /\ base /\ start_buf = "COPY" /\ p.id = frame_id
    /\ frame_id' = frame_id /\ frame_pkt_cnt' \in Nat /\ Outcome(p, buf)

LEMMA CopyOutcome ==
    ASSUME NEW p, NEW cnt \in Nat, NEW b, Copy(p, "COPY", cnt, b)
    PROVE  Outcome(p, b) /\ frame_pkt_cnt' \in Nat
<1>1. CASE Len(b) < buf_len
    <2>1. /\ buf' = Append(b, Taken(p)) /\ frame_pkt_cnt' = cnt + 1
          /\ start_buf' = IF ~p.eof THEN "COPY"
                          ELSE IF RightImage(Append(b, Taken(p))) THEN "GET" ELSE "ERR"
          /\ sem' = IF p.eof THEN "recv" ELSE sem
        BY <1>1 DEF Copy
    <2>2. RightImage(buf') <=> RightImage(Append(b, Taken(p)))
        BY <2>1
    <2> QED
        BY <1>1, <2>1, <2>2 DEF Outcome
<1>2. CASE ~(Len(b) < buf_len)
    BY <1>2 DEF Copy, Outcome
<1> QED
    BY <1>1, <1>2

LEMMA RecvCases ==
    ASSUME TypeOK, video_buffer_recv_video_data
    PROVE  Skips \/ Starts(Head(pending)) \/ Continues(Head(pending))
<1> DEFINE p == Head(pending)
           sof == p.id # frame_id /\ p.seq = 1
<1>1. CASE ~(base /\ start_buf \in {"COPY", "INIT"})
    BY <1>1 DEF video_buffer_recv_video_data, assembly, Skips
<1>2. CASE base /\ start_buf \in {"COPY", "INIT"} /\ sof
    <2>1. frame_id' = p.id /\ Copy(p, "COPY", 0, <<>>)
        BY <1>2 DEF video_buffer_recv_video_data
    <2> QED
        BY <1>2, <2>1, CopyOutcome DEF Starts
<1>3. CASE base /\ start_buf \in {"COPY", "INIT"} /\ ~sof
    <2>1. CASE p.id = frame_id /\ frame_pkt_cnt + 1 = p.seq /\ start_buf = "COPY"
        <3>1. frame_id' = frame_id /\ Copy(p, "COPY", frame_pkt_cnt, buf)
            BY <1>3, <2>1 DEF video_buffer_recv_video_data
        <3>2. frame_pkt_cnt \in Nat
            BY DEF TypeOK
        <3> QED
            BY <1>3, <2>1, <3>1, <3>2, CopyOutcome DEF Continues
    <2>2. CASE ~(p.id = frame_id /\ frame_pkt_cnt + 1 = p.seq /\ start_buf = "COPY")
        BY <1>3, <2>2 DEF video_buffer_recv_video_data, Skips
    <2> QED
        BY <2>1, <2>2
<1> QED
    BY <1>1, <1>2, <1>3

\* The rest of the state, and the packet that is taken.
LEMMA RecvRest ==
    ASSUME TypeOK, video_buffer_recv_video_data
    PROVE  /\ Serving /\ pending # <<>> /\ pending' = Tail(pending)
           /\ Head(pending) \in Hdr /\ Head(pending) = pending[1]
           /\ Tail(pending) \in Seq(Hdr) /\ Len(pending) \in Nat \ {0}
           /\ Len(Tail(pending)) = Len(pending) - 1
           /\ \A i \in 1 .. Len(pending) - 1 : Tail(pending)[i] = pending[i + 1]
           /\ UNCHANGED <<frame, piece, g_pkt_seq, vbuf, base, buf_len, rd, woken,
                          res, reads, own, opens>>
<1>1. /\ Serving /\ pending # <<>> /\ pending' = Tail(pending)
      /\ UNCHANGED <<frame, piece, g_pkt_seq, vbuf, base, buf_len, rd, woken,
                     res, reads, own, opens>>
    BY DEF video_buffer_recv_video_data, camera, reader, owner
<1> QED
    BY <1>1, HeadTailProperties, EmptySeq DEF TypeOK

LEMMA TakenType ==
    ASSUME TypeOK, NEW p \in Hdr
    PROVE  /\ Taken(p) \in TakenPieces
           /\ Taken(p).k = p.piece.k /\ Taken(p).f = p.piece.f
           /\ Taken(p).last = p.piece.last /\ Taken(p).read = reads
BY DEF TypeOK, Taken, TakenPieces, Hdr, Pieces

\* The two interrupts add at most one packet.
LEMMA HeaderType ==
    ASSUME TypeOK, NEW last \in BOOLEAN, NEW eof \in BOOLEAN,
           video_buffer_add_pkt_header(last, eof)
    PROVE  pending' \in Seq(Hdr) /\ Len(pending') <= PoolLen /\ g_pkt_seq' \in Nat
<1> DEFINE h == [id |-> frame % IdMod, seq |-> (g_pkt_seq + 1) % SeqMod, eof |-> eof,
                 piece |-> [f |-> frame, k |-> piece + 1, last |-> last]]
<1>1. frame % IdMod \in 0 .. IdMod - 1 /\ (g_pkt_seq + 1) % SeqMod \in 0 .. SeqMod - 1
    BY VideoBufferAssumption DEF TypeOK
<1>2. h \in Hdr
    BY <1>1 DEF TypeOK, Hdr, Pieces
<1> HIDE DEF h
<1>3. \/ pending' = Append(pending, h) /\ Len(pending) < PoolLen
      \/ pending' = pending
    BY DEF video_buffer_add_pkt_header, h
<1>5. /\ Append(pending, h) \in Seq(Hdr) /\ Len(pending) \in Nat
      /\ Len(Append(pending, h)) = Len(pending) + 1
    BY <1>2 DEF TypeOK
<1>4. g_pkt_seq' \in Nat
    BY DEF TypeOK, video_buffer_add_pkt_header
<1>6. pending \in Seq(Hdr) /\ Len(pending) <= PoolLen /\ PoolLen \in Nat
    BY VideoBufferAssumption DEF TypeOK
<1> QED
    BY <1>3, <1>4, <1>5, <1>6

-----------------------------------------------------------------------------
(***************************************************************************)
(* Types.                                                                  *)
(***************************************************************************)

LEMMA TypeInit == Init => TypeOK
<1> SUFFICES ASSUME Init PROVE TypeOK
    OBVIOUS
<1>1. vbuf \in BOOLEAN /\ base \in BOOLEAN
    BY Zenon DEF Init
<1>2. res \in [err : {0, -2, -3, -4, -5}, data : Seq(TakenPieces)]
    BY DEF Init, NoData
<1>3. pending \in Seq(Hdr) /\ Len(pending) = 0 /\ buf \in Seq(TakenPieces)
    BY EmptySeq DEF Init
<1> QED
    BY <1>1, <1>2, <1>3, VideoBufferAssumption DEF Init, TypeOK, Sem, Rd, Own, States

LEMMA RecvType ==
    ASSUME TypeOK, video_buffer_recv_video_data
    PROVE  TypeOK'
<1> DEFINE p == Head(pending)
<1>1. p \in Hdr /\ Taken(p) \in TakenPieces
    BY RecvRest, TakenType
<1>2. /\ Append(buf, Taken(p)) \in Seq(TakenPieces)
      /\ Append(<<>>, Taken(p)) \in Seq(TakenPieces) /\ <<>> \in Seq(TakenPieces)
    BY <1>1 DEF TypeOK
<1>3. pending' \in Seq(Hdr) /\ Len(pending') <= PoolLen
    <2>1. pending' = Tail(pending) /\ Tail(pending) \in Seq(Hdr) /\ Len(Tail(pending)) = Len(pending) - 1
        BY RecvRest
    <2>2. Len(pending) \in Nat /\ Len(pending) <= PoolLen
        BY DEF TypeOK
    <2> QED
        BY <2>1, <2>2, VideoBufferAssumption
<1>4. p.id \in 0 .. IdMod - 1
    BY <1>1 DEF Hdr
<1>5. Skips \/ Starts(p) \/ Continues(p)
    BY RecvCases
<1> HIDE DEF p
<1>6. frame_id' \in (0 .. IdMod - 1) \cup {NoFrame} /\ frame_pkt_cnt' \in Nat
    BY <1>4, <1>5 DEF Skips, Starts, Continues, TypeOK
<1>7. start_buf' \in States /\ sem' \in Sem
    BY <1>5 DEF Skips, Starts, Continues, Outcome, States, Sem, TypeOK
<1>8. buf' \in Seq(TakenPieces)
    <2>1. buf' \in {buf, <<>>, Append(buf, Taken(p)), Append(<<>>, Taken(p))}
        BY <1>5 DEF Skips, Starts, Continues, Outcome
    <2> QED
        BY <1>2, <2>1 DEF TypeOK
<1>9. UNCHANGED <<frame, piece, g_pkt_seq, vbuf, base, buf_len, rd, woken,
                  res, reads, own, opens>>
    BY RecvRest
<1> QED
    BY <1>3, <1>6, <1>7, <1>8, <1>9 DEF TypeOK

LEMMA TypeStep == TypeOK /\ [Next]_vars => TypeOK'
<1> SUFFICES ASSUME TypeOK, [Next]_vars PROVE TypeOK'
    OBVIOUS
<1> USE VideoBufferAssumption
    DEF TypeOK, Sem, Rd, Own, States, camera, assembly, reader, owner
<1>1. CASE Node
    <2>1. video_buffer_add_pkt_header(FALSE, FALSE)
        BY <1>1 DEF Node
    <2>2. pending' \in Seq(Hdr) /\ Len(pending') <= PoolLen /\ g_pkt_seq' \in Nat
        BY <2>1, HeaderType
    <2> QED
        BY <1>1, <2>2 DEF Node
<1>2. CASE LastNode
    <2>1. PICK eof \in BOOLEAN : video_buffer_add_pkt_header(TRUE, eof)
        BY <1>2 DEF LastNode
    <2>2. pending' \in Seq(Hdr) /\ Len(pending') <= PoolLen /\ g_pkt_seq' \in Nat
        BY <2>1, HeaderType
    <2> QED
        BY <1>2, <2>2 DEF LastNode
<1>3. CASE video_buffer_recv_video_data
    BY <1>3, RecvType
<1>4. CASE ReadCall
    <2>1. res' \in [err : {0, -2, -3, -4, -5}, data : Seq(TakenPieces)]
        BY <1>4 DEF ReadCall, NoData
    <2> QED
        BY <1>4, <2>1 DEF ReadCall
<1>5. CASE ReadDrain
    BY <1>5 DEF ReadDrain
<1>6. CASE ReadPublish
    <2>1. base' \in BOOLEAN
        BY <1>6, Zenon DEF ReadPublish
    <2> QED
        BY <1>6, <2>1 DEF ReadPublish
<1>7. CASE ReadWake
    BY <1>7 DEF ReadWake
<1>8. CASE ReadTimeout
    BY <1>8 DEF ReadTimeout
<1>9. CASE ReadJudge
    <2>1. res' \in [err : {0, -2, -3, -4, -5}, data : Seq(TakenPieces)]
        BY <1>9 DEF ReadJudge, ErrCode
    <2> QED
        BY <1>9, <2>1 DEF ReadJudge
<1>10. CASE ReadClear
    BY <1>10 DEF ReadClear
<1>11. CASE video_buffer_open
    <2>1. vbuf' \in BOOLEAN /\ base' \in BOOLEAN
        BY <1>11, Zenon DEF video_buffer_open, assembly
    <2>2. buf' \in Seq(TakenPieces)
        BY <1>11, EmptySeq DEF video_buffer_open
    <2> QED
        BY <1>11, <2>1, <2>2 DEF video_buffer_open
<1>12. CASE CloseCall
    BY <1>12 DEF CloseCall
<1>13. CASE CloseStopped
    BY <1>13 DEF CloseStopped
<1>14. CASE CloseWakes
    BY <1>14 DEF CloseWakes
<1>15. CASE CloseFrees
    <2>1. vbuf' \in BOOLEAN /\ base' \in BOOLEAN
        BY <1>15, Zenon DEF CloseFrees, assembly
    <2> QED
        BY <1>15, <2>1 DEF CloseFrees
<1>16. CASE UNCHANGED vars
    BY <1>16 DEF vars
<1> QED
    BY <1>1, <1>2, <1>3, <1>4, <1>5, <1>6, <1>7, <1>8, <1>9, <1>10, <1>11, <1>12, <1>13, <1>14, <1>15, <1>16
    DEF Next, Interrupt, ReaderStep, OwnerStep

-----------------------------------------------------------------------------
(***************************************************************************)
(* The hand-over.                                                          *)
(***************************************************************************)

\* A step of the video thread without a buffer, or with an outcome that was
\* not fetched yet, changes nothing; another sets the outcome and the
\* semaphore together.
LEMMA RecvOutcome ==
    ASSUME TypeOK, video_buffer_recv_video_data
    PROVE  /\ ~base \/ start_buf \in Done => Skips
           /\ \/ sem' = sem /\ start_buf' \in {start_buf, "COPY"}
              \/ sem' = "recv" /\ start_buf' \in Done
<1> DEFINE p == Head(pending)
<1>1. Skips \/ Starts(p) \/ Continues(p)
    BY RecvCases
<1> HIDE DEF p
<1> QED
    BY <1>1 DEF Skips, Starts, Continues, Outcome, Done

LEMMA HandedStep == IInv /\ [Next]_vars => Handed'
<1> SUFFICES ASSUME TypeOK, Handed, [Next]_vars PROVE Handed'
    BY DEF IInv
<1>1. CASE Node
    BY <1>1 DEF Node, TypeOK, Handed, Handing, Serving, camera, assembly, reader, owner
<1>2. CASE LastNode
    BY <1>2 DEF LastNode, TypeOK, Handed, Handing, Serving, camera, assembly, reader, owner
<1>3. CASE video_buffer_recv_video_data
    <2>1. UNCHANGED <<vbuf, base, rd, own>> /\ Serving
        BY <1>3, RecvRest
    <2>2. ~base => start_buf' = start_buf
        BY <1>3, RecvOutcome DEF Skips
    <2> QED
        BY <2>1, <2>2 DEF Handed, Serving
<1>4. CASE ReadCall
    BY <1>4 DEF ReadCall, TypeOK, Handed, Handing, Serving, camera, assembly, reader, owner
<1>5. CASE ReadDrain
    BY <1>5 DEF ReadDrain, TypeOK, Handed, Handing, Serving, camera, assembly, reader, owner
<1>6. CASE ReadPublish
    BY <1>6 DEF ReadPublish, TypeOK, Handed, Handing, Serving, camera, assembly, reader, owner
<1>7. CASE ReadWake
    BY <1>7 DEF ReadWake, TypeOK, Handed, Handing, Serving, camera, assembly, reader, owner
<1>8. CASE ReadTimeout
    BY <1>8 DEF ReadTimeout, TypeOK, Handed, Handing, Serving, camera, assembly, reader, owner
<1>9. CASE ReadJudge
    BY <1>9 DEF ReadJudge, TypeOK, Handed, Handing, Serving, camera, assembly, reader, owner
<1>10. CASE ReadClear
    BY <1>10 DEF ReadClear, TypeOK, Handed, Handing, Serving, camera, assembly, reader, owner
<1>11. CASE video_buffer_open
    BY <1>11 DEF video_buffer_open, TypeOK, Handed, Handing, Serving, camera, assembly, reader, owner
<1>12. CASE CloseCall
    BY <1>12 DEF CloseCall, TypeOK, Handed, Handing, Serving, camera, assembly, reader, owner
<1>13. CASE CloseStopped
    BY <1>13 DEF CloseStopped, TypeOK, Handed, Handing, Serving, camera, assembly, reader, owner
<1>14. CASE CloseWakes
    BY <1>14 DEF CloseWakes, TypeOK, Handed, Handing, Serving, camera, assembly, reader, owner
<1>15. CASE CloseFrees
    BY <1>15 DEF CloseFrees, TypeOK, Handed, Handing, Serving, camera, assembly, reader, owner
<1>16. CASE UNCHANGED vars
    BY <1>16 DEF vars, Handed, Serving
<1> QED
    BY <1>1, <1>2, <1>3, <1>4, <1>5, <1>6, <1>7, <1>8, <1>9, <1>10, <1>11, <1>12, <1>13, <1>14, <1>15, <1>16
    DEF Next, Interrupt, ReaderStep, OwnerStep

LEMMA SettledStep == IInv /\ [Next]_vars => Settled'
<1> SUFFICES ASSUME TypeOK, Handed, Settled, [Next]_vars PROVE Settled'
    BY DEF IInv
<1>1. CASE Node
    BY <1>1 DEF Node, TypeOK, Handed, Handing, Settled, UnknownOnlyFromClose, camera, assembly, reader, owner
<1>2. CASE LastNode
    BY <1>2 DEF LastNode, TypeOK, Handed, Handing, Settled, UnknownOnlyFromClose, camera, assembly, reader, owner
<1>3. CASE video_buffer_recv_video_data
    <2>1. UNCHANGED <<rd, woken, res>>
        BY <1>3, RecvRest
    <2>2. /\ ~base \/ start_buf \in Done => sem' = sem /\ start_buf' = start_buf
          /\ \/ sem' = sem
             \/ sem' = "recv" /\ start_buf' \in Done
        BY <1>3, RecvOutcome DEF Skips
    <2>3. rd = "drained" => ~base
        BY DEF Handed, Handing
    <2> QED
        BY <2>1, <2>2, <2>3 DEF Settled, UnknownOnlyFromClose
<1>4. CASE ReadCall
    BY <1>4 DEF ReadCall, TypeOK, Handed, Handing, Settled, UnknownOnlyFromClose, camera, assembly, reader, owner
<1>5. CASE ReadDrain
    BY <1>5 DEF ReadDrain, TypeOK, Handed, Handing, Settled, UnknownOnlyFromClose, camera, assembly, reader, owner
<1>6. CASE ReadPublish
    BY <1>6 DEF ReadPublish, TypeOK, Handed, Handing, Settled, UnknownOnlyFromClose, camera, assembly, reader, owner
<1>7. CASE ReadWake
    BY <1>7 DEF ReadWake, TypeOK, Handed, Handing, Settled, UnknownOnlyFromClose, camera, assembly, reader, owner
<1>8. CASE ReadTimeout
    BY <1>8 DEF ReadTimeout, TypeOK, Handed, Handing, Settled, UnknownOnlyFromClose, camera, assembly, reader, owner
<1>9. CASE ReadJudge
    <2>1. woken = "recv" => ErrCode(start_buf) # -4
        BY <1>9 DEF ReadJudge, Settled, Done, ErrCode
    <2>2. res'.err = IF woken = "timeout" THEN -5 ELSE ErrCode(start_buf)
        BY <1>9 DEF ReadJudge
    <2> QED
        BY <1>9, <2>1, <2>2 DEF ReadJudge, TypeOK, Settled, UnknownOnlyFromClose
<1>10. CASE ReadClear
    BY <1>10 DEF ReadClear, TypeOK, Handed, Handing, Settled, UnknownOnlyFromClose, camera, assembly, reader, owner
<1>11. CASE video_buffer_open
    BY <1>11 DEF video_buffer_open, TypeOK, Handed, Handing, Settled, UnknownOnlyFromClose, camera, assembly, reader, owner
<1>12. CASE CloseCall
    BY <1>12 DEF CloseCall, TypeOK, Handed, Handing, Settled, UnknownOnlyFromClose, camera, assembly, reader, owner
<1>13. CASE CloseStopped
    BY <1>13 DEF CloseStopped, TypeOK, Handed, Handing, Settled, UnknownOnlyFromClose, camera, assembly, reader, owner
<1>14. CASE CloseWakes
    BY <1>14 DEF CloseWakes, TypeOK, Handed, Handing, Settled, UnknownOnlyFromClose, camera, assembly, reader, owner
<1>15. CASE CloseFrees
    BY <1>15 DEF CloseFrees, TypeOK, Handed, Handing, Settled, UnknownOnlyFromClose, camera, assembly, reader, owner
<1>16. CASE UNCHANGED vars
    BY <1>16 DEF vars, Settled, UnknownOnlyFromClose
<1> QED
    BY <1>1, <1>2, <1>3, <1>4, <1>5, <1>6, <1>7, <1>8, <1>9, <1>10, <1>11, <1>12, <1>13, <1>14, <1>15, <1>16
    DEF Next, Interrupt, ReaderStep, OwnerStep

LEMMA RoomStep == IInv /\ [Next]_vars => Room'
<1> SUFFICES ASSUME TypeOK, Handed, Room, [Next]_vars PROVE Room'
    BY DEF IInv
<1>1. CASE Node
    BY <1>1 DEF Node, Handed, Handing, Room, assembly
<1>2. CASE LastNode
    BY <1>2 DEF LastNode, Handed, Handing, Room, assembly
<1>3. CASE video_buffer_recv_video_data
    <2> DEFINE p == Head(pending)
    <2>1. UNCHANGED <<base, buf_len>> /\ p \in Hdr
        BY <1>3, RecvRest
    <2>2. Skips \/ Starts(p) \/ Continues(p)
        BY <1>3, RecvCases
    <2>3. Taken(p) \in TakenPieces
        BY <2>1, TakenType
    <2>4. buf \in Seq(TakenPieces) /\ buf_len \in Nat
        BY VideoBufferAssumption DEF TypeOK
    <2> HIDE DEF p
    <2>5. CASE Skips
        BY <2>1, <2>5 DEF Skips, Room
    <2>6. ASSUME NEW b \in Seq(TakenPieces), Len(b) <= buf_len, Outcome(p, b)
          PROVE  Len(buf') <= buf_len
        <3>2. Len(Append(b, Taken(p))) = Len(b) + 1 /\ Len(b) \in Nat
            BY <2>3
        <3> QED
            BY <2>4, <2>6, <3>2 DEF Outcome
    <2>e. <<>> \in Seq(TakenPieces) /\ Len(<<>>) <= buf_len
        BY <2>4, EmptySeq
    <2>7. CASE Starts(p)
        <3>1. Outcome(p, <<>>)
            BY <2>7 DEF Starts
        <3>2. Len(buf') <= buf_len
            BY <2>6, <2>e, <3>1
        <3> QED
            BY <2>1, <3>2 DEF Room
    <2>8. CASE Continues(p)
        BY <2>1, <2>4, <2>6, <2>8 DEF Continues, Room
    <2> QED
        BY <2>2, <2>5, <2>7, <2>8
<1>4. CASE ReadCall
    BY <1>4 DEF ReadCall, Handed, Handing, Room, assembly
<1>5. CASE ReadDrain
    BY <1>5 DEF ReadDrain, Handed, Handing, Room, assembly
<1>6. CASE ReadPublish
    BY <1>6 DEF ReadPublish, Handed, Handing, Room, assembly
<1>7. CASE ReadWake
    BY <1>7 DEF ReadWake, Handed, Handing, Room, assembly
<1>8. CASE ReadTimeout
    BY <1>8 DEF ReadTimeout, Handed, Handing, Room, assembly
<1>9. CASE ReadJudge
    BY <1>9 DEF ReadJudge, Handed, Handing, Room, assembly
<1>10. CASE ReadClear
    BY <1>10 DEF ReadClear, Handed, Handing, Room, assembly
<1>11. CASE video_buffer_open
    BY <1>11 DEF video_buffer_open, Handed, Handing, Room, assembly
<1>12. CASE CloseCall
    BY <1>12 DEF CloseCall, Handed, Handing, Room, assembly
<1>13. CASE CloseStopped
    BY <1>13 DEF CloseStopped, Handed, Handing, Room, assembly
<1>14. CASE CloseWakes
    BY <1>14 DEF CloseWakes, Handed, Handing, Room, assembly
<1>15. CASE CloseFrees
    BY <1>15 DEF CloseFrees, Handed, Handing, Room, assembly
<1>16. CASE UNCHANGED vars
    BY <1>16 DEF vars, Room
<1> QED
    BY <1>1, <1>2, <1>3, <1>4, <1>5, <1>6, <1>7, <1>8, <1>9, <1>10, <1>11, <1>12, <1>13, <1>14, <1>15, <1>16
    DEF Next, Interrupt, ReaderStep, OwnerStep

-----------------------------------------------------------------------------
(***************************************************************************)
(* The order of arrival.                                                   *)
(***************************************************************************)

\* What an interrupt does to the camera's position.
Advance(last) ==
    IF last THEN frame' = frame + 1 /\ piece' = 0
            ELSE frame' = frame /\ piece' = piece + 1

NewPiece(last) == [f |-> frame, k |-> piece + 1, last |-> last]

LEMMA PastStays ==
    ASSUME TypeOK, NEW last \in BOOLEAN, Advance(last),
           NEW x, x.f \in Nat, x.k \in Nat, Past(x, frame, piece)
    PROVE  Past(x, frame', piece') /\ Precedes(x, NewPiece(last))
BY DEF TypeOK, Advance, Past, Precedes, NewPiece

LEMMA NewIsPast ==
    ASSUME TypeOK, NEW last \in BOOLEAN, Advance(last)
    PROVE  Past(NewPiece(last), frame', piece')
BY DEF TypeOK, Advance, Past, NewPiece

LEMMA SmallMod == ASSUME NEW m \in Nat \ {0}, NEW a \in 0 .. m - 1 PROVE a % m = a
OBVIOUS

LEMMA PieceTypes ==
    ASSUME TypeOK
    PROVE  /\ \A i \in 1 .. Len(pending) :
                  /\ pending[i] \in Hdr
                  /\ pending[i].piece.f \in Nat /\ pending[i].piece.k \in Nat
           /\ \A i \in 1 .. Len(buf) : buf[i].f \in Nat /\ buf[i].k \in Nat
<1>1. pending \in Seq(Hdr) /\ buf \in Seq(TakenPieces)
    BY DEF TypeOK
<1>2. ASSUME NEW i \in 1 .. Len(pending)
      PROVE  /\ pending[i] \in Hdr
             /\ pending[i].piece.f \in Nat /\ pending[i].piece.k \in Nat
    <2>1. pending[i] \in Hdr
        BY <1>1, ElementOfSeq
    <2> QED
        BY <2>1 DEF Hdr, Pieces
<1>3. ASSUME NEW i \in 1 .. Len(buf)
      PROVE  buf[i].f \in Nat /\ buf[i].k \in Nat
    <2>1. buf[i] \in TakenPieces
        BY <1>1, ElementOfSeq
    <2> QED
        BY <2>1 DEF TakenPieces
<1> QED
    BY <1>2, <1>3

\* The packet an interrupt adds, if it finds a buffer.
LEMMA HeaderAdds ==
    ASSUME TypeOK, NEW last \in BOOLEAN, NEW eof \in BOOLEAN, frame < MaxFrames,
           video_buffer_add_pkt_header(last, eof)
    PROVE  \/ pending' = pending
           \/ \E h \in Hdr : /\ pending' = Append(pending, h)
                             /\ h.id = frame /\ h.piece = NewPiece(last)
<1> DEFINE h == [id |-> frame % IdMod, seq |-> (g_pkt_seq + 1) % SeqMod, eof |-> eof,
                 piece |-> NewPiece(last)]
<1>1. frame % IdMod \in 0 .. IdMod - 1 /\ (g_pkt_seq + 1) % SeqMod \in 0 .. SeqMod - 1
    BY VideoBufferAssumption DEF TypeOK
<1>2. frame % IdMod = frame
    <2>1. IdMod \in Nat \ {0} /\ frame \in 0 .. IdMod - 1
        BY VideoBufferAssumption DEF TypeOK
    <2> QED
        BY <2>1, SmallMod
<1>3. NewPiece(last) \in Pieces
    BY DEF TypeOK, Pieces, NewPiece
<1>4. h \in Hdr /\ h.id = frame /\ h.piece = NewPiece(last)
    BY <1>1, <1>2, <1>3 DEF Hdr
<1>5. pending' = Append(pending, h) \/ pending' = pending
    BY DEF video_buffer_add_pkt_header, NewPiece
<1> HIDE DEF h
<1> QED
    BY <1>4, <1>5

\* An interrupt keeps the order.
LEMMA HeaderOrder ==
    ASSUME TypeOK, Arrival, NEW last \in BOOLEAN, NEW eof \in BOOLEAN,
           frame < MaxFrames, Advance(last), video_buffer_add_pkt_header(last, eof)
    PROVE  /\ Arrival'
           /\ Grown /\ UNCHANGED <<buf, frame_id, reads>> => Grown'
<1>1. pending \in Seq(Hdr) /\ Len(pending) \in Nat
    BY DEF TypeOK
<1>2. \A i \in 1 .. Len(pending) :
          /\ Past(pending[i].piece, frame', piece')
          /\ Precedes(pending[i].piece, NewPiece(last))
    <2> SUFFICES ASSUME NEW i \in 1 .. Len(pending)
                 PROVE  /\ Past(pending[i].piece, frame', piece')
                        /\ Precedes(pending[i].piece, NewPiece(last))
        OBVIOUS
    <2>1. pending[i].piece.f \in Nat /\ pending[i].piece.k \in Nat
        BY PieceTypes
    <2> QED
        BY <2>1, PastStays DEF Arrival
<1>3. Grown => \A i \in 1 .. Len(buf) :
                  /\ Past(buf[i], frame', piece')
                  /\ Precedes(buf[i], NewPiece(last))
    <2> SUFFICES ASSUME Grown, NEW i \in 1 .. Len(buf)
                 PROVE  /\ Past(buf[i], frame', piece')
                        /\ Precedes(buf[i], NewPiece(last))
        OBVIOUS
    <2>1. buf[i].f \in Nat /\ buf[i].k \in Nat
        BY PieceTypes
    <2>2. Past(buf[i], frame, piece)
        BY DEF Grown
    <2> QED
        BY <2>1, <2>2, PastStays
<1>4. CASE pending' = pending
    <2>1. Arrival'
        BY <1>2, <1>4 DEF Arrival
    <2>2. Grown /\ UNCHANGED <<buf, frame_id, reads>> => Grown'
        BY <1>3, <1>4 DEF Grown
    <2> QED
        BY <2>1, <2>2
<1>5. CASE pending' # pending
    <2>1. PICK h \in Hdr : /\ pending' = Append(pending, h)
                           /\ h.id = frame /\ h.piece = NewPiece(last)
        BY <1>5, HeaderAdds
    <2>2. /\ Len(pending') = Len(pending) + 1
          /\ \A i \in 1 .. Len(pending) : pending'[i] = pending[i]
          /\ pending'[Len(pending) + 1] = h
        BY <1>1, <2>1
    <2>3. Past(h.piece, frame', piece') /\ h.id = h.piece.f
        BY <2>1, NewIsPast DEF NewPiece
    <2>4. Arrival'
        BY <1>1, <1>2, <2>1, <2>2, <2>3 DEF Arrival
    <2>5. Grown /\ UNCHANGED <<buf, frame_id, reads>> => Grown'
        BY <1>1, <1>3, <2>1, <2>2 DEF Grown
    <2> QED
        BY <2>4, <2>5
<1> QED
    BY <1>4, <1>5

\* Taking a packet keeps the order of the others.
LEMMA TakeOrder ==
    ASSUME TypeOK, Arrival, video_buffer_recv_video_data
    PROVE  /\ Arrival'
           /\ Grown /\ UNCHANGED <<buf, frame_id>> => Grown'
<1>1. /\ pending' = Tail(pending) /\ Len(pending) \in Nat \ {0}
      /\ Len(Tail(pending)) = Len(pending) - 1
      /\ \A i \in 1 .. Len(pending) - 1 : Tail(pending)[i] = pending[i + 1]
      /\ UNCHANGED <<frame, piece, reads>>
    BY RecvRest
<1>2. /\ Len(pending') = Len(pending) - 1
      /\ \A i \in 1 .. Len(pending') : i + 1 \in 1 .. Len(pending) /\ pending'[i] = pending[i + 1]
    BY <1>1
<1>3. Arrival'
    BY <1>1, <1>2 DEF Arrival
<1>4. Grown /\ UNCHANGED <<buf, frame_id>> => Grown'
    BY <1>1, <1>2 DEF Grown
<1> QED
    BY <1>3, <1>4

\* Adding the packet to the pieces of its frame, or to none, keeps the
\* numbers growing.
LEMMA TakeGrows ==
    ASSUME TypeOK, Arrival, video_buffer_recv_video_data,
           NEW b \in Seq(TakenPieces), buf' = Append(b, Taken(Head(pending))),
           frame_id' = Head(pending).id,
           b = <<>> \/ (b = buf /\ Grown /\ Head(pending).id = frame_id)
    PROVE  Grown'
<1> DEFINE p == Head(pending)
           t == Taken(p)
           n == Len(b)
<1>1. /\ pending' = Tail(pending) /\ Len(pending) \in Nat \ {0}
      /\ Len(Tail(pending)) = Len(pending) - 1
      /\ \A i \in 1 .. Len(pending) - 1 : Tail(pending)[i] = pending[i + 1]
      /\ UNCHANGED <<frame, piece, reads>>
      /\ p \in Hdr /\ p = pending[1]
    BY RecvRest
<1>2. /\ t \in TakenPieces /\ t.k = p.piece.k /\ t.f = p.piece.f
      /\ t.last = p.piece.last /\ t.read = reads
    BY <1>1, TakenType
<1> HIDE DEF p, t
<1>3. /\ Past(p.piece, frame, piece) /\ p.id = p.piece.f
      /\ \A j \in 1 .. Len(pending) - 1 : Precedes(p.piece, pending[j + 1].piece)
    BY <1>1 DEF Arrival
<1>4. Past(t, frame, piece) /\ \A y : Precedes(p.piece, y) => Precedes(t, y)
    BY <1>2, <1>3 DEF Past, Precedes
<1>5. /\ n \in Nat /\ Len(buf') = n + 1
      /\ \A i \in 1 .. n : buf'[i] = b[i]
      /\ buf'[n + 1] = t
    BY <1>2 DEF p, t
<1>6. /\ Len(pending') = Len(pending) - 1
      /\ \A i \in 1 .. Len(pending') : i + 1 \in 1 .. Len(pending) /\ pending'[i] = pending[i + 1]
    BY <1>1
<1>7. /\ t.f = frame_id' /\ t.read = reads' /\ Past(t, frame', piece')
      /\ \A j \in 1 .. Len(pending') : Precedes(t, pending'[j].piece)
    BY <1>1, <1>2, <1>3, <1>4, <1>6 DEF p
<1>8. \A i \in 1 .. n :
          /\ b[i].f = frame_id' /\ b[i].read = reads' /\ Past(b[i], frame', piece')
          /\ \A j \in 1 .. Len(pending') : Precedes(b[i], pending'[j].piece)
          /\ b[i].f \in Nat /\ b[i].k \in Nat
          /\ b[i].k < t.k /\ ~b[i].last
    <2>1. CASE b = <<>>
        BY <1>5, <2>1
    <2>2. CASE b = buf /\ Grown /\ p.id = frame_id
        <3> SUFFICES ASSUME NEW i \in 1 .. n
                     PROVE  /\ b[i].f = frame_id' /\ b[i].read = reads' /\ Past(b[i], frame', piece')
                            /\ \A j \in 1 .. Len(pending') : Precedes(b[i], pending'[j].piece)
                            /\ b[i].f \in Nat /\ b[i].k \in Nat
                            /\ b[i].k < t.k /\ ~b[i].last
            OBVIOUS
        <3>1. /\ b[i].f = frame_id /\ b[i].read = reads /\ Past(b[i], frame, piece)
              /\ \A j \in 1 .. Len(pending) : Precedes(b[i], pending[j].piece)
              /\ b[i].f \in Nat /\ b[i].k \in Nat
            BY <2>2, PieceTypes DEF Grown
        <3>2. Precedes(b[i], p.piece)
            BY <1>1, <3>1
        <3>3. b[i].k < t.k /\ ~b[i].last
            BY <1>2, <1>3, <2>2, <3>1, <3>2 DEF Precedes
        <3>4. frame_id' = frame_id
            BY <2>2 DEF p
        <3> QED
            BY <1>1, <1>6, <3>1, <3>3, <3>4
    <2> QED
        BY <2>1, <2>2 DEF p
<1>9. \A i, j \in 1 .. n : i < j => b[j].k - b[i].k >= j - i
    <2>1. CASE b = <<>>
        BY <1>5, <2>1
    <2>2. CASE b = buf /\ Grown
        BY <2>2 DEF Grown
    <2> QED
        BY <2>1, <2>2
<1>10. t.k \in Nat
    BY <1>2 DEF TakenPieces
<1>11. \A i \in 1 .. n : t.k - b[i].k >= n + 1 - i
    <2> SUFFICES ASSUME NEW i \in 1 .. n PROVE t.k - b[i].k >= n + 1 - i
        OBVIOUS
    <2>1. n \in 1 .. n /\ b[n].k < t.k /\ b[n].k \in Nat /\ b[i].k \in Nat /\ b[i].k < t.k
        <3>1. n \in 1 .. n
            BY <1>5
        <3> QED
            BY <1>8, <3>1
    <2>2. i = n \/ b[n].k - b[i].k >= n - i
        BY <1>5, <1>9, <2>1
    <2>3. i \in Nat /\ n \in Nat
        BY <1>5
    <2> HIDE DEF n
    <2>4. \A x, y, z \in Nat : y < z /\ x < z /\ ((i = n /\ x = y) \/ y - x >= n - i) => z - x >= n + 1 - i
        BY <2>3
    <2> QED
        BY <1>10, <2>1, <2>2, <2>4
<1> HIDE DEF n
<1>12. \A i \in 1 .. Len(buf') :
          /\ buf'[i].f = frame_id' /\ buf'[i].read = reads' /\ Past(buf'[i], frame', piece')
          /\ \A j \in 1 .. Len(pending') : Precedes(buf'[i], pending'[j].piece)
    BY <1>5, <1>7, <1>8
<1>13. \A i, j \in 1 .. Len(buf') :
          i < j => buf'[j].k - buf'[i].k >= j - i /\ ~buf'[i].last
    <2> SUFFICES ASSUME NEW i \in 1 .. Len(buf'), NEW j \in 1 .. Len(buf'), i < j
                 PROVE  buf'[j].k - buf'[i].k >= j - i /\ ~buf'[i].last
        OBVIOUS
    <2>1. i \in 1 .. n /\ buf'[i] = b[i]
        BY <1>5
    <2>2. CASE j = n + 1
        BY <1>5, <1>8, <1>11, <2>1, <2>2
    <2>3. CASE j \in 1 .. n
        BY <1>5, <1>8, <1>9, <2>1, <2>3
    <2> QED
        BY <1>5, <2>2, <2>3
<1> QED
    BY <1>12, <1>13 DEF Grown

\* The start marker, the end marker and the length are enough for pieces
\* whose numbers grow.
LEMMA GrownIsWhole ==
    ASSUME NEW b \in Seq(TakenPieces), NEW r, NEW id, RightImage(b), Len(b) > 0,
           \A i \in 1 .. Len(b) : b[i].f = id /\ b[i].read = r,
           \A i, j \in 1 .. Len(b) :
               i < j => b[j].k - b[i].k >= j - i /\ ~b[i].last
    PROVE  WholeFrame(b, r)
<1> DEFINE n == Len(b)
<1>1. n \in Nat \ {0} /\ b[1].k = 1 /\ b[n].last /\ b[n].k = n
    BY DEF RightImage
<1>2. ASSUME NEW i \in 1 .. n
      PROVE  b[i].k = i /\ b[i].f = b[1].f /\ b[i].last = (i = n) /\ b[i].read = r
    <2>1. b[i].k \in Nat /\ b[i].last \in BOOLEAN
        <3>1. b[i] \in TakenPieces
            BY ElementOfSeq
        <3> QED
            BY <3>1 DEF TakenPieces
    <2>2. i = 1 \/ b[i].k - b[1].k >= i - 1
        BY <1>1
    <2>3. i = n \/ (b[n].k - b[i].k >= n - i /\ ~b[i].last)
        BY <1>1
    <2>4. b[i].k = i
        BY <1>1, <2>1, <2>2, <2>3
    <2>5. b[i].last = (i = n)
        BY <1>1, <2>1, <2>3
    <2>6. b[i].f = b[1].f /\ b[i].read = r
        BY <1>1
    <2> QED
        BY <2>4, <2>5, <2>6
<1> QED
    BY <1>2 DEF WholeFrame

\* An interrupt, as the two next lemmas see it.
LEMMA InterruptIs ==
    ASSUME Node \/ LastNode
    PROVE  /\ \E last, eof \in BOOLEAN :
                  Advance(last) /\ video_buffer_add_pkt_header(last, eof)
           /\ frame < MaxFrames
           /\ UNCHANGED <<start_buf, buf, frame_id, reads, res>>
<1>1. CASE Node
    BY <1>1 DEF Node, Advance, assembly, reader
<1>2. CASE LastNode
    BY <1>2 DEF LastNode, Advance, assembly, reader
<1> QED
    BY <1>1, <1>2

LEMMA ArrivalStep == IInv /\ [Next]_vars => Arrival'
<1> SUFFICES ASSUME TypeOK, Handed, Arrival, [Next]_vars PROVE Arrival'
    BY DEF IInv
<1>1. CASE Node
    <2>1. PICK last \in BOOLEAN, eof \in BOOLEAN :
               Advance(last) /\ video_buffer_add_pkt_header(last, eof)
        BY <1>1, InterruptIs
    <2>2. frame < MaxFrames
        BY <1>1, InterruptIs
    <2> QED
        BY <2>1, <2>2, HeaderOrder
<1>2. CASE LastNode
    <2>1. PICK last \in BOOLEAN, eof \in BOOLEAN :
               Advance(last) /\ video_buffer_add_pkt_header(last, eof)
        BY <1>2, InterruptIs
    <2>2. frame < MaxFrames
        BY <1>2, InterruptIs
    <2> QED
        BY <2>1, <2>2, HeaderOrder
<1>3. CASE video_buffer_recv_video_data
    BY <1>3, TakeOrder
<1>4. CASE ReadCall
    BY <1>4 DEF ReadCall, camera, Arrival
<1>5. CASE ReadDrain
    BY <1>5 DEF ReadDrain, camera, Arrival
<1>6. CASE ReadPublish
    BY <1>6 DEF ReadPublish, camera, Arrival
<1>7. CASE ReadWake
    BY <1>7 DEF ReadWake, camera, Arrival
<1>8. CASE ReadTimeout
    BY <1>8 DEF ReadTimeout, camera, Arrival
<1>9. CASE ReadJudge
    BY <1>9 DEF ReadJudge, camera, Arrival
<1>10. CASE ReadClear
    BY <1>10 DEF ReadClear, camera, Arrival
<1>11. CASE video_buffer_open
    <2>1. pending = <<>> /\ pending' = <<>>
        BY <1>11 DEF video_buffer_open, Handed, Serving
    <2> QED
        BY <2>1 DEF Arrival
<1>12. CASE CloseCall
    BY <1>12 DEF CloseCall, camera, Arrival
<1>13. CASE CloseStopped
    BY <1>13 DEF CloseStopped, Arrival
<1>14. CASE CloseWakes
    BY <1>14 DEF CloseWakes, camera, Arrival
<1>15. CASE CloseFrees
    BY <1>15 DEF CloseFrees, camera, Arrival
<1>16. CASE UNCHANGED vars
    BY <1>16 DEF vars, Arrival
<1> QED
    BY <1>1, <1>2, <1>3, <1>4, <1>5, <1>6, <1>7, <1>8, <1>9, <1>10, <1>11, <1>12, <1>13, <1>14, <1>15, <1>16
    DEF Next, Interrupt, ReaderStep, OwnerStep

LEMMA CopyingStep == IInv /\ [Next]_vars => Copying'
<1> SUFFICES ASSUME TypeOK, Handed, Arrival, Copying, [Next]_vars PROVE Copying'
    BY DEF IInv
<1>1. CASE Node
    <2>1. PICK last \in BOOLEAN, eof \in BOOLEAN :
               Advance(last) /\ video_buffer_add_pkt_header(last, eof)
        BY <1>1, InterruptIs
    <2>2. frame < MaxFrames /\ UNCHANGED <<start_buf, buf, frame_id, reads>>
        BY <1>1, InterruptIs
    <2>3. Grown => Grown'
        BY <2>1, <2>2, HeaderOrder
    <2> QED
        BY <2>2, <2>3 DEF Copying
<1>2. CASE LastNode
    <2>1. PICK last \in BOOLEAN, eof \in BOOLEAN :
               Advance(last) /\ video_buffer_add_pkt_header(last, eof)
        BY <1>2, InterruptIs
    <2>2. frame < MaxFrames /\ UNCHANGED <<start_buf, buf, frame_id, reads>>
        BY <1>2, InterruptIs
    <2>3. Grown => Grown'
        BY <2>1, <2>2, HeaderOrder
    <2> QED
        BY <2>2, <2>3 DEF Copying
<1>3. CASE video_buffer_recv_video_data
    <2> DEFINE p == Head(pending)
    <2>1. Skips \/ Starts(p) \/ Continues(p)
        BY <1>3, RecvCases
    <2>2. buf \in Seq(TakenPieces) /\ <<>> \in Seq(TakenPieces)
        BY EmptySeq DEF TypeOK
    <2>3. CASE Skips
        BY <1>3, <2>3, TakeOrder DEF Skips, Copying
    <2>4. CASE Starts(p) /\ start_buf' = "COPY"
        <3>1. buf' = Append(<<>>, Taken(p)) /\ frame_id' = p.id
            BY <2>4 DEF Starts, Outcome
        <3> QED
            BY <1>3, <2>2, <3>1, TakeGrows DEF Copying
    <2>5. CASE Continues(p) /\ start_buf' = "COPY"
        <3>1. buf' = Append(buf, Taken(p)) /\ frame_id' = p.id /\ p.id = frame_id /\ Grown
            BY <2>5 DEF Continues, Outcome, Copying
        <3> QED
            BY <1>3, <2>2, <3>1, TakeGrows DEF Copying
    <2> QED
        BY <2>1, <2>3, <2>4, <2>5 DEF Copying
<1>4. CASE ReadCall
    BY <1>4 DEF ReadCall, Handed, Handing, Copying, Grown, camera, assembly, reader
<1>5. CASE ReadDrain
    BY <1>5 DEF ReadDrain, Handed, Handing, Copying, Grown, camera, assembly, reader
<1>6. CASE ReadPublish
    BY <1>6 DEF ReadPublish, Handed, Handing, Copying, Grown, camera, assembly, reader
<1>7. CASE ReadWake
    BY <1>7 DEF ReadWake, Handed, Handing, Copying, Grown, camera, assembly, reader
<1>8. CASE ReadTimeout
    BY <1>8 DEF ReadTimeout, Handed, Handing, Copying, Grown, camera, assembly, reader
<1>9. CASE ReadJudge
    BY <1>9 DEF ReadJudge, Handed, Handing, Copying, Grown, camera, assembly, reader
<1>10. CASE ReadClear
    BY <1>10 DEF ReadClear, Handed, Handing, Copying, Grown, camera, assembly, reader
<1>11. CASE video_buffer_open
    BY <1>11 DEF video_buffer_open, Handed, Handing, Copying, Grown, camera, assembly, reader
<1>12. CASE CloseCall
    BY <1>12 DEF CloseCall, Handed, Handing, Copying, Grown, camera, assembly, reader
<1>13. CASE CloseStopped
    <2>1. /\ pending' = <<>> /\ Len(<<>>) = 0
          /\ UNCHANGED <<frame, piece, buf, frame_id, reads, start_buf>>
        BY <1>13 DEF CloseStopped, camera, assembly, reader
    <2> QED
        BY <2>1 DEF Copying, Grown
<1>14. CASE CloseWakes
    BY <1>14 DEF CloseWakes, Handed, Handing, Copying, Grown, camera, assembly, reader
<1>15. CASE CloseFrees
    BY <1>15 DEF CloseFrees, Handed, Handing, Copying, Grown, camera, assembly, reader
<1>16. CASE UNCHANGED vars
    BY <1>16 DEF vars, Copying, Grown
<1> QED
    BY <1>1, <1>2, <1>3, <1>4, <1>5, <1>6, <1>7, <1>8, <1>9, <1>10, <1>11, <1>12, <1>13, <1>14, <1>15, <1>16
    DEF Next, Interrupt, ReaderStep, OwnerStep

LEMMA WholeStep == IInv /\ [Next]_vars => Whole'
<1> SUFFICES ASSUME TypeOK, Handed, Arrival, Copying, Whole, [Next]_vars PROVE Whole'
    BY DEF IInv
<1>1. CASE Node
    BY <1>1, InterruptIs DEF Whole
<1>2. CASE LastNode
    BY <1>2, InterruptIs DEF Whole
<1>3. CASE video_buffer_recv_video_data
    <2> DEFINE p == Head(pending)
    <2>1. Skips \/ Starts(p) \/ Continues(p)
        BY <1>3, RecvCases
    <2>2. UNCHANGED <<res, reads>>
        BY <1>3, RecvRest
    <2>3. CASE Skips
        BY <2>2, <2>3 DEF Skips, Whole
    <2>4. ASSUME NEW b \in Seq(TakenPieces), Outcome(p, b), frame_id' = p.id,
                 b = <<>> \/ (b = buf /\ Grown /\ p.id = frame_id)
          PROVE  start_buf' = "GET" => WholeFrame(buf', reads')
        <3> SUFFICES ASSUME start_buf' = "GET" PROVE WholeFrame(buf', reads')
            OBVIOUS
        <3>1. buf' = Append(b, Taken(p)) /\ RightImage(buf')
            BY <2>4 DEF Outcome
        <3>2. Taken(p) \in TakenPieces
            BY <1>3, RecvRest, TakenType
        <3>3. buf' \in Seq(TakenPieces) /\ Len(buf') > 0
            BY <2>4, <3>1, <3>2
        <3>4. Grown'
            BY <1>3, <2>4, <3>1, TakeGrows
        <3>5. /\ \A i \in 1 .. Len(buf') : buf'[i].f = frame_id' /\ buf'[i].read = reads'
              /\ \A i, j \in 1 .. Len(buf') :
                     i < j => buf'[j].k - buf'[i].k >= j - i /\ ~buf'[i].last
            BY <3>4 DEF Grown
        <3> QED
            BY <3>1, <3>3, <3>5, GrownIsWhole
    <2>5. CASE Starts(p)
        <3>1. Outcome(p, <<>>) /\ frame_id' = p.id /\ <<>> \in Seq(TakenPieces)
            BY <2>5, EmptySeq DEF Starts
        <3> QED
            BY <2>2, <2>4, <3>1 DEF Whole
    <2>6. CASE Continues(p)
        <3>1. /\ Outcome(p, buf) /\ frame_id' = p.id /\ p.id = frame_id /\ Grown
              /\ buf \in Seq(TakenPieces)
            BY <2>6 DEF Continues, Copying, TypeOK
        <3> QED
            BY <2>2, <2>4, <3>1 DEF Whole
    <2> QED
        BY <2>1, <2>3, <2>5, <2>6
<1>4. CASE ReadCall
    BY <1>4 DEF ReadCall, NoData, Handed, Handing, Whole
<1>5. CASE ReadDrain
    BY <1>5 DEF ReadDrain, Whole, assembly, reader
<1>6. CASE ReadPublish
    BY <1>6 DEF ReadPublish, Whole, assembly, reader
<1>7. CASE ReadWake
    BY <1>7 DEF ReadWake, Whole, assembly, reader
<1>8. CASE ReadTimeout
    BY <1>8 DEF ReadTimeout, Whole, assembly, reader
<1>9. CASE ReadJudge
    <2>1. res'.err = 0 => start_buf = "GET" /\ res'.data = buf
        BY <1>9 DEF ReadJudge, ErrCode
    <2> QED
        BY <1>9, <2>1 DEF ReadJudge, Whole, assembly
<1>10. CASE ReadClear
    BY <1>10 DEF ReadClear, Whole, assembly, reader
<1>11. CASE video_buffer_open
    BY <1>11 DEF video_buffer_open, Whole, assembly, reader
<1>12. CASE CloseCall
    BY <1>12 DEF CloseCall, Whole, assembly, reader
<1>13. CASE CloseStopped
    BY <1>13 DEF CloseStopped, Whole, assembly, reader
<1>14. CASE CloseWakes
    BY <1>14 DEF CloseWakes, Whole, assembly, reader
<1>15. CASE CloseFrees
    BY <1>15 DEF CloseFrees, Whole, assembly, reader
<1>16. CASE UNCHANGED vars
    BY <1>16 DEF vars, Whole
<1> QED
    BY <1>1, <1>2, <1>3, <1>4, <1>5, <1>6, <1>7, <1>8, <1>9, <1>10, <1>11, <1>12, <1>13, <1>14, <1>15, <1>16
    DEF Next, Interrupt, ReaderStep, OwnerStep

-----------------------------------------------------------------------------
(***************************************************************************)
(* The results.                                                            *)
(***************************************************************************)

LEMMA BufferInvariant == Spec => []IInv
<1>1. Init => IInv
    <2> SUFFICES ASSUME Init PROVE IInv
        OBVIOUS
    <2>1. Handed /\ Settled /\ Room
        BY DEF Init, NoData, Handed, Handing, Settled, UnknownOnlyFromClose, Room
    <2>2. Arrival /\ Copying /\ Whole
        BY DEF Init, NoData, Arrival, Copying, Whole
    <2> QED
        BY <2>1, <2>2, TypeInit DEF IInv
<1>2. IInv /\ [Next]_vars => IInv'
    <2>1. IInv /\ [Next]_vars => TypeOK'
        BY TypeStep DEF IInv
    <2> QED
        BY <2>1, HandedStep, SettledStep, RoomStep, ArrivalStep, CopyingStep, WholeStep
        DEF IInv
<1> QED
    BY <1>1, <1>2, PTL DEF Spec

\* A successful video_buffer_read_frame hands over one frame, whole, in order
\* and received during that read.
THEOREM SuccessfulReadIsWhole == Spec => []SuccessIsWhole
<1>1. IInv => SuccessIsWhole
    BY DEF IInv, Whole, WholeFrame, SuccessIsWhole
<1> QED
    BY <1>1, BufferInvariant, PTL

\* Nothing is written past the end of the reader's buffer.
THEOREM FrameFits == Spec => []FitsTheBuffer
<1>1. IInv => FitsTheBuffer
    BY DEF IInv, Room, FitsTheBuffer
<1> QED
    BY <1>1, BufferInvariant, PTL

\* The unknown error means that video_buffer_close woke the reader.
THEOREM UnknownMeansClose == Spec => []UnknownOnlyFromClose
<1>1. IInv => UnknownOnlyFromClose
    BY DEF IInv, Settled
<1> QED
    BY <1>1, BufferInvariant, PTL

\* A close does not free the block under a reader.
THEOREM ReaderIsWaitedFor == Spec => []ReaderKeepsBlock
<1>1. IInv => ReaderKeepsBlock
    BY DEF IInv, Handed, Handing, ReaderKeepsBlock
<1> QED
    BY <1>1, BufferInvariant, PTL
=============================================================================
