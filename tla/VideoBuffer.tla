---------------------------- MODULE VideoBuffer ----------------------------
(***************************************************************************)
(* app/video_work/video_buffer.c: frames of the camera, put together from  *)
(* packets in a buffer the reading thread hands in.                        *)
(*                                                                         *)
(*   the camera      sends a frame as pieces 1, 2, ...; the interrupt puts *)
(*                   a header before each piece that finds a buffer;       *)
(*   the video thread (VideoTransfer, seen through PacketStream) passes    *)
(*                   the packets to video_buffer_recv_video_data;          *)
(*   the reader      video_buffer_read_frame, with a timeout;              *)
(*   the owner       video_buffer_open and video_buffer_close.             *)
(*                                                                         *)
(* Reader and owner run below the video thread (console priority), so      *)
(* video_buffer_recv_video_data is one step for them.  Lengths are counted *)
(* in packets.                                                             *)
(***************************************************************************)
EXTENDS Integers, Sequences

CONSTANTS PoolLen,      \* buffers of the video transfer's pool
          BufLens,      \* lengths of the buffers handed in
          IdMod,        \* 256: hdr.id is a UINT8
          SeqMod,       \* 256: hdr.pkt_seq is a UINT8
          MaxFrames,    \* bound: frames of a session
          MaxPieces,    \* bound: pieces of a frame
          MaxReads,     \* bound: calls of video_buffer_read_frame
          MaxOpens      \* bound: calls of video_buffer_open

ASSUME VideoBufferAssumption ==
    /\ PoolLen \in Nat /\ BufLens \subseteq Nat \ {0}
    /\ IdMod \in Nat \ {0} /\ SeqMod \in Nat \ {0}
    /\ MaxFrames \in 0 .. IdMod /\ MaxPieces \in Nat
    /\ MaxReads \in Nat /\ MaxOpens \in Nat

VARIABLES
    frame,      \* the camera's frame, tvideo_pool.frame_id
    piece,      \* pieces of it that came so far
    g_pkt_seq,  \* never reset by an open
    pending,    \* packets between the interrupt and the video thread
    vbuf,       \* g_vbuf is allocated
    sem,        \* aready_semaphore and who set it: see Sem
    base,       \* buf_base # NULL
    buf_len,
    frame_id,
    frame_pkt_cnt,
    start_buf,
    buf,        \* the pieces from buf_base to buf_ptr, each with its read
    rd,         \* where the reader is: see Rd
    woken,      \* who woke the reader; "timeout" if nobody did
    res,        \* err_code and data of the read under way or the last one
    reads,      \* reads begun so far
    own,        \* where the owner is: see Own
    opens       \* opens so far

vars == <<frame, piece, g_pkt_seq, pending, vbuf, sem, base, buf_len, frame_id,
          frame_pkt_cnt, start_buf, buf, rd, woken, res, reads, own, opens>>

camera == <<frame, piece, g_pkt_seq>>
assembly == <<frame_id, frame_pkt_cnt, buf>>
reader == <<rd, woken, res, reads>>
owner == <<own, opens>>

States == {"INIT", "COPY", "GET", "FULL", "ERR"}
Sem == {"clear", "recv", "close"}
Rd == {"out", "checked", "drained", "waiting", "judging", "clearing", "fault"}
Own == {"out", "stopping", "waking"}
NoFrame == 65535        \* 0xffff, no hdr.id

Pieces == [f : Nat, k : Nat, last : BOOLEAN]
Hdr == [id : 0 .. IdMod - 1, seq : 0 .. SeqMod - 1, eof : BOOLEAN, piece : Pieces]
NoData == [err |-> -5, data |-> <<>>]

----------------------------------------------------------------------------
Init ==
    /\ frame = 0 /\ piece = 0 /\ g_pkt_seq = 0
    /\ pending = <<>>
    /\ vbuf = FALSE /\ sem = "clear" /\ base = FALSE /\ buf_len = 0
    /\ frame_id = NoFrame /\ frame_pkt_cnt = 0 /\ start_buf = "INIT" /\ buf = <<>>
    /\ rd = "out" /\ woken = "timeout" /\ res = NoData /\ reads = 0
    /\ own = "out" /\ opens = 0

\* The video thread serves from the open to the end of the deinit.
Serving == vbuf /\ own \in {"out", "stopping"}

(***************************************************************************)
(* The interrupt.  A packet that finds no buffer is lost before            *)
(* video_buffer_add_pkt_header, and leaves no gap in the numbers.  The     *)
(* last piece of a frame is marked eof unless it fills its packet exactly. *)
(***************************************************************************)
video_buffer_add_pkt_header(last, eof) ==
    IF Len(pending) < PoolLen
    THEN /\ pending' = Append(pending,
                [id |-> frame % IdMod, seq |-> (g_pkt_seq + 1) % SeqMod, eof |-> eof,
                 piece |-> [f |-> frame, k |-> piece + 1, last |-> last]])
         /\ g_pkt_seq' = IF eof THEN 0 ELSE g_pkt_seq + 1
    ELSE UNCHANGED <<pending, g_pkt_seq>>

Node ==
    /\ Serving /\ frame < MaxFrames /\ piece + 1 < MaxPieces
    /\ video_buffer_add_pkt_header(FALSE, FALSE)
    /\ piece' = piece + 1
    /\ UNCHANGED <<frame, vbuf, sem, base, buf_len, start_buf, assembly, reader, owner>>

LastNode ==
    /\ Serving /\ frame < MaxFrames
    /\ \E eof \in BOOLEAN : video_buffer_add_pkt_header(TRUE, eof)
    /\ frame' = frame + 1 /\ piece' = 0
    /\ UNCHANGED <<vbuf, sem, base, buf_len, start_buf, assembly, reader, owner>>

----------------------------------------------------------------------------
(***************************************************************************)
(* video_buffer_recv_video_data, in the video thread.                      *)
(***************************************************************************)
\* Mutant: the length at the end of the image is not compared.
RightImageAnyLength(b) == b[1].k = 1 /\ b[Len(b)].last

\* The start marker, the end marker and the length the encoder wrote.
RightImage(b) == b[1].k = 1 /\ b[Len(b)].last /\ b[Len(b)].k = Len(b)

Taken(p) == [k |-> p.piece.k, f |-> p.piece.f, last |-> p.piece.last, read |-> reads]

\* Mutant: the room left is off by one.
CopyOffByOne(p, st, cnt, b) ==
    LET full == Append(b, Taken(p))
    IN  IF Len(b) <= buf_len
        THEN /\ buf' = full
             /\ frame_pkt_cnt' = cnt + 1
             /\ start_buf' = IF ~p.eof THEN st ELSE IF RightImage(full) THEN "GET" ELSE "ERR"
             /\ sem' = IF p.eof THEN "recv" ELSE sem
        ELSE /\ start_buf' = "FULL" /\ sem' = "recv"
             /\ buf' = b /\ frame_pkt_cnt' = cnt

\* A packet of the frame being copied; st, cnt and b are the values after
\* its start was looked at.
Copy(p, st, cnt, b) ==
    LET full == Append(b, Taken(p))
    IN  IF Len(b) < buf_len
        THEN /\ buf' = full
             /\ frame_pkt_cnt' = cnt + 1
             /\ start_buf' = IF ~p.eof THEN st ELSE IF RightImage(full) THEN "GET" ELSE "ERR"
             /\ sem' = IF p.eof THEN "recv" ELSE sem
        ELSE /\ start_buf' = "FULL" /\ sem' = "recv"
             /\ buf' = b /\ frame_pkt_cnt' = cnt

video_buffer_recv_video_data ==
    /\ Serving /\ pending # <<>>
    /\ pending' = Tail(pending)
    /\ LET p == Head(pending)
           sof == p.id # frame_id /\ p.seq = 1
           id == IF sof THEN p.id ELSE frame_id
           cnt == IF sof THEN 0 ELSE frame_pkt_cnt
           st == IF sof THEN "COPY" ELSE start_buf
           b == IF sof THEN <<>> ELSE buf
       IN  IF base /\ start_buf \in {"COPY", "INIT"}
           THEN /\ frame_id' = id
                /\ IF p.id = id /\ cnt + 1 = p.seq /\ st = "COPY"
                   THEN Copy(p, st, cnt, b)
                   ELSE start_buf' = st /\ frame_pkt_cnt' = cnt /\ buf' = b /\ UNCHANGED sem
           ELSE UNCHANGED <<assembly, start_buf, sem>>
    /\ UNCHANGED <<camera, vbuf, base, buf_len, reader, owner>>

----------------------------------------------------------------------------
(***************************************************************************)
(* video_buffer_read_frame.  It looks at g_vbuf once and then uses it: a   *)
(* close in between leaves it a freed block.                               *)
(***************************************************************************)
ReadCall ==
    /\ rd = "out" /\ reads < MaxReads
    /\ reads' = reads + 1
    /\ res' = NoData
    /\ rd' = IF vbuf /\ ~base THEN "checked" ELSE "out"
    /\ UNCHANGED <<camera, pending, vbuf, sem, base, buf_len, start_buf, assembly,
                   woken, owner>>

\* Mutant: the semaphore of an earlier frame is not cleared.
ReadDrainNot ==
    /\ rd = "checked"
    /\ rd' = IF vbuf THEN "drained" ELSE "fault"
    /\ UNCHANGED <<camera, pending, vbuf, sem, base, buf_len, start_buf, assembly,
                   woken, res, reads, owner>>

\* while (rtos_get_semaphore(.., 0) == kNoErr);
ReadDrain ==
    /\ rd = "checked"
    /\ rd' = IF vbuf THEN "drained" ELSE "fault"
    /\ sem' = IF vbuf THEN "clear" ELSE sem
    /\ UNCHANGED <<camera, pending, vbuf, base, buf_len, start_buf, assembly,
                   woken, res, reads, owner>>

ReadPublish ==
    /\ rd = "drained"
    /\ \/ /\ vbuf
          /\ rd' = "waiting" /\ base' = TRUE
          /\ buf_len' \in BufLens
       \/ ~vbuf /\ rd' = "fault" /\ UNCHANGED <<base, buf_len>>
    /\ UNCHANGED <<camera, pending, vbuf, sem, start_buf, assembly, woken, res, reads, owner>>

\* rtos_get_semaphore(.., timeout)
ReadWake ==
    /\ rd = "waiting" /\ sem # "clear"
    /\ rd' = "judging" /\ woken' = sem /\ sem' = "clear"
    /\ UNCHANGED <<camera, pending, vbuf, base, buf_len, start_buf, assembly, res, reads, owner>>

ReadTimeout ==
    /\ rd = "waiting"
    /\ rd' = "judging" /\ woken' = "timeout"
    /\ UNCHANGED <<camera, pending, vbuf, sem, base, buf_len, start_buf, assembly,
                   res, reads, owner>>

ErrCode(st) == CASE st = "GET" -> 0
                 [] st = "FULL" -> -2
                 [] st = "ERR" -> -3
                 [] OTHER -> -4

ReadJudge ==
    /\ rd = "judging" /\ rd' = "clearing"
    /\ res' = IF woken = "timeout" THEN [err |-> -5, data |-> <<>>]
              ELSE [err |-> ErrCode(start_buf),
                    data |-> IF start_buf = "GET" THEN buf ELSE <<>>]
    /\ UNCHANGED <<camera, pending, vbuf, sem, base, buf_len, start_buf, assembly,
                   woken, reads, owner>>

ReadClear ==
    /\ rd = "clearing" /\ rd' = "out"
    /\ start_buf' = "INIT" /\ base' = FALSE /\ buf_len' = 0
    /\ UNCHANGED <<camera, pending, vbuf, sem, assembly, woken, res, reads, owner>>

----------------------------------------------------------------------------
(***************************************************************************)
(* video_buffer_open and video_buffer_close.                               *)
(***************************************************************************)
\* A failing open leaves g_vbuf NULL.  The frame number is that of the new
\* session; g_pkt_seq is not touched.
video_buffer_open ==
    /\ own = "out" /\ ~vbuf /\ opens < MaxOpens
    /\ opens' = opens + 1
    /\ \/ /\ vbuf' = TRUE /\ sem' = "clear" /\ base' = FALSE /\ buf_len' = 0
          /\ frame_id' = NoFrame /\ frame_pkt_cnt' = 0 /\ start_buf' = "INIT" /\ buf' = <<>>
          /\ frame' = 0 /\ piece' = 0
       \/ UNCHANGED <<vbuf, sem, base, buf_len, assembly, start_buf, frame, piece>>
    /\ UNCHANGED <<g_pkt_seq, pending, reader, own>>

CloseCall ==
    /\ own = "out" /\ vbuf
    /\ own' = "stopping"
    /\ UNCHANGED <<camera, pending, vbuf, sem, base, buf_len, start_buf, assembly, reader, opens>>

\* video_transfer_deinit: the thread is gone, with the packets it had.
CloseStopped ==
    /\ own = "stopping" /\ own' = "waking"
    /\ pending' = <<>>
    /\ UNCHANGED <<camera, vbuf, sem, base, buf_len, start_buf, assembly, reader, opens>>

\* Mutant: the close waits for the reader and does not wake it.
CloseWaits ==
    /\ own = "waking" /\ base
    /\ UNCHANGED vars

CloseWakes ==
    /\ own = "waking" /\ base
    /\ sem' = "close"
    /\ UNCHANGED <<camera, pending, vbuf, base, buf_len, start_buf, assembly, reader, owner>>

\* Mutant: the reader is woken and not waited for.
CloseFreesEarly ==
    /\ own = "waking" /\ own' = "out"
    /\ vbuf' = FALSE /\ sem' = "clear" /\ base' = FALSE
    /\ UNCHANGED <<camera, pending, buf_len, start_buf, assembly, reader, opens>>

CloseFrees ==
    /\ own = "waking" /\ ~base
    /\ own' = "out" /\ vbuf' = FALSE /\ sem' = "clear"
    /\ UNCHANGED <<camera, pending, base, buf_len, start_buf, assembly, reader, opens>>

----------------------------------------------------------------------------
Interrupt == Node \/ LastNode

ReaderStep == ReadDrain \/ ReadPublish \/ ReadWake \/ ReadJudge \/ ReadClear

OwnerStep == CloseStopped \/ CloseWakes \/ CloseFrees

Next == \/ Interrupt \/ video_buffer_recv_video_data
        \/ ReadCall \/ ReaderStep \/ ReadTimeout
        \/ video_buffer_open \/ CloseCall \/ OwnerStep

Spec == Init /\ [][Next]_vars

\* Threads that can run do run.  No timeout is assumed to end a wait: the
\* reader may wait with BEKEN_WAIT_FOREVER.
Fairness == WF_vars(ReaderStep) /\ WF_vars(OwnerStep) /\ WF_vars(CloseFrees)

LiveSpec == Spec /\ Fairness

----------------------------------------------------------------------------
(***************************************************************************)
(* Properties.                                                             *)
(***************************************************************************)
TakenPieces == [k : Nat, f : Nat, last : BOOLEAN, read : Nat]

\* Types.
TypeOK ==
    /\ frame \in Nat /\ piece \in Nat /\ g_pkt_seq \in Nat
    /\ pending \in Seq(Hdr) /\ Len(pending) <= PoolLen
    /\ vbuf \in BOOLEAN /\ sem \in Sem /\ base \in BOOLEAN /\ buf_len \in BufLens \cup {0}
    /\ frame_id \in (0 .. IdMod - 1) \cup {NoFrame} /\ frame_pkt_cnt \in Nat
    /\ start_buf \in States /\ buf \in Seq(TakenPieces)
    /\ rd \in Rd /\ woken \in {"timeout", "recv", "close"}
    /\ res \in [err : {0, -2, -3, -4, -5}, data : Seq(TakenPieces)] /\ reads \in Nat
    /\ own \in Own /\ opens \in Nat

\* A read that reports success hands over one frame, whole and in order:
\* lost packets leave no gap in pkt_seq, and a lost or missing eof runs the
\* numbers of two frames together, so it is the length check that rejects
\* what is not whole.  And every byte of it came after that read began:
\* neither the semaphore nor the outcome nor the data of an earlier read is
\* taken for this one's.
SuccessIsWhole ==
    res.err = 0 =>
        /\ Len(res.data) > 0
        /\ \A i \in 1 .. Len(res.data) :
               /\ res.data[i].k = i
               /\ res.data[i].f = res.data[1].f
               /\ res.data[i].last = (i = Len(res.data))
               /\ res.data[i].read = reads

\* Nothing is written past the end of the reader's buffer, whichever read,
\* packet or timeout comes next.
FitsTheBuffer ==
    /\ TypeOK
    /\ base => Len(buf) <= buf_len \/ start_buf = "INIT"

\* A read ends with the unknown error only when video_buffer_close woke it:
\* the wake-up of a frame that came too late for its read is cleared before
\* the next one waits.
UnknownOnlyFromClose == rd = "clearing" /\ res.err = -4 => woken = "close"

\* A close never frees the block under a reader that has handed in its
\* buffer: it waits until the buffer is taken back.
ReaderKeepsBlock == rd \in {"waiting", "judging", "clearing"} => vbuf /\ base

\* A close returns, whoever waits for a frame with whatever timeout.
CloseReturns == own = "stopping" ~> own = "out"
=============================================================================
