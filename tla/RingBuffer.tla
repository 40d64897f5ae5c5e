----------------------------- MODULE RingBuffer -----------------------------
(***************************************************************************)
(* The byte ring of beken378/driver/audio/ring_buffer.c under its two      *)
(* users without DMA.                                                      *)
(*                                                                         *)
(*   Isr = "writer"   the microphone: audio_adc_isr writes samples in the  *)
(*                    interrupt, audio_adc_read reads in a thread;         *)
(*   Isr = "reader"   the speaker: audio_dac_write writes in a thread,     *)
(*                    audio_dac_isr reads samples in the interrupt.        *)
(*                                                                         *)
(* rb_read and rb_write lock nothing: interrupts are off only around the   *)
(* single assignments to rb->wp and rb->rp.  So the thread's call is a     *)
(* sequence of steps between which the interrupt may run, and the          *)
(* interrupt's call is a sequence of steps the thread cannot cut into.     *)
(*                                                                         *)
(* A byte is named by its place in the stream (1, 2, ...), so that a cell  *)
(* of the memory tells whether a reader finds there what was written.      *)
(***************************************************************************)
EXTENDS Integers, Sequences, FiniteSets

CONSTANTS Capacity,    \* rb->capacity, the length of the device's buffer
          Isr,         \* which side runs in the interrupt
          Counts,      \* byte counts a thread asks to write or read
          Frames,      \* bytes of one sample frame: 2 (mono) or 4 (stereo)
          MaxSent      \* bound: bytes sent between two opens

RWP_SAFE_INTERVAL == 4

Sides == {"writer", "reader"}

ASSUME RingAssumption ==
    /\ Capacity \in Nat /\ Capacity > RWP_SAFE_INTERVAL
    /\ Isr \in Sides
    /\ Counts \subseteq Nat /\ Frames \subseteq Nat \ {0}
    /\ MaxSent \in Nat

VARIABLES
    status,     \* aud_adc.status / aud_dac.status
    wp, rp,     \* rb->wp and rb->rp
    mem,        \* rb->address[0 .. Capacity - 1]; 0 is a byte never written
    pc,         \* where each side is: pc["writer"], pc["reader"]
    wn,         \* write_bytes of the rb_write under way
    first,      \* the bytes its first memcpy moves
    rn,         \* required_bytes of the rb_read under way
    snap,       \* wp, the local of rb_read
    buf,        \* the reader's user buffer
    sent,       \* bytes published since the open
    rcvd,       \* bytes consumed since the open
    out         \* the chunk the last rb_read returned

vars == <<status, wp, rp, mem, pc, wn, first, rn, snap, buf, sent, rcvd, out>>
ring == <<wp, rp, mem>>
writeLocals == <<wn, first>>
readLocals == <<rn, snap, buf>>
counters == <<sent, rcvd, out>>

Status == {"CLOSED", "OPENED", "PLAYING", "PAUSE"}
Cells == 0 .. Capacity - 1

Least(a, b) == IF a <= b THEN a ELSE b

\* rb_get_fill_size: rb->rp and rb->wp are read once each.
rb_get_fill_size == IF wp >= rp THEN wp - rp ELSE Capacity - rp + wp

\* The space between wp and the read point r, before the safety interval.
Space(r) == IF wp >= r THEN Capacity - wp + r ELSE r - wp

\* Mutant: the safety interval is not taken off.
rb_get_free_sizeWhole == Space(rp)

rb_get_free_size ==
    IF Space(rp) > RWP_SAFE_INTERVAL THEN Space(rp) - RWP_SAFE_INTERVAL ELSE 0

(***************************************************************************)
(* The device is closed at start-up (os_memset of aud_adc, aud_dac).       *)
(***************************************************************************)
Init ==
    /\ status = "CLOSED"
    /\ wp = 0 /\ rp = 0
    /\ mem = [i \in Cells |-> 0]
    /\ pc = [s \in Sides |-> "idle"]
    /\ wn = 0 /\ first = 0
    /\ rn = 0 /\ snap = 0 /\ buf = <<>>
    /\ sent = 0 /\ rcvd = 0 /\ out = <<>>

\* The interrupt runs to its end before the thread goes on.
MayRun(s) == s = Isr \/ pc[Isr] = "idle"

\* Thread-level calls start only when no call of the thread is under way.
Idle == \A s \in Sides : pc[s] = "idle"

(***************************************************************************)
(* Opening, playing, pausing and closing the device, by the thread that    *)
(* reads or writes it (the audio task of func/audio/audio_intf.c, which    *)
(* plays and pauses only between ddev_open and ddev_close).  The status    *)
(* and the interrupt enable keep the interrupt away from the ring while    *)
(* rb_init or the os_memset rewrites it, so each is one step.              *)
(***************************************************************************)
EmptyRing ==
    /\ wp' = 0 /\ rp' = 0
    /\ sent' = 0 /\ rcvd' = 0 /\ out' = <<>>
    /\ UNCHANGED <<mem, pc, writeLocals, readLocals>>

Open ==
    /\ Idle /\ status = "CLOSED"
    /\ status' = "OPENED"
    /\ EmptyRing

Close ==
    /\ Idle /\ status # "CLOSED"
    /\ status' = "CLOSED"
    /\ EmptyRing

Play ==
    /\ Idle /\ status \notin {"CLOSED", "PLAYING"}
    /\ status' = "PLAYING"
    /\ UNCHANGED <<ring, pc, writeLocals, readLocals, counters>>

Pause ==
    /\ Idle /\ status \notin {"CLOSED", "PAUSE"}
    /\ status' = "PAUSE"
    /\ UNCHANGED <<ring, pc, writeLocals, readLocals, counters>>

(***************************************************************************)
(* The writer.                                                             *)
(***************************************************************************)

\* audio_dac_write: refused when closed, then cut down to the free size.
audio_dac_write ==
    /\ Isr = "reader" /\ Idle
    /\ status # "CLOSED"
    /\ \E count \in Counts :
           /\ sent + count <= MaxSent
           /\ wn' = Least(rb_get_free_size, count)
    /\ pc' = [pc EXCEPT !["writer"] = "check"]
    /\ UNCHANGED <<status, ring, first, readLocals, counters>>

\* audio_adc_isr: one frame of the hardware FIFO; the loop of the handler is
\* this step repeated.  The frame is lost when rb_write refuses it.
audio_adc_isr ==
    /\ Isr = "writer" /\ pc["writer"] = "idle"
    /\ status = "PLAYING"
    /\ \E frame \in Frames :
           /\ sent + frame <= MaxSent
           /\ wn' = frame
    /\ pc' = [pc EXCEPT !["writer"] = "check"]
    /\ UNCHANGED <<status, ring, first, readLocals, counters>>

\* Mutant: the safety interval is forgotten.
FitsExactly == Space(rp) >= wn

\* There is room for the write and the safety interval behind it.
Fits == Space(rp) >= wn + RWP_SAFE_INTERVAL

\* The early returns of rb_write: nothing to write, or it does not fit.
rb_write_refused ==
    /\ MayRun("writer") /\ pc["writer"] = "check"
    /\ wn = 0 \/ ~Fits
    /\ first' = 0
    /\ pc' = [pc EXCEPT !["writer"] = "returned"]
    /\ UNCHANGED <<status, ring, wn, readLocals, counters>>

\* rb->rp is sampled and the first memcpy sized: up to the end of the memory
\* when the write wraps, else all of it.
rb_write_check ==
    /\ MayRun("writer") /\ pc["writer"] = "check"
    /\ wn > 0 /\ Fits
    /\ first' = IF wp >= rp THEN Least(Capacity - wp, wn) ELSE wn
    /\ pc' = [pc EXCEPT !["writer"] = "copy"]
    /\ UNCHANGED <<status, ring, wn, readLocals, counters>>

rb_write_copy ==
    /\ MayRun("writer") /\ pc["writer"] = "copy"
    /\ mem' = [i \in Cells |->
                  IF wp <= i /\ i < wp + first THEN sent + (i - wp) + 1 ELSE mem[i]]
    /\ pc' = [pc EXCEPT !["writer"] = "publish"]
    /\ UNCHANGED <<status, wp, rp, writeLocals, readLocals, counters>>

\* rb->wp moves; in a wrapped write this is before the second memcpy.
rb_write_publish ==
    /\ MayRun("writer") /\ pc["writer"] = "publish"
    /\ wp' = IF first = wn THEN wp + wn ELSE wn - first
    /\ sent' = sent + wn
    /\ pc' = [pc EXCEPT !["writer"] = IF first = wn THEN "wrap" ELSE "tail"]
    /\ UNCHANGED <<status, rp, mem, writeLocals, readLocals, rcvd, out>>

\* Mutant: the tail is taken from the start of the user's buffer.
rb_write_tailFromStart ==
    /\ MayRun("writer") /\ pc["writer"] = "tail"
    /\ mem' = [i \in Cells |-> IF i < wp THEN sent - wn + i + 1 ELSE mem[i]]
    /\ pc' = [pc EXCEPT !["writer"] = "wrap"]
    /\ UNCHANGED <<status, wp, rp, writeLocals, readLocals, counters>>

rb_write_tail ==
    /\ MayRun("writer") /\ pc["writer"] = "tail"
    /\ mem' = [i \in Cells |-> IF i < wp THEN sent - wp + i + 1 ELSE mem[i]]
    /\ pc' = [pc EXCEPT !["writer"] = "wrap"]
    /\ UNCHANGED <<status, wp, rp, writeLocals, readLocals, counters>>

\* A write that ended at the last byte starts over, unless rb->rp is 0.
rb_write_wrap ==
    /\ MayRun("writer") /\ pc["writer"] = "wrap"
    /\ wp' = IF wp >= Capacity /\ rp # 0 THEN 0 ELSE wp
    /\ pc' = [pc EXCEPT !["writer"] = "returned"]
    /\ UNCHANGED <<status, rp, mem, writeLocals, readLocals, counters>>

write_returns ==
    /\ MayRun("writer") /\ pc["writer"] = "returned"
    /\ pc' = [pc EXCEPT !["writer"] = "idle"]
    /\ wn' = 0 /\ first' = 0
    /\ UNCHANGED <<status, ring, readLocals, counters>>

Writer ==
    \/ audio_dac_write \/ audio_adc_isr
    \/ rb_write_refused \/ rb_write_check \/ rb_write_copy \/ rb_write_publish
    \/ rb_write_tail \/ rb_write_wrap \/ write_returns

(***************************************************************************)
(* The reader.                                                             *)
(***************************************************************************)

\* audio_adc_read: refused unless playing, then cut down to the fill size.
audio_adc_read ==
    /\ Isr = "writer" /\ Idle
    /\ status = "PLAYING"
    /\ \E count \in Counts : rn' = Least(rb_get_fill_size, count)
    /\ pc' = [pc EXCEPT !["reader"] = "sample"]
    /\ UNCHANGED <<status, ring, writeLocals, snap, buf, counters>>

\* audio_dac_isr: one frame for the hardware FIFO, as many times as it takes.
audio_dac_isr ==
    /\ Isr = "reader" /\ pc["reader"] = "idle"
    /\ status = "PLAYING"
    /\ rn' \in Frames
    /\ pc' = [pc EXCEPT !["reader"] = "sample"]
    /\ UNCHANGED <<status, ring, writeLocals, snap, buf, counters>>

\* rb->wp is sampled; a read of 0 bytes returns at once.
rb_read_sample ==
    /\ MayRun("reader") /\ pc["reader"] = "sample"
    /\ snap' = wp
    /\ buf' = <<>>
    /\ pc' = [pc EXCEPT !["reader"] = IF rn = 0 THEN "returned" ELSE "copy"]
    /\ UNCHANGED <<status, ring, writeLocals, rn, counters>>

\* The bytes of the first memcpy, and of the second: that one runs only when
\* the data wraps and the first falls short.
Head1 == Least(rn, IF snap >= rp THEN snap - rp ELSE Capacity - rp)

\* Mutant: the second part is not read.
Head2None == 0

Head2 == IF snap < rp /\ rn > Head1 THEN Least(rn - Head1, snap) ELSE 0

rb_read_copy ==
    /\ MayRun("reader") /\ pc["reader"] = "copy"
    /\ buf' = [i \in 1 .. Head1 |-> mem[rp + i - 1]]
    /\ pc' = [pc EXCEPT !["reader"] = "tail"]
    /\ UNCHANGED <<status, ring, writeLocals, rn, snap, counters>>

rb_read_tail ==
    /\ MayRun("reader") /\ pc["reader"] = "tail"
    /\ buf' = buf \o [i \in 1 .. Head2 |-> mem[i - 1]]
    /\ pc' = [pc EXCEPT !["reader"] = "publish"]
    /\ UNCHANGED <<status, ring, writeLocals, rn, snap, counters>>

\* rb->rp moves behind the bytes just copied, and rb_read returns them.
rb_read_publish ==
    /\ MayRun("reader") /\ pc["reader"] = "publish"
    /\ rp' = IF snap < rp /\ rn > Head1 THEN Head2 ELSE rp + Head1
    /\ out' = buf
    /\ rcvd' = rcvd + Head1 + Head2
    /\ pc' = [pc EXCEPT !["reader"] = "returned"]
    /\ UNCHANGED <<status, wp, mem, writeLocals, readLocals, sent>>

read_returns ==
    /\ MayRun("reader") /\ pc["reader"] = "returned"
    /\ pc' = [pc EXCEPT !["reader"] = "idle"]
    /\ rn' = 0 /\ snap' = 0 /\ buf' = <<>>
    /\ UNCHANGED <<status, ring, writeLocals, counters>>

Reader ==
    \/ audio_adc_read \/ audio_dac_isr
    \/ rb_read_sample \/ rb_read_copy \/ rb_read_tail
    \/ rb_read_publish \/ read_returns

Next == Open \/ Close \/ Play \/ Pause \/ Writer \/ Reader

Spec == Init /\ [][Next]_vars

-----------------------------------------------------------------------------
(***************************************************************************)
(* Properties.                                                             *)
(***************************************************************************)
WriterPc == {"idle", "check", "copy", "publish", "tail", "wrap", "returned"}
ReaderPc == {"idle", "sample", "copy", "tail", "publish", "returned"}

\* Type invariant: both pointers stay within 0 .. Capacity (either may rest
\* on Capacity for a while), and so do the sizes the copies are cut to.
TypeOK ==
    /\ status \in Status
    /\ wp \in 0 .. Capacity /\ rp \in 0 .. Capacity
    /\ mem \in [Cells -> Nat]
    /\ pc \in [Sides -> WriterPc \cup ReaderPc]
    /\ pc["writer"] \in WriterPc /\ pc["reader"] \in ReaderPc
    /\ wn \in Nat /\ first \in 0 .. Capacity
    /\ rn \in Nat /\ snap \in 0 .. Capacity
    /\ buf \in Seq(Nat) /\ out \in Seq(Nat)
    /\ sent \in Nat /\ rcvd \in Nat

Unread == sent - rcvd

\* The cell of the k-th unread byte.
CellOf(k) == IF rp + k - 1 < Capacity THEN rp + k - 1 ELSE rp + k - 1 - Capacity

\* Nothing is lost or overrun: the fill size the pointers tell is the number
\* of bytes sent and not yet received, the safety interval is never used up,
\* and every one of those bytes is in its cell.  The exception is the one
\* rb_write makes: between its assignment to rb->wp and its second memcpy the
\* bytes of a wrapped write that go to the start of the memory are announced
\* and not there yet, and an interrupt that reads then gets old bytes.
PublishedBytesPresent ==
    /\ Unread = rb_get_fill_size
    /\ Unread <= Capacity - RWP_SAFE_INTERVAL
    /\ \A k \in 1 .. Unread :
          \/ mem[CellOf(k)] = rcvd + k
          \/ pc["writer"] = "tail" /\ k > Unread - wp

\* audio_dac_write returns the size it cut the request down to and ignores
\* what rb_write returns.  That is the number of bytes written: whatever the
\* interrupt reads in between, rb_write has room for them.
WriteCountIsTrue ==
    Isr = "reader" /\ pc["writer"] = "check" => wn = 0 \/ Fits

\* audio_adc_read likewise ignores what rb_read returns; whatever the
\* interrupt writes in between, rb_read finds as many bytes as it announced.
ReadCountIsTrue ==
    Isr = "writer" /\ pc["reader"] = "returned" => Len(buf) = rn

\* With the writer in the interrupt the ring is a FIFO of bytes: reads return
\* the bytes written, in order, each once, none made up, and a frame is taken
\* whole or not at all.
Fifo == INSTANCE ByteFifo WITH Room <- Capacity - RWP_SAFE_INTERVAL
FifoImpl == Fifo!Spec
=============================================================================
