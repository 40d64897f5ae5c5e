-------------------------- MODULE RingBufferProofs --------------------------
(***************************************************************************)
(* The ring of RingBuffer for every capacity, every set of request sizes   *)
(* and both ways of splitting the work between thread and interrupt.       *)
(*                                                                         *)
(* The argument: the distance from rp to wp always is the number of bytes  *)
(* sent and not received (Acct), so a sampled pointer can only            *)
(* underestimate what the other side has done since, and every copy stays  *)
(* in the region its side owns (WLocal, RLocal).                           *)
(***************************************************************************)
EXTENDS RingBuffer, SequenceTheorems, TLAPS

\* How far x lies ahead of rp.
Ahead(x) == IF x >= rp THEN x - rp ELSE Capacity - rp + x

Acct == Unread = rb_get_fill_size /\ Unread <= Capacity - RWP_SAFE_INTERVAL

\* wp rests on Capacity only until the last step of the rb_write that put it
\* there.
WEnd == wp = Capacity => pc["writer"] = "wrap"

WLocal ==
    /\ pc["writer"] \in {"copy", "publish"} =>
          /\ Unread + wn + RWP_SAFE_INTERVAL <= Capacity
          /\ first <= wn /\ wp + first <= Capacity
          /\ first < wn => wp + first = Capacity /\ rp <= wp
    /\ pc["writer"] = "tail" => wp <= sent
    /\ Isr = "reader" /\ pc["writer"] = "check" =>
          wn = 0 \/ Unread + wn + RWP_SAFE_INTERVAL <= Capacity

\* The copied bytes wait behind wp for their publication.
Fresh ==
    pc["writer"] = "publish" => \A j \in 1 .. first : mem[wp + j - 1] = sent + j

Present ==
    \A k \in 1 .. Unread :
        \/ mem[CellOf(k)] = rcvd + k
        \/ pc["writer"] = "tail" /\ k > Unread - wp

RLocal ==
    /\ pc["reader"] \in {"copy", "tail", "publish"} =>
          /\ Ahead(snap) <= Unread
          /\ Isr = "reader" => snap = wp
          /\ Isr = "writer" => rn <= Ahead(snap)
    /\ Isr = "writer" /\ pc["reader"] = "sample" => rn <= Unread
    /\ pc["reader"] = "tail" => Len(buf) = Head1
    /\ pc["reader"] = "publish" => Len(buf) = Head1 + Head2
    /\ ReadCountIsTrue

\* With the writer in the interrupt, the bytes copied so far are the oldest.
Bytes ==
    Isr = "writer" /\ pc["reader"] \in {"tail", "publish"} =>
        \A i \in 1 .. Len(buf) : buf[i] = rcvd + i

IInv == TypeOK /\ Acct /\ WEnd /\ WLocal /\ Fresh /\ Present /\ RLocal /\ Bytes

-----------------------------------------------------------------------------

\* The space rb_write and rb_get_free_size compute is what the unread bytes
\* leave of the capacity, wherever the pointers are.
LEMMA SpaceLeft ==
    ASSUME TypeOK, Acct
    PROVE  Space(rp) = Capacity - Unread
  BY RingAssumption DEF TypeOK, Acct, Space, Unread, rb_get_fill_size

\* The two memcpys of rb_read together move what was asked for or what the
\* sampled wp offers, whichever is less, and stay inside the memory.
LEMMA HeadSizes ==
    ASSUME TypeOK
    PROVE  /\ Head1 \in Nat /\ Head2 \in Nat
           /\ rp + Head1 <= Capacity /\ Head2 <= snap
           /\ Head1 + Head2 = Least(rn, Ahead(snap))
           /\ Head2 > 0 => rp + Head1 = Capacity
  BY RingAssumption DEF TypeOK, Head1, Head2, Least, Ahead

\* The initial state satisfies the invariant.
LEMMA RingInit == Init => IInv
  <1> SUFFICES ASSUME Init PROVE IInv
    OBVIOUS
  <1>1. TypeOK
    BY RingAssumption DEF Init, TypeOK, Status, Sides, WriterPc, ReaderPc, Cells
  <1>2. /\ Acct /\ WEnd /\ WLocal /\ Fresh /\ Present /\ RLocal /\ Bytes
    BY RingAssumption, <1>1 DEF Init, Acct, WEnd, WLocal, Fresh, Present, RLocal, Bytes,
       Unread, rb_get_fill_size, Sides, ReadCountIsTrue, RWP_SAFE_INTERVAL
  <1> QED
    BY <1>1, <1>2 DEF IInv

\* The steps that open, close, play or pause the device.
LEMMA DeviceStep ==
    ASSUME IInv, Open \/ Close \/ Play \/ Pause
    PROVE  IInv'
  <1> USE RingAssumption DEF IInv
  <1>1. CASE Open \/ Close
    <2>1. /\ wp' = 0 /\ rp' = 0 /\ sent' = 0 /\ rcvd' = 0 /\ out' = <<>>
          /\ UNCHANGED <<mem, pc, wn, first, rn, snap, buf>>
          /\ status' \in Status
          /\ pc["writer"] = "idle" /\ pc["reader"] = "idle"
      BY <1>1 DEF Open, Close, EmptyRing, Idle, Sides, Status, writeLocals, readLocals
    <2>2. TypeOK'
      BY <2>1 DEF TypeOK
    <2>3. /\ Acct' /\ WEnd' /\ WLocal' /\ Fresh' /\ Present' /\ RLocal' /\ Bytes'
      BY <2>1, <2>2 DEF Acct, WEnd, WLocal, Fresh, Present, RLocal, Bytes, Unread,
         rb_get_fill_size, ReadCountIsTrue, RWP_SAFE_INTERVAL, TypeOK
    <2> QED
      BY <2>2, <2>3
  <1>2. CASE Play \/ Pause
    <2>1. /\ status' \in Status
          /\ UNCHANGED <<wp, rp, mem, pc, wn, first, rn, snap, buf, sent, rcvd, out>>
      BY <1>2 DEF Play, Pause, Status, ring, writeLocals, readLocals, counters
    <2>2. TypeOK'
      BY <2>1 DEF TypeOK
    <2>3. /\ Acct' /\ WEnd' /\ WLocal' /\ Fresh' /\ Present' /\ RLocal' /\ Bytes'
      BY <2>1 DEF Acct, WEnd, WLocal, Fresh, Present, RLocal, Bytes, Unread,
         rb_get_fill_size, ReadCountIsTrue, CellOf, Ahead, Head1, Head2
    <2> QED
      BY <2>2, <2>3
  <1> QED
    BY <1>1, <1>2

\* The steps of a writer that only change its own locals: the call itself,
\* the check and refusal of rb_write, and the return.
LEMMA WriterLocalStep ==
    ASSUME IInv,
           \/ audio_dac_write \/ audio_adc_isr \/ rb_write_refused
           \/ rb_write_check \/ write_returns
    PROVE  IInv'
  <1> USE RingAssumption DEF IInv
  <1>0. Space(rp) = Capacity - Unread
    BY SpaceLeft
  <1>1. UNCHANGED <<status, wp, rp, mem, rn, snap, buf, sent, rcvd, out>>
    BY DEF audio_dac_write, audio_adc_isr, rb_write_refused, rb_write_check,
       write_returns, ring, readLocals, counters
  <1>2. /\ pc'["reader"] = pc["reader"]
        /\ pc'["writer"] \in {"idle", "check", "copy", "returned"}
        /\ pc["writer"] \notin {"copy", "publish", "tail", "wrap"}
        /\ pc' \in [Sides -> WriterPc \cup ReaderPc]
    BY DEF audio_dac_write, audio_adc_isr, rb_write_refused, rb_write_check,
       write_returns, TypeOK, Sides, WriterPc, ReaderPc, Idle
  <1>3. /\ wn' \in Nat /\ first' \in 0 .. Capacity
        /\ pc'["writer"] = "copy" =>
              /\ Unread + wn' + RWP_SAFE_INTERVAL <= Capacity
              /\ first' <= wn' /\ wp + first' <= Capacity
              /\ first' < wn' => wp + first' = Capacity /\ rp <= wp
        /\ Isr = "reader" /\ pc'["writer"] = "check" =>
              wn' = 0 \/ Unread + wn' + RWP_SAFE_INTERVAL <= Capacity
    <2>1. CASE audio_dac_write
      <3>1. PICK count \in Counts : wn' = Least(rb_get_free_size, count)
        BY <2>1 DEF audio_dac_write
      <3>2. rb_get_free_size \in Nat /\ count \in Nat
        BY <1>0 DEF rb_get_free_size, TypeOK, Acct, Unread, RWP_SAFE_INTERVAL
      <3>3. pc'["writer"] = "check" /\ first' = first
        BY <2>1 DEF audio_dac_write, TypeOK, Sides
      <3>4. wn' = 0 \/ Unread + wn' + RWP_SAFE_INTERVAL <= Capacity
        BY <1>0, <3>1, <3>2 DEF rb_get_free_size, Least, TypeOK, Unread, RWP_SAFE_INTERVAL
      <3> QED
        BY <3>1, <3>2, <3>3, <3>4 DEF Least, TypeOK
    <2>2. CASE audio_adc_isr
      BY <2>2 DEF audio_adc_isr, TypeOK, Sides
    <2>3. CASE rb_write_refused
      BY <2>3 DEF rb_write_refused, TypeOK, Sides
    <2>4. CASE rb_write_check
      BY <2>4, <1>0 DEF rb_write_check, Fits, TypeOK, Sides, Least, Acct, Unread,
         rb_get_fill_size, RWP_SAFE_INTERVAL
    <2>5. CASE write_returns
      BY <2>5 DEF write_returns, TypeOK, Sides
    <2> QED
      BY <2>1, <2>2, <2>3, <2>4, <2>5
  <1>4. TypeOK'
    BY <1>1, <1>2, <1>3 DEF TypeOK, WriterPc
  <1>5. Acct' /\ WEnd'
    BY <1>1, <1>2 DEF Acct, WEnd, Unread, rb_get_fill_size
  <1>6. WLocal' /\ Fresh'
    BY <1>1, <1>2, <1>3 DEF WLocal, Fresh, Unread
  <1>7. Present'
    BY <1>1, <1>2 DEF Present, Unread, CellOf
  <1>8. RLocal' /\ Bytes'
    BY <1>1, <1>2 DEF RLocal, Bytes, Unread, Ahead, Head1, Head2, ReadCountIsTrue
  <1> QED
    BY <1>4, <1>5, <1>6, <1>7, <1>8

\* The first memcpy of rb_write only touches cells that hold no unread byte.
LEMMA WriteCopyStep ==
    ASSUME IInv, rb_write_copy
    PROVE  IInv'
  <1> USE RingAssumption DEF IInv
  <1>1. /\ UNCHANGED <<status, wp, rp, wn, first, rn, snap, buf, sent, rcvd, out>>
        /\ pc["writer"] = "copy" /\ pc'["writer"] = "publish"
        /\ pc'["reader"] = pc["reader"]
        /\ pc' \in [Sides -> WriterPc \cup ReaderPc]
    BY DEF rb_write_copy, TypeOK, Sides, WriterPc, writeLocals, readLocals, counters
  <1>2. mem' = [i \in Cells |->
                  IF wp <= i /\ i < wp + first THEN sent + (i - wp) + 1 ELSE mem[i]]
    BY DEF rb_write_copy
  <1>3. TypeOK'
    <2>1. mem' \in [Cells -> Nat]
      BY <1>2 DEF TypeOK, Cells
    <2> QED
      BY <1>1, <2>1 DEF TypeOK, WriterPc
  <1>4. Acct' /\ WEnd' /\ WLocal'
    BY <1>1 DEF Acct, WEnd, WLocal, Unread, rb_get_fill_size
  <1>5. Fresh'
    BY <1>1, <1>2 DEF Fresh, WLocal, TypeOK, Cells
  <1>6. Present'
    <2> SUFFICES ASSUME NEW k \in 1 .. Unread
                 PROVE  mem'[CellOf(k)] = rcvd + k
      BY <1>1 DEF Present, Unread, CellOf
    <2>1. mem[CellOf(k)] = rcvd + k
      BY <1>1 DEF Present
    <2>2. CellOf(k) \in Cells /\ ~(wp <= CellOf(k) /\ CellOf(k) < wp + first)
      BY <1>1 DEF CellOf, Cells, TypeOK, Acct, WLocal, Unread, rb_get_fill_size,
         RWP_SAFE_INTERVAL
    <2> QED
      BY <1>2, <2>1, <2>2
  <1>7. RLocal' /\ Bytes'
    BY <1>1 DEF RLocal, Bytes, Unread, Ahead, Head1, Head2, ReadCountIsTrue
  <1> QED
    BY <1>3, <1>4, <1>5, <1>6, <1>7

\* Publishing moves wp by exactly the bytes of the write and never onto or
\* past rp.
LEMMA WritePublishStep ==
    ASSUME IInv, rb_write_publish
    PROVE  IInv'
  <1> USE RingAssumption DEF IInv
  <1>1. /\ UNCHANGED <<status, rp, mem, wn, first, rn, snap, buf, rcvd, out>>
        /\ pc["writer"] = "publish"
        /\ pc'["writer"] = IF first = wn THEN "wrap" ELSE "tail"
        /\ pc'["reader"] = pc["reader"]
        /\ pc' \in [Sides -> WriterPc \cup ReaderPc]
        /\ wp' = IF first = wn THEN wp + wn ELSE wn - first
        /\ sent' = sent + wn
    BY DEF rb_write_publish, TypeOK, Sides, WriterPc, writeLocals, readLocals
  <1>2. Unread' = Unread + wn
    BY <1>1 DEF Unread, TypeOK
  <1>3. TypeOK'
    BY <1>1 DEF TypeOK, WLocal, WriterPc, Acct, Unread, rb_get_fill_size, RWP_SAFE_INTERVAL
  <1>4. Acct' /\ WEnd'
    BY <1>1, <1>2 DEF TypeOK, Acct, WEnd, WLocal, Unread, rb_get_fill_size, RWP_SAFE_INTERVAL
  <1>5. WLocal' /\ Fresh'
    BY <1>1 DEF WLocal, Fresh, TypeOK
  <1>6. Present'
    <2> SUFFICES ASSUME NEW k \in 1 .. Unread + wn
                 PROVE  \/ mem[CellOf(k)] = rcvd + k
                        \/ first # wn /\ k > Unread + wn - wp'
      <3> SUFFICES ASSUME NEW k \in 1 .. Unread'
                   PROVE  \/ mem'[CellOf(k)'] = rcvd' + k
                          \/ pc'["writer"] = "tail" /\ k > Unread' - wp'
        BY DEF Present
      <3>1. CellOf(k)' = CellOf(k)
        BY <1>1 DEF CellOf
      <3>2. k \in 1 .. Unread + wn
        BY <1>2
      <3>3. \/ mem[CellOf(k)] = rcvd + k
            \/ first # wn /\ k > Unread + wn - wp'
        BY <3>2
      <3>4. CASE mem[CellOf(k)] = rcvd + k
        BY <1>1, <3>1, <3>4
      <3>5. CASE first # wn /\ k > Unread + wn - wp'
        <4>1. pc'["writer"] = "tail"
          BY <1>1, <3>5
        <4>2. k > Unread' - wp'
          BY <1>1, <3>5 DEF TypeOK, Unread
        <4> QED
          BY <4>1, <4>2
      <3> QED
        BY <3>3, <3>4, <3>5
    <2>1. CASE k <= Unread
      BY <2>1, <1>1 DEF Present, TypeOK, Unread
    <2>2. CASE k > Unread /\ k - Unread <= first
      <3>1. CellOf(k) = wp + (k - Unread) - 1
        BY <1>1, <2>2 DEF CellOf, TypeOK, Acct, WLocal, Unread, rb_get_fill_size,
           RWP_SAFE_INTERVAL
      <3>2. k - Unread \in 1 .. first
        BY <2>2 DEF TypeOK, Unread
      <3>3. mem[wp + (k - Unread) - 1] = sent + (k - Unread)
        BY <1>1, <3>2 DEF Fresh
      <3> QED
        BY <3>1, <3>3 DEF TypeOK, Unread
    <2>3. CASE k - Unread > first
      BY <1>1, <2>3 DEF TypeOK, Unread, WLocal
    <2> QED
      BY <2>1, <2>2, <2>3 DEF TypeOK, Unread
  <1>7. RLocal' /\ Bytes'
    <2>1. Isr = "reader" => pc["reader"] \notin {"sample", "copy", "tail", "publish"}
      BY DEF rb_write_publish, MayRun, Sides
    <2> QED
      BY <1>1, <1>2, <2>1 DEF RLocal, Bytes, Ahead, Head1, Head2, ReadCountIsTrue, TypeOK, Unread
  <1> QED
    BY <1>3, <1>4, <1>5, <1>6, <1>7

\* The second memcpy brings the announced bytes; the last step of rb_write
\* moves wp from the end of the memory to its start.
LEMMA WriteEndStep ==
    ASSUME IInv, rb_write_tail \/ rb_write_wrap
    PROVE  IInv'
  <1> USE RingAssumption DEF IInv
  <1>1. /\ UNCHANGED <<status, rp, wn, first, rn, snap, buf, sent, rcvd, out>>
        /\ pc'["writer"] \in {"wrap", "returned"}
        /\ pc'["reader"] = pc["reader"]
        /\ pc' \in [Sides -> WriterPc \cup ReaderPc]
    BY DEF rb_write_tail, rb_write_wrap, TypeOK, Sides, WriterPc, writeLocals,
       readLocals, counters
  <1>2. Isr = "reader" => pc["reader"] \notin {"sample", "copy", "tail", "publish"}
    BY DEF rb_write_tail, rb_write_wrap, MayRun, Sides
  <1>3. Unread' = Unread
    BY <1>1 DEF Unread
  <1>4. WLocal' /\ Fresh'
    BY <1>1 DEF WLocal, Fresh
  <1>5. RLocal' /\ Bytes'
    BY <1>1, <1>2, <1>3 DEF RLocal, Bytes, Ahead, Head1, Head2, ReadCountIsTrue
  <1>6. CASE rb_write_tail
    <2>1. /\ wp' = wp /\ pc["writer"] = "tail" /\ pc'["writer"] = "wrap"
          /\ mem' = [i \in Cells |-> IF i < wp THEN sent - wp + i + 1 ELSE mem[i]]
      BY <1>6 DEF rb_write_tail, TypeOK, Sides
    <2>2. sent - wp >= 0
      BY <2>1 DEF WLocal, TypeOK
    <2>3. TypeOK'
      <3>1. mem' \in [Cells -> Nat]
        BY <2>1, <2>2 DEF TypeOK, Cells
      <3> QED
        BY <1>1, <2>1, <3>1 DEF TypeOK, WriterPc
    <2>4. Acct' /\ WEnd'
      BY <1>1, <2>1, <1>3 DEF Acct, WEnd, rb_get_fill_size
    <2>5. Present'
      <3> SUFFICES ASSUME NEW k \in 1 .. Unread
                   PROVE  mem'[CellOf(k)] = rcvd + k
        BY <1>1, <1>3 DEF Present, CellOf
      <3>1. CellOf(k) \in Cells
        BY DEF CellOf, Cells, TypeOK, Acct, Unread, rb_get_fill_size
      <3>2. CASE CellOf(k) < wp
        <4>1. sent - wp + CellOf(k) + 1 = rcvd + k
          BY <3>2 DEF CellOf, TypeOK, Acct, Unread, rb_get_fill_size
        <4> QED
          BY <2>1, <3>1, <3>2, <4>1
      <3>3. CASE ~(CellOf(k) < wp)
        <4>1. ~(k > Unread - wp)
          BY <3>3 DEF CellOf, TypeOK, Acct, Unread, rb_get_fill_size
        <4>2. mem[CellOf(k)] = rcvd + k
          BY <4>1 DEF Present
        <4> QED
          BY <2>1, <3>1, <3>3, <4>2
      <3> QED
        BY <3>2, <3>3
    <2> QED
      BY <1>4, <1>5, <2>3, <2>4, <2>5
  <1>7. CASE rb_write_wrap
    <2>1. /\ wp' = IF wp >= Capacity /\ rp # 0 THEN 0 ELSE wp
          /\ mem' = mem /\ pc["writer"] = "wrap" /\ pc'["writer"] = "returned"
      BY <1>7 DEF rb_write_wrap, TypeOK, Sides
    <2>2. TypeOK'
      BY <1>1, <2>1 DEF TypeOK, WriterPc
    <2>3. Acct' /\ WEnd'
      BY <1>1, <2>1, <1>3 DEF Acct, WEnd, Unread, TypeOK, rb_get_fill_size, RWP_SAFE_INTERVAL
    <2>4. Present'
      BY <1>1, <2>1, <1>3 DEF Present, CellOf
    <2> QED
      BY <1>4, <1>5, <2>2, <2>3, <2>4
  <1> QED
    BY <1>6, <1>7

\* The two memcpys of rb_read stay inside the memory; with the writer in the
\* interrupt what they find are the oldest unread bytes.
LEMMA ReadCopyStep ==
    ASSUME IInv, rb_read_copy \/ rb_read_tail
    PROVE  IInv'
  <1> USE RingAssumption DEF IInv
  <1>1. /\ UNCHANGED <<status, wp, rp, mem, wn, first, rn, snap, sent, rcvd, out>>
        /\ pc'["writer"] = pc["writer"]
        /\ pc["reader"] \in {"copy", "tail"} /\ pc'["reader"] \in {"tail", "publish"}
        /\ pc' \in [Sides -> WriterPc \cup ReaderPc]
        /\ Isr = "writer" => pc["writer"] = "idle"
    BY DEF rb_read_copy, rb_read_tail, TypeOK, Sides, ReaderPc, MayRun, ring,
       writeLocals, counters
  <1>2. Acct' /\ WEnd' /\ WLocal' /\ Fresh' /\ Present'
    BY <1>1 DEF Acct, WEnd, WLocal, Fresh, Present, Unread, rb_get_fill_size, CellOf
  <1>3. /\ Head1 \in Nat /\ Head2 \in Nat
        /\ rp + Head1 <= Capacity /\ Head2 <= snap
        /\ Head1 + Head2 = Least(rn, Ahead(snap))
        /\ Head2 > 0 => rp + Head1 = Capacity
    BY HeadSizes
  <1>4. Head1' = Head1 /\ Head2' = Head2 /\ Ahead(snap)' = Ahead(snap) /\ Unread' = Unread
    BY <1>1 DEF Head1, Head2, Ahead, Unread
  <1>5. Head1 + Head2 <= Unread
    BY <1>1, <1>3 DEF RLocal, Least, Ahead, TypeOK, Unread
  <1>6. ASSUME Isr = "writer", NEW k \in 1 .. Unread
        PROVE  mem[CellOf(k)] = rcvd + k
    BY <1>1, <1>6 DEF Present
  <1>7. CASE rb_read_copy
    <2>1. /\ buf' = [i \in 1 .. Head1 |-> mem[rp + i - 1]] /\ pc'["reader"] = "tail"
          /\ pc["reader"] = "copy"
      BY <1>7 DEF rb_read_copy, TypeOK, Sides
    <2>2. \A i \in 1 .. Head1 : rp + i - 1 \in Cells
      BY <1>3 DEF Cells, TypeOK
    <2>3. buf' \in Seq(Nat) /\ Len(buf') = Head1
      <3>1. \A i \in 1 .. Head1 : mem[rp + i - 1] \in Nat
        BY <2>2 DEF TypeOK
      <3> QED
        BY <2>1, <1>3, <3>1
    <2>4. TypeOK'
      BY <1>1, <2>1, <2>3 DEF TypeOK, ReaderPc
    <2>5. RLocal'
      BY <1>1, <1>4, <2>1, <2>3 DEF RLocal, ReadCountIsTrue
    <2>6. Bytes'
      <3> SUFFICES ASSUME Isr = "writer", NEW i \in 1 .. Head1
                   PROVE  buf'[i] = rcvd + i
        BY <1>1, <2>3 DEF Bytes
      <3>1. i \in 1 .. Unread /\ CellOf(i) = rp + i - 1
        BY <1>3, <1>5 DEF CellOf, TypeOK, Unread
      <3>2. mem[CellOf(i)] = rcvd + i
        BY <1>6, <3>1
      <3> QED
        BY <2>1, <3>1, <3>2
    <2> QED
      BY <1>2, <2>4, <2>5, <2>6
  <1>8. CASE rb_read_tail
    <2> DEFINE second == [i \in 1 .. Head2 |-> mem[i - 1]]
    <2>1. /\ buf' = buf \o second /\ pc'["reader"] = "publish" /\ pc["reader"] = "tail"
          /\ Len(buf) = Head1 /\ buf \in Seq(Nat)
      BY <1>8 DEF rb_read_tail, TypeOK, Sides, RLocal
    <2>2. \A i \in 1 .. Head2 : i - 1 \in Cells
      BY <1>3 DEF Cells, TypeOK
    <2>3. second \in Seq(Nat) /\ Len(second) = Head2
      <3>1. \A i \in 1 .. Head2 : mem[i - 1] \in Nat
        BY <2>2 DEF TypeOK
      <3> QED
        BY <1>3, <3>1
    <2> HIDE DEF second
    <2>4. /\ buf' \in Seq(Nat) /\ Len(buf') = Head1 + Head2
          /\ \A i \in 1 .. Head1 + Head2 :
                buf'[i] = IF i <= Head1 THEN buf[i] ELSE second[i - Head1]
      BY <2>1, <2>3, ConcatProperties
    <2>5. TypeOK'
      BY <1>1, <2>1, <2>4 DEF TypeOK, ReaderPc
    <2>6. RLocal'
      BY <1>1, <1>4, <2>1, <2>4 DEF RLocal, ReadCountIsTrue
    <2>7. Bytes'
      <3> SUFFICES ASSUME Isr = "writer", NEW i \in 1 .. Head1 + Head2
                   PROVE  buf'[i] = rcvd + i
        BY <1>1, <2>4 DEF Bytes
      <3>1. CASE i <= Head1
        <4>1. i \in 1 .. Len(buf) /\ buf'[i] = buf[i]
          BY <2>1, <2>4, <3>1, <1>3
        <4> QED
          BY <2>1, <4>1 DEF Bytes
      <3>2. CASE i > Head1
        <4>1. i - Head1 \in 1 .. Head2
          BY <3>2, <1>3
        <4>2. buf'[i] = second[i - Head1]
          BY <2>4, <3>2, <1>3
        <4>3. second[i - Head1] = mem[i - Head1 - 1]
          BY <4>1 DEF second
        <4>4. i \in 1 .. Unread /\ CellOf(i) = i - Head1 - 1
          BY <1>3, <1>5, <4>1 DEF CellOf, TypeOK, Unread
        <4>5. mem[CellOf(i)] = rcvd + i
          BY <1>6, <4>4
        <4> QED
          BY <4>2, <4>3, <4>4, <4>5
      <3> QED
        BY <3>1, <3>2, <1>3
    <2> QED
      BY <1>2, <2>5, <2>6, <2>7
  <1> QED
    BY <1>7, <1>8

\* The steps of a reader that only change its own locals: the call, the
\* sampling of wp and the return.
LEMMA ReaderLocalStep ==
    ASSUME IInv,
           audio_adc_read \/ audio_dac_isr \/ rb_read_sample \/ read_returns
    PROVE  IInv'
  <1> USE RingAssumption DEF IInv
  <1>1. UNCHANGED <<status, wp, rp, mem, wn, first, sent, rcvd, out>>
    BY DEF audio_adc_read, audio_dac_isr, rb_read_sample, read_returns, ring,
       writeLocals, counters
  <1>2. /\ pc'["writer"] = pc["writer"]
        /\ pc'["reader"] \in {"idle", "sample", "copy", "returned"}
        /\ pc' \in [Sides -> WriterPc \cup ReaderPc]
    BY DEF audio_adc_read, audio_dac_isr, rb_read_sample, read_returns, TypeOK,
       Sides, WriterPc, ReaderPc, Idle
  <1>3. Acct' /\ WEnd' /\ WLocal' /\ Fresh' /\ Present'
    BY <1>1, <1>2 DEF Acct, WEnd, WLocal, Fresh, Present, Unread, rb_get_fill_size, CellOf
  <1>4. Bytes'
    BY <1>2 DEF Bytes
  <1>5. TypeOK' /\ RLocal'
    <2>1. CASE audio_adc_read
      <3>1. PICK count \in Counts : rn' = Least(rb_get_fill_size, count)
        BY <2>1 DEF audio_adc_read
      <3>2. rn' \in Nat /\ rn' <= Unread
        BY <3>1 DEF Least, Acct, Unread, TypeOK, rb_get_fill_size
      <3>3. pc'["reader"] = "sample" /\ snap' = snap /\ buf' = buf
        BY <2>1 DEF audio_adc_read, TypeOK, Sides
      <3> QED
        BY <1>1, <1>2, <3>2, <3>3 DEF TypeOK, RLocal, Unread, ReaderPc, ReadCountIsTrue
    <2>2. CASE audio_dac_isr
      <3>1. /\ rn' \in Nat /\ Isr = "reader"
            /\ pc'["reader"] = "sample" /\ snap' = snap /\ buf' = buf
        BY <2>2 DEF audio_dac_isr, TypeOK, Sides
      <3> QED
        BY <1>1, <1>2, <3>1 DEF TypeOK, RLocal, ReaderPc, ReadCountIsTrue
    <2>3. CASE rb_read_sample
      <3>1. /\ snap' = wp /\ buf' = <<>> /\ rn' = rn /\ pc["reader"] = "sample"
            /\ pc'["reader"] = IF rn = 0 THEN "returned" ELSE "copy"
        BY <2>3 DEF rb_read_sample, TypeOK, Sides
      <3>2. TypeOK'
        BY <1>1, <1>2, <3>1 DEF TypeOK, ReaderPc
      <3>3. Ahead(snap)' = Unread /\ Unread' = Unread
        BY <1>1, <3>1 DEF Ahead, Acct, Unread, rb_get_fill_size
      <3>4. Isr = "writer" => rn <= Unread
        BY <3>1 DEF RLocal
      <3>5. Unread \in Int
        BY DEF Unread, TypeOK
      <3> QED
        BY <1>1, <1>2, <3>1, <3>2, <3>3, <3>4, <3>5 DEF RLocal, ReadCountIsTrue
    <2>4. CASE read_returns
      <3>1. rn' = 0 /\ snap' = 0 /\ buf' = <<>> /\ pc'["reader"] = "idle"
        BY <2>4 DEF read_returns, TypeOK, Sides
      <3> QED
        BY <1>1, <1>2, <3>1 DEF TypeOK, RLocal, ReaderPc, ReadCountIsTrue
    <2> QED
      BY <2>1, <2>2, <2>3, <2>4
  <1> QED
    BY <1>3, <1>4, <1>5

\* rb_read gives up exactly the bytes it copied, and rp never passes wp.
LEMMA ReadPublishStep ==
    ASSUME IInv, rb_read_publish
    PROVE  IInv'
  <1> USE RingAssumption DEF IInv
  <1>1. /\ UNCHANGED <<status, wp, mem, wn, first, rn, snap, buf, sent>>
        /\ pc'["writer"] = pc["writer"]
        /\ pc["reader"] = "publish" /\ pc'["reader"] = "returned"
        /\ pc' \in [Sides -> WriterPc \cup ReaderPc]
        /\ Isr = "writer" => pc["writer"] = "idle"
        /\ rp' = IF snap < rp /\ rn > Head1 THEN Head2 ELSE rp + Head1
        /\ out' = buf
        /\ rcvd' = rcvd + Head1 + Head2
    BY DEF rb_read_publish, TypeOK, Sides, ReaderPc, MayRun, writeLocals, readLocals
  <1>2. /\ Head1 \in Nat /\ Head2 \in Nat
        /\ rp + Head1 <= Capacity /\ Head2 <= snap
        /\ Head1 + Head2 = Least(rn, Ahead(snap))
        /\ Head2 > 0 => rp + Head1 = Capacity
    BY HeadSizes
  <1>3. /\ Ahead(snap) <= Unread
        /\ Isr = "reader" => snap = wp
        /\ Isr = "writer" => rn <= Ahead(snap) /\ wp < Capacity
    BY <1>1 DEF RLocal, WEnd, TypeOK
  <1>4. /\ Unread' = Unread - (Head1 + Head2)
        /\ Head1 + Head2 <= Unread
    BY <1>1, <1>2, <1>3 DEF Unread, TypeOK, Least, Ahead
  <1>5. TypeOK'
    BY <1>1, <1>2 DEF TypeOK, ReaderPc
  <1>6. Isr \in {"reader", "writer"}
    BY DEF Sides
  <1>7. Acct'
    <2>1. rb_get_fill_size' = rb_get_fill_size - (Head1 + Head2)
      BY <1>1, <1>3, <1>6 DEF Acct, Unread, rb_get_fill_size, Head1, Head2, Least, Ahead, TypeOK
    <2> QED
      BY <1>2, <1>4, <2>1 DEF Acct, TypeOK, Unread, RWP_SAFE_INTERVAL
  <1>8. WEnd' /\ Fresh'
    BY <1>1 DEF WEnd, Fresh
  <1>9. WLocal'
    <2>1. Isr = "reader" => rp' <= wp \/ ~(rp <= wp)
      BY <1>1, <1>3 DEF Head1, Head2, Least, TypeOK
    <2>2. \A n \in Nat : Unread + n + RWP_SAFE_INTERVAL <= Capacity =>
                         Unread' + n + RWP_SAFE_INTERVAL <= Capacity
      BY <1>2, <1>4 DEF Unread, TypeOK, RWP_SAFE_INTERVAL
    <2> QED
      BY <1>1, <1>6, <2>1, <2>2 DEF WLocal, TypeOK
  <1>10. Present'
    <2> DEFINE moved == Head1 + Head2
    <2> SUFFICES ASSUME NEW k \in 1 .. Unread - moved
                 PROVE  \/ mem[CellOf(k)'] = rcvd + moved + k
                        \/ pc["writer"] = "tail" /\ k > Unread - moved - wp
      <3>1. rcvd' = rcvd + moved /\ Unread' = Unread - moved
        BY <1>1, <1>2, <1>4 DEF TypeOK
      <3> QED
        BY <1>1, <3>1 DEF Present
    <2>1. k + moved \in 1 .. Unread
      BY <1>2, <1>4 DEF Unread, TypeOK
    <2>2. CellOf(k)' = CellOf(k + moved)
      <3>1. CASE snap < rp /\ rn > Head1
        <4>1. rp' = Head2 /\ Head1 = Capacity - rp
          BY <1>1, <3>1 DEF Head1, Least, TypeOK
        <4>2. Unread <= Capacity /\ Unread \in Int /\ rp \in 0 .. Capacity
          BY DEF Acct, Unread, TypeOK, RWP_SAFE_INTERVAL
        <4> QED
          BY <1>2, <2>1, <4>1, <4>2 DEF CellOf
      <3>2. CASE ~(snap < rp /\ rn > Head1)
        <4>1. rp' = rp + Head1 /\ Head2 = 0
          BY <1>1, <3>2 DEF Head2
        <4>2. Unread \in Int /\ rp \in 0 .. Capacity
          BY DEF Unread, TypeOK
        <4> QED
          BY <1>2, <2>1, <4>1, <4>2 DEF CellOf
      <3> QED
        BY <3>1, <3>2
    <2>3. \/ mem[CellOf(k + moved)] = rcvd + (k + moved)
          \/ pc["writer"] = "tail" /\ k + moved > Unread - wp
      BY <2>1 DEF Present
    <2> QED
      BY <1>2, <2>2, <2>3 DEF TypeOK, Unread
  <1>11. RLocal' /\ Bytes'
    <2>1. Isr = "writer" => Len(buf) = rn
      BY <1>1, <1>2, <1>3 DEF RLocal, Least, Ahead, TypeOK
    <2> QED
      BY <1>1, <2>1 DEF RLocal, Bytes, ReadCountIsTrue
  <1> QED
    BY <1>5, <1>7, <1>8, <1>9, <1>10, <1>11

\* Every step of the thread, the interrupt and the device keeps the invariant.
LEMMA RingStep == IInv /\ [Next]_vars => IInv'
  <1> SUFFICES ASSUME IInv, [Next]_vars PROVE IInv'
    OBVIOUS
  <1>1. CASE Open \/ Close \/ Play \/ Pause
    BY <1>1, DeviceStep
  <1>2. CASE Writer
    BY <1>2, WriterLocalStep, WriteCopyStep, WritePublishStep, WriteEndStep DEF Writer
  <1>3. CASE Reader
    BY <1>3, ReaderLocalStep, ReadCopyStep, ReadPublishStep DEF Reader
  <1>4. CASE UNCHANGED vars
    <2>1. UNCHANGED <<status, wp, rp, mem, pc, wn, first, rn, snap, buf, sent, rcvd, out>>
      BY <1>4 DEF vars
    <2>2. TypeOK'
      BY <2>1 DEF IInv, TypeOK
    <2>3. /\ Acct' /\ WEnd' /\ WLocal' /\ Fresh' /\ Present' /\ RLocal' /\ Bytes'
      BY <2>1 DEF IInv, Acct, WEnd, WLocal, Fresh, Present, RLocal, Bytes, Unread,
         rb_get_fill_size, ReadCountIsTrue, CellOf, Ahead, Head1, Head2
    <2> QED
      BY <2>2, <2>3 DEF IInv
  <1> QED
    BY <1>1, <1>2, <1>3, <1>4 DEF Next

\* The inductive invariant holds in every reachable state.
LEMMA RingInvariant == Spec => []IInv
  BY RingInit, RingStep, PTL DEF Spec

\* Both pointers stay within 0 .. Capacity: rb_read and rb_write never touch
\* memory outside the buffer, whatever the sizes asked for.
THEOREM TypeCorrect == Spec => []TypeOK
  <1>1. IInv => TypeOK
    BY DEF IInv
  <1> QED
    BY <1>1, RingInvariant, PTL

\* No unread byte is lost, overwritten or miscounted; the one window in which
\* announced bytes are missing is the second half of a wrapped rb_write.
THEOREM NothingLost == Spec => []PublishedBytesPresent
  <1>1. IInv => PublishedBytesPresent
    BY DEF IInv, Acct, Present, PublishedBytesPresent
  <1> QED
    BY <1>1, RingInvariant, PTL

\* audio_dac_write reports the bytes it wrote: rb_write never refuses a write
\* cut down to rb_get_free_size.
THEOREM WriteCounts == Spec => []WriteCountIsTrue
  <1>1. IInv => WriteCountIsTrue
    BY SpaceLeft, RingAssumption DEF IInv, WLocal, WriteCountIsTrue, Fits, TypeOK,
       Unread, RWP_SAFE_INTERVAL
  <1> QED
    BY <1>1, RingInvariant, PTL

\* audio_adc_read reports the bytes it read: rb_read finds all the bytes of a
\* request cut down to rb_get_fill_size.
THEOREM ReadCounts == Spec => []ReadCountIsTrue
  <1>1. IInv => ReadCountIsTrue
    BY DEF IInv, RLocal
  <1> QED
    BY <1>1, RingInvariant, PTL

\* Every step of the ring is a step of the FIFO or leaves it alone.
LEMMA FifoStep ==
    ASSUME Isr = "writer", IInv, [Next]_vars
    PROVE  [Fifo!Next]_(Fifo!vars)
  <1> USE RingAssumption
  <1>1. CASE Open \/ Close
    BY <1>1 DEF Open, Close, EmptyRing, Fifo!Next, Fifo!Reset
  <1>2. CASE rb_write_publish
    <2>1. /\ sent' = sent + wn /\ UNCHANGED <<rcvd, out>>
          /\ pc["writer"] = "publish"
      BY <1>2 DEF rb_write_publish
    <2>2. wn \in Nat /\ sent \in Nat /\ rcvd \in Nat
      BY DEF IInv, TypeOK
    <2>3. Unread + wn + RWP_SAFE_INTERVAL <= Capacity
      BY <2>1 DEF IInv, WLocal
    <2>4. CASE wn = 0
      BY <2>1, <2>2, <2>4 DEF Fifo!vars
    <2>5. CASE wn # 0
      <3>1. wn \in 1 .. Capacity - RWP_SAFE_INTERVAL - (sent - rcvd)
        BY <2>2, <2>3, <2>5 DEF Unread, RWP_SAFE_INTERVAL
      <3> QED
        BY <2>1, <3>1 DEF Fifo!Next, Fifo!Put
    <2> QED
      BY <2>4, <2>5
  <1>3. CASE rb_read_publish
    <2> DEFINE n == Head1 + Head2
    <2>1. /\ out' = buf /\ sent' = sent /\ rcvd' = rcvd + Head1 + Head2
          /\ pc["reader"] = "publish"
      BY <1>3 DEF rb_read_publish
    <2>2. /\ sent \in Nat /\ rcvd \in Nat /\ buf \in Seq(Nat) /\ rn \in Nat
          /\ rp \in 0 .. Capacity /\ snap \in 0 .. Capacity
      BY DEF IInv, TypeOK
    <2>3. /\ Head1 \in Nat /\ Head2 \in Nat
          /\ Head1 + Head2 = Least(rn, Ahead(snap))
      BY HeadSizes DEF IInv
    <2>4. /\ Ahead(snap) <= Unread
          /\ Len(buf) = Head1 + Head2
      BY <2>1 DEF IInv, RLocal
    <2>5. \A i \in 1 .. Len(buf) : buf[i] = rcvd + i
      BY <2>1 DEF IInv, Bytes
    <2>6. n \in 0 .. sent - rcvd
      BY <2>2, <2>3, <2>4 DEF Least, Ahead, Unread
    <2>7. buf = [i \in 1 .. n |-> rcvd + i]
      BY <2>2, <2>4, <2>5
    <2>8. rcvd' = rcvd + n
      BY <2>1, <2>2, <2>3
    <2> HIDE DEF n
    <2> QED
      BY <2>1, <2>6, <2>7, <2>8 DEF Fifo!Next, Fifo!Get
  <1>4. CASE \/ Play \/ Pause
             \/ audio_dac_write \/ audio_adc_isr \/ rb_write_refused
             \/ rb_write_check \/ rb_write_copy \/ rb_write_tail
             \/ rb_write_wrap \/ write_returns
             \/ audio_adc_read \/ audio_dac_isr \/ rb_read_sample
             \/ rb_read_copy \/ rb_read_tail \/ read_returns
             \/ UNCHANGED vars
    <2>1. UNCHANGED <<sent, rcvd, out>>
      BY <1>4 DEF Play, Pause, audio_dac_write, audio_adc_isr, rb_write_refused,
         rb_write_check, rb_write_copy, rb_write_tail, rb_write_wrap, write_returns,
         audio_adc_read, audio_dac_isr, rb_read_sample, rb_read_copy, rb_read_tail,
         read_returns, vars, counters
    <2> QED
      BY <2>1 DEF Fifo!vars
  <1> QED
    BY <1>1, <1>2, <1>3, <1>4 DEF Next, Writer, Reader

\* With the writer in the interrupt (the microphone) the ring implements the
\* FIFO of bytes.
THEOREM RingIsFifo ==
    ASSUME Isr = "writer"
    PROVE  Spec => FifoImpl
  <1>1. Init => Fifo!Init
    BY DEF Init, Fifo!Init
  <1>2. IInv /\ [Next]_vars => [Fifo!Next]_(Fifo!vars)
    BY FifoStep
  <1> QED
    BY <1>1, <1>2, RingInvariant, PTL DEF Spec, FifoImpl, Fifo!Spec
=============================================================================
