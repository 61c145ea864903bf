---------------------------- MODULE ChannelProofs ----------------------------
(***************************************************************************)
(* For every limit and every message set, with or without cleared slots:   *)
(* the ring buffer keeps its indices consistent and implements the queue.  *)
(***************************************************************************)
EXTENDS Channel, SequenceTheorems, TLAPS

\* The indices in range, and writer and reader count slots apart with the
\* messages between them: the inductive invariant.
ChannelInv == TypeOK /\ SlotsFilled

\* A ring index stays in range, from one lap below to one lap above.
LEMMA AlignRange ==
    ASSUME NEW n \in Int, -Limit <= n, n < 2 * Limit
    PROVE  align(n) \in Slot
BY LimitAssumption DEF align, Slot

\* Steps of one slot add up: the slot i + 1 after reader is i after its successor.
LEMMA AlignShift ==
    ASSUME NEW r \in Slot, NEW i \in 0..(Limit - 1)
    PROVE  /\ align(align(r + 1) + i) = align(r + i + 1)
           /\ align(align(r + 1) - 1) = r
BY LimitAssumption DEF align, Slot

\* Two offsets of less than a lap name different slots.
LEMMA AlignInjective ==
    ASSUME NEW r \in Slot, NEW i \in 0..(Limit - 1), NEW j \in 0..(Limit - 1),
           align(r + i) = align(r + j)
    PROVE  i = j
BY LimitAssumption DEF align, Slot

\* An index in range is its own slot, and so is one a lap further.
LEMMA AlignLap == \A r \in Slot : align(r) = r /\ align(r + Limit) = r
BY LimitAssumption DEF align, Slot

\* os_ch_read preserves the invariant: the slot it leaves is the one the
\* writer is count slots behind.
LEMMA ReadKeepsInv ==
    ASSUME ChannelInv, os_ch_read
    PROVE  ChannelInv'
<1>1. count \in 1..Limit /\ count' = count - 1 /\ reader \in Slot
  BY LimitAssumption DEF ChannelInv, TypeOK, os_ch_read, channel_empty
<1>2. reader' \in Slot
  BY <1>1, AlignRange, LimitAssumption DEF os_ch_read, Slot
<1>3. writer' = align(reader' + count')
  <2>1. align(reader' + count') = align(reader + count)
    BY <1>1, AlignShift, LimitAssumption DEF os_ch_read, Slot
  <2>2. CASE channel_full
    BY <2>1, <2>2, <1>1, AlignShift, AlignLap, LimitAssumption
       DEF os_ch_read, channel_full, Slot
  <2>3. CASE ~channel_full
    BY <2>1, <2>3 DEF os_ch_read, ChannelInv, SlotsFilled
  <2> QED BY <2>2, <2>3
<1>4. TypeOK'
  <2>1. writer' \in Slot
    BY <1>1, <1>2, <1>3, AlignRange, LimitAssumption DEF Slot
  <2>2. msg' \in [Slot -> Msg \cup {NoMsg}] /\ got' \in Msg \cup {NoMsg}
    BY <1>1 DEF os_ch_read, ChannelInv, TypeOK
  <2> QED BY <1>1, <1>2, <2>1, <2>2, LimitAssumption DEF TypeOK, os_ch_read
<1>5. ASSUME NEW i \in 0..(Limit - 1)
      PROVE  IF i < count' THEN msg'[align(reader' + i)] \in Msg
             ELSE Pointer => msg'[align(reader' + i)] = NoMsg
  <2>1. align(reader' + i) = align(reader + i + 1)
    BY <1>1, AlignShift DEF os_ch_read
  <2>2. align(reader + i + 1) \in Slot
    BY <1>1, AlignRange, LimitAssumption DEF Slot
  <2>3. CASE i + 1 < Limit
    <3>1. i + 1 \in 0..(Limit - 1) /\ reader + (i + 1) = reader + i + 1
      BY <2>3, <1>1, LimitAssumption DEF Slot
    <3>2. align(reader + i + 1) # reader
      <4>1. 0 \in 0..(Limit - 1) /\ reader + 0 = reader /\ align(reader) = reader
        BY <1>1, AlignLap, LimitAssumption DEF Slot
      <4> QED BY <4>1, <3>1, <1>1, AlignInjective
    <3>3. msg'[align(reader + i + 1)] = msg[align(reader + i + 1)]
      BY <3>2, <2>2 DEF os_ch_read, ChannelInv, TypeOK
    <3>4. IF i + 1 < count THEN msg[align(reader + i + 1)] \in Msg
          ELSE Pointer => msg[align(reader + i + 1)] = NoMsg
      BY <3>1 DEF ChannelInv, SlotsFilled
    <3>5. i < count' <=> i + 1 < count
      BY <1>1
    <3> QED BY <2>1, <3>3, <3>4, <3>5
  <2>4. CASE ~(i + 1 < Limit)
    <3>1. i + 1 = Limit /\ align(reader + i + 1) = reader /\ ~(i < count')
      <4>1. i + 1 = Limit /\ reader + i + 1 = reader + Limit /\ ~(i < count')
        BY <2>4, <1>1, LimitAssumption DEF Slot
      <4> QED BY <4>1, <1>1, AlignLap
    <3>2. Pointer => msg'[reader] = NoMsg
      BY <1>1 DEF os_ch_read, ChannelInv, TypeOK
    <3> QED BY <2>1, <3>1, <3>2
  <2> QED BY <2>3, <2>4
<1> QED BY <1>3, <1>4, <1>5 DEF ChannelInv, SlotsFilled

\* os_ch_write preserves it: the slot it fills is the first free one.
LEMMA WriteKeepsInv ==
    ASSUME ChannelInv, NEW m \in Msg, os_ch_write(m)
    PROVE  ChannelInv' /\ reader' = reader
<1>1. count \in 0..(Limit - 1) /\ count' = count + 1 /\ reader \in Slot /\ writer \in Slot
  BY LimitAssumption DEF ChannelInv, TypeOK, os_ch_write, channel_full
<1>2. writer = align(reader + count)
  BY DEF ChannelInv, SlotsFilled
<1>3. reader' = reader
  <2>1. CASE channel_empty
    <3>1. writer = reader
      BY <2>1, <1>1, <1>2, AlignLap DEF channel_empty, Slot
    <3> QED BY <2>1, <3>1, <1>1, AlignShift, LimitAssumption DEF os_ch_write
  <2>2. CASE ~channel_empty
    BY <2>2 DEF os_ch_write
  <2> QED BY <2>1, <2>2
<1>4. writer' = align(reader + count')
  BY <1>1, <1>2, LimitAssumption DEF os_ch_write, align, Slot
<1>5. TypeOK'
  <2>1. writer' \in Slot
    BY <1>1, <1>4, AlignRange, LimitAssumption DEF Slot
  <2>2. msg' \in [Slot -> Msg \cup {NoMsg}] /\ got' \in Msg \cup {NoMsg}
    BY <1>1 DEF os_ch_write, ChannelInv, TypeOK
  <2> QED BY <1>1, <1>3, <2>1, <2>2, LimitAssumption DEF TypeOK, os_ch_write
<1>6. ASSUME NEW i \in 0..(Limit - 1)
      PROVE  IF i < count' THEN msg'[align(reader + i)] \in Msg
             ELSE Pointer => msg'[align(reader + i)] = NoMsg
  <2>1. align(reader + i) \in Slot
    BY <1>1, AlignRange, LimitAssumption DEF Slot
  <2>2. CASE i = count
    BY <2>2, <1>1, <1>2 DEF os_ch_write, ChannelInv, TypeOK
  <2>3. CASE i # count
    <3>1. align(reader + i) # writer
      BY <2>3, <1>1, <1>2, AlignInjective
    <3>2. msg'[align(reader + i)] = msg[align(reader + i)]
      BY <3>1, <2>1, <1>1 DEF os_ch_write, ChannelInv, TypeOK
    <3>3. IF i < count THEN msg[align(reader + i)] \in Msg
          ELSE Pointer => msg[align(reader + i)] = NoMsg
      BY DEF ChannelInv, SlotsFilled
    <3>4. i < count' <=> i < count
      BY <2>3, <1>1
    <3> QED BY <3>2, <3>3, <3>4
  <2> QED BY <2>2, <2>3
<1> QED BY <1>3, <1>4, <1>5, <1>6 DEF ChannelInv, SlotsFilled

\* Writer and reader never drift apart (channel.h os_ch_read, os_ch_write):
\* the counted slots hold messages, so os_ch_read's assertion cannot fail.
THEOREM ChannelCorrect == Spec => []ChannelInv
<1>1. Init => ChannelInv
  BY LimitAssumption, AlignLap DEF Init, ChannelInv, TypeOK, SlotsFilled, Slot
<1>2. ChannelInv /\ [Next]_vars => ChannelInv'
  <2> SUFFICES ASSUME ChannelInv, [Next]_vars PROVE ChannelInv'
    OBVIOUS
  <2>1. CASE os_ch_read
    BY <2>1, ReadKeepsInv
  <2>2. CASE \E m \in Msg : os_ch_write(m)
    BY <2>2, WriteKeepsInv
  <2>3. CASE ReadEmpty
    BY <2>3 DEF ReadEmpty, ChannelInv, TypeOK, SlotsFilled
  <2>4. CASE WriteFull
    BY <2>4 DEF WriteFull, ChannelInv, TypeOK, SlotsFilled
  <2>5. CASE UNCHANGED vars
    BY <2>5 DEF vars, ChannelInv, TypeOK, SlotsFilled
  <2> QED BY <2>1, <2>2, <2>3, <2>4, <2>5 DEF Next
<1> QED BY <1>1, <1>2, PTL DEF Spec

\* Reader, writer and count stay in their ranges, however often they wrap.
THEOREM ChannelTypes == Spec => []TypeOK
<1>1. ChannelInv => TypeOK
  BY DEF ChannelInv
<1> QED BY <1>1, ChannelCorrect, PTL

\* The indices and counts of a channel are always consistent.
THEOREM ChannelSlotsFilled == Spec => []SlotsFilled
<1>1. ChannelInv => SlotsFilled
  BY DEF ChannelInv
<1> QED BY <1>1, ChannelCorrect, PTL

-----------------------------------------------------------------------------
\* The c slots from r on, read as a sequence.
LEMMA RingSeq ==
    ASSUME NEW r \in Slot, NEW c \in 0..Limit, NEW f,
           \A i \in 0..(Limit - 1) : i < c => f[align(r + i)] \in Msg
    PROVE  LET q == [i \in 1..c |-> f[align(r + i - 1)]]
           IN  q \in Seq(Msg) /\ Len(q) = c /\ \A i \in 1..c : q[i] = f[align(r + i - 1)]
<1> DEFINE q == [i \in 1..c |-> f[align(r + i - 1)]]
<1>1. \A i \in 1..c : f[align(r + i - 1)] \in Msg
  <2> SUFFICES ASSUME NEW i \in 1..c PROVE f[align(r + i - 1)] \in Msg
    OBVIOUS
  <2>1. i - 1 \in 0..(Limit - 1) /\ i - 1 < c /\ r + (i - 1) = r + i - 1
    BY LimitAssumption DEF Slot
  <2> QED BY <2>1
<1>2. c \in Nat /\ q \in [1..c -> Msg]
  BY <1>1, LimitAssumption
<1>3. q \in Seq(Msg) /\ Len(q) = c
  BY <1>2, LenProperties, SeqDef
<1> QED BY <1>3

\* The queue that the slots stand for is a sequence of count messages.
LEMMA ContentSeq ==
    ASSUME ChannelInv
    PROVE  /\ Content \in Seq(Msg)
           /\ Len(Content) = count
           /\ \A i \in 1..count : Content[i] = msg[align(reader + i - 1)]
<1>1. \A i \in 0..(Limit - 1) : i < count => msg[align(reader + i)] \in Msg
  BY DEF ChannelInv, SlotsFilled
<1> QED BY <1>1, RingSeq DEF ChannelInv, TypeOK, Content

\* A write appends to the queue.
LEMMA WriteIsPut ==
    ASSUME ChannelInv, NEW m \in Msg, os_ch_write(m)
    PROVE  fifo!Put
<1>1. count \in 0..(Limit - 1) /\ count' = count + 1 /\ reader \in Slot /\ writer \in Slot
  BY LimitAssumption DEF ChannelInv, TypeOK, os_ch_write, channel_full
<1>2. reader' = reader /\ ChannelInv'
  BY WriteKeepsInv
<1>3. /\ Content' \in Seq(Msg) /\ Len(Content') = count + 1
      /\ \A i \in 1..(count + 1) : Content'[i] = msg'[align(reader + i - 1)]
  <2>1. \A i \in 0..(Limit - 1) : i < count' => msg'[align(reader' + i)] \in Msg
    BY <1>2 DEF ChannelInv, SlotsFilled
  <2>2. reader' \in Slot /\ count' \in 0..Limit
    BY <1>2 DEF ChannelInv, TypeOK
  <2> QED BY <1>1, <1>2, <2>1, <2>2, RingSeq DEF Content
<1>4. \A i \in 1..(count + 1) : Content'[i] = Append(Content, m)[i]
  <2> SUFFICES ASSUME NEW i \in 1..(count + 1)
               PROVE  msg'[align(reader + i - 1)] = Append(Content, m)[i]
    BY <1>3
  <2>1. /\ i - 1 \in 0..(Limit - 1) /\ reader + (i - 1) = reader + i - 1
        /\ align(reader + i - 1) \in Slot
    BY <1>1, AlignRange, LimitAssumption DEF Slot
  <2>2. CASE i = count + 1
    <3>1. reader + i - 1 = reader + count
      BY <2>2, <1>1 DEF Slot
    <3>2. msg'[align(reader + i - 1)] = m
      BY <3>1, <1>1 DEF os_ch_write, ChannelInv, TypeOK, SlotsFilled
    <3> QED BY <2>2, <3>2, ContentSeq, AppendProperties
  <2>3. CASE i \in 1..count
    <3>1. align(reader + i - 1) # writer
      <4>1. i - 1 # count /\ writer = align(reader + count)
        BY <2>3, <1>1 DEF ChannelInv, SlotsFilled
      <4> QED BY <4>1, <2>1, <1>1, AlignInjective
    <3>2. msg'[align(reader + i - 1)] = msg[align(reader + i - 1)]
      BY <3>1, <2>1, <1>1 DEF os_ch_write, ChannelInv, TypeOK
    <3> QED BY <2>3, <3>2, ContentSeq, AppendProperties
  <2>4. i = count + 1 \/ i \in 1..count
    BY <1>1
  <2> QED BY <2>2, <2>3, <2>4
<1>5. Append(Content, m) \in Seq(Msg) /\ Len(Append(Content, m)) = count + 1
  BY ContentSeq, AppendProperties
<1>6. Content' = Append(Content, m)
  BY <1>3, <1>4, <1>5, SeqEqual
<1>7. Len(Content) < Limit
  BY <1>1, ContentSeq, LimitAssumption
<1>8. ret' = "ok" /\ UNCHANGED got
  BY DEF os_ch_write
<1> QED BY <1>6, <1>7, <1>8 DEF fifo!Put

\* A read takes the head of the queue.
LEMMA ReadIsGet ==
    ASSUME ChannelInv, os_ch_read
    PROVE  fifo!Get
<1>1. count \in 1..Limit /\ count' = count - 1 /\ reader \in Slot
  BY LimitAssumption DEF ChannelInv, TypeOK, os_ch_read, channel_empty
<1>2. ChannelInv' /\ reader' = align(reader + 1)
  BY ReadKeepsInv DEF os_ch_read
<1>3. /\ Content' \in Seq(Msg) /\ Len(Content') = count - 1
      /\ \A i \in 1..(count - 1) : Content'[i] = msg'[align(reader' + i - 1)]
  <2>1. \A i \in 0..(Limit - 1) : i < count' => msg'[align(reader' + i)] \in Msg
    BY <1>2 DEF ChannelInv, SlotsFilled
  <2>2. reader' \in Slot /\ count' \in 0..Limit
    BY <1>2 DEF ChannelInv, TypeOK
  <2> QED BY <1>1, <2>1, <2>2, RingSeq DEF Content
<1>4. Content # <<>> /\ Head(Content) = msg[reader]
  <2>1. 1 \in 1..count /\ reader + 1 - 1 = reader /\ align(reader) = reader
    BY <1>1, AlignLap DEF Slot
  <2>2. Content[1] = msg[reader] /\ Len(Content) # 0
    BY <2>1, <1>1, ContentSeq
  <2>3. Content # <<>>
    BY <2>2
  <2> QED BY <2>2, <2>3, ContentSeq
<1>5. /\ Tail(Content) \in Seq(Msg) /\ Len(Tail(Content)) = count - 1
      /\ \A i \in 1..(count - 1) : Tail(Content)[i] = Content[i + 1]
  BY <1>1, <1>4, ContentSeq, HeadTailProperties
<1>6. \A i \in 1..(count - 1) : Content'[i] = Tail(Content)[i]
  <2> SUFFICES ASSUME NEW i \in 1..(count - 1)
               PROVE  msg'[align(reader' + i - 1)] = msg[align(reader + i)]
    <3>1. \A i \in 1..(count - 1) : i + 1 \in 1..count /\ reader + (i + 1) - 1 = reader + i
      BY <1>1 DEF Slot
    <3> QED BY <1>3, <1>5, <3>1, ContentSeq
  <2>1. i - 1 \in 0..(Limit - 1) /\ i \in 0..(Limit - 1) /\ 0 \in 0..(Limit - 1)
    BY <1>1, LimitAssumption
  <2>2. align(reader' + i - 1) = align(reader + i)
    <3>1. align(align(reader + 1) + (i - 1)) = align(reader + (i - 1) + 1)
      BY <2>1, <1>1, AlignShift
    <3>2. reader' + i - 1 = align(reader + 1) + (i - 1) /\ reader + (i - 1) + 1 = reader + i
      BY <1>1, <1>2, <2>1, AlignRange, LimitAssumption DEF Slot
    <3> QED BY <3>1, <3>2
  <2>3. align(reader + i) \in Slot /\ align(reader + i) # reader
    <3>1. reader + 0 = reader /\ align(reader) = reader /\ i # 0
      BY <1>1, AlignLap DEF Slot
    <3>2. align(reader + i) # align(reader + 0)
      BY <3>1, <2>1, <1>1, AlignInjective
    <3>3. align(reader + i) \in Slot
      BY <1>1, <2>1, AlignRange, LimitAssumption DEF Slot
    <3> QED BY <3>1, <3>2, <3>3
  <2> QED BY <2>2, <2>3, <1>1 DEF os_ch_read, ChannelInv, TypeOK
<1>7. Content' = Tail(Content)
  BY <1>3, <1>5, <1>6, SeqEqual
<1> QED BY <1>4, <1>7 DEF fifo!Get, os_ch_read

\* Every behaviour of the ring buffer is one of the bounded queue: messages
\* come out once each and in order, for every limit.
THEOREM ChannelIsFifo == Spec => IsFifo
<1>1. Init => fifo!FifoInit
  <2> SUFFICES ASSUME Init PROVE Content = <<>> /\ got = NoMsg /\ ret = "ok"
    BY DEF fifo!FifoInit
  <2>1. ChannelInv
    BY LimitAssumption, AlignLap DEF Init, ChannelInv, TypeOK, SlotsFilled, Slot
  <2>2. Len(Content) = 0 /\ Content \in Seq(Msg)
    BY <2>1, ContentSeq DEF Init
  <2> QED BY <2>2, EmptySeq DEF Init
<1>2. ChannelInv /\ [Next]_vars => [fifo!FifoNext]_(fifo!fifoVars)
  <2> SUFFICES ASSUME ChannelInv, [Next]_vars
               PROVE  fifo!FifoNext \/ UNCHANGED fifo!fifoVars
    OBVIOUS
  <2>1. CASE os_ch_read
    BY <2>1, ReadIsGet DEF fifo!FifoNext
  <2>2. CASE \E m \in Msg : os_ch_write(m)
    BY <2>2, WriteIsPut DEF fifo!FifoNext
  <2>3. CASE ReadEmpty
    <3>1. Content' = Content
      BY <2>3 DEF ReadEmpty, Content
    <3>2. Content = <<>>
      BY <2>3, ContentSeq, EmptySeq DEF ReadEmpty, channel_empty
    <3> QED BY <3>1, <3>2, <2>3 DEF fifo!FifoNext, fifo!GetEmpty, ReadEmpty
  <2>4. CASE WriteFull
    <3>1. Content' = Content
      BY <2>4 DEF WriteFull, Content
    <3>2. Len(Content) = Limit
      BY <2>4, ContentSeq DEF WriteFull, channel_full
    <3> QED BY <3>1, <3>2, <2>4 DEF fifo!FifoNext, fifo!PutFull, WriteFull
  <2>5. CASE UNCHANGED vars
    BY <2>5 DEF vars, Content, fifo!fifoVars
  <2> QED BY <2>1, <2>2, <2>3, <2>4, <2>5 DEF Next
<1> QED BY <1>1, <1>2, ChannelCorrect, PTL DEF Spec, IsFifo, fifo!FifoSpec
==============================================================================
