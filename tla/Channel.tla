------------------------------- MODULE Channel -------------------------------
(***************************************************************************)
(* The message channel of autelan-lib (utils/channel.h): a ring buffer     *)
(* with a reader index, a writer index and a count.  A channel of pointers *)
(* clears a slot when it is read; the other types leave the message there. *)
(***************************************************************************)
EXTENDS Integers, Sequences

CONSTANTS
    Msg,      \* messages
    NoMsg,    \* NULL, and the zeroes os_zalloc leaves
    Limit,    \* ch->limit
    Pointer   \* ch->type is CHANNEL_POINTER

ASSUME LimitAssumption == Limit \in Nat \ {0}
ASSUME NoMsgAssumption == NoMsg \notin Msg
ASSUME PointerAssumption == Pointer \in BOOLEAN

VARIABLES reader, writer, count, msg,
          got,   \* *msg of the last read
          ret    \* the last call's result

vars == <<reader, writer, count, msg, got, ret>>

Slot == 0..(Limit - 1)

\* __channel_align: n is never so far outside that it recurs more than once
align(n) == IF n < 0 THEN n + Limit ELSE IF n < Limit THEN n ELSE n - Limit

\* Mutant: a full channel takes one more message.
fullLate == count > Limit

channel_full == count = Limit
channel_empty == count = 0

\* os_ch_new: zeroed memory
Init ==
    /\ reader = 0 /\ writer = 0 /\ count = 0
    /\ msg = [s \in Slot |-> NoMsg]
    /\ got = NoMsg /\ ret = "ok"

\* Mutant: the slot after the reader is read.
ReadAhead ==
    /\ ~channel_empty
    /\ got' = msg[align(reader + 1)]
    /\ msg' = IF Pointer THEN [msg EXCEPT ![reader] = NoMsg] ELSE msg
    /\ reader' = align(reader + 1)
    /\ writer' = IF channel_full THEN align(reader' - 1) ELSE writer
    /\ count' = count - 1
    /\ ret' = "ok"

os_ch_read ==
    /\ ~channel_empty
    /\ got' = msg[reader]
    /\ msg' = IF Pointer THEN [msg EXCEPT ![reader] = NoMsg] ELSE msg
    /\ reader' = align(reader + 1)
    /\ writer' = IF channel_full THEN align(reader' - 1) ELSE writer
    /\ count' = count - 1
    /\ ret' = "ok"

ReadEmpty ==
    /\ channel_empty
    /\ ret' = "bad"
    /\ UNCHANGED <<reader, writer, count, msg, got>>

\* Mutant: the reader is moved to the writer's new place.
WriteMovesReader(m) ==
    /\ ~channel_full
    /\ msg' = [msg EXCEPT ![writer] = m]
    /\ writer' = align(writer + 1)
    /\ reader' = IF channel_empty THEN writer' ELSE reader
    /\ count' = count + 1
    /\ ret' = "ok" /\ UNCHANGED got

os_ch_write(m) ==
    /\ ~channel_full
    /\ msg' = [msg EXCEPT ![writer] = m]
    /\ writer' = align(writer + 1)
    /\ reader' = IF channel_empty THEN align(writer' - 1) ELSE reader
    /\ count' = count + 1
    /\ ret' = "ok" /\ UNCHANGED got

WriteFull ==
    /\ channel_full
    /\ ret' = "bad"
    /\ UNCHANGED <<reader, writer, count, msg, got>>

Next == os_ch_read \/ ReadEmpty \/ (\E m \in Msg : os_ch_write(m)) \/ WriteFull

Spec == Init /\ [][Next]_vars

-----------------------------------------------------------------------------
\* The types of channel_t's fields.
TypeOK ==
    /\ reader \in Slot /\ writer \in Slot /\ count \in 0..Limit
    /\ msg \in [Slot -> Msg \cup {NoMsg}]
    /\ got \in Msg \cup {NoMsg}
    /\ ret \in {"ok", "bad"}

\* Writer and reader are count slots apart, the counted slots hold messages
\* and, in a channel of pointers, the others do not: what os_ch_read's
\* os_assert(NULL != *msg) needs.
SlotsFilled ==
    /\ writer = align(reader + count)
    /\ \A i \in 0..(Limit - 1) :
         IF i < count THEN msg[align(reader + i)] \in Msg
         ELSE Pointer => msg[align(reader + i)] = NoMsg

\* The messages between reader and writer, oldest first.
Content == [i \in 1..count |-> msg[align(reader + i - 1)]]

fifo == INSTANCE Fifo WITH queue <- Content

\* The ring implements a bounded queue: every message written is read once,
\* in the order of the writes, and only full and empty channels refuse.
IsFifo == fifo!FifoSpec
==============================================================================
