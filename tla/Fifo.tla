-------------------------------- MODULE Fifo --------------------------------
(***************************************************************************)
(* What a channel promises: a queue of at most Limit messages.  A write to *)
(* a full queue and a read of an empty one fail and change nothing.        *)
(***************************************************************************)
EXTENDS Naturals, Sequences

CONSTANTS Msg, Limit, NoMsg

VARIABLES
    queue,   \* the messages written and not yet read
    got,     \* the message read last
    ret      \* the last call's result

fifoVars == <<queue, got, ret>>

FifoInit == queue = <<>> /\ got = NoMsg /\ ret = "ok"

Put ==
    /\ Len(queue) < Limit
    /\ \E m \in Msg : queue' = Append(queue, m)
    /\ ret' = "ok" /\ UNCHANGED got

PutFull ==
    /\ Len(queue) = Limit
    /\ ret' = "bad" /\ UNCHANGED <<queue, got>>

Get ==
    /\ queue # <<>>
    /\ got' = Head(queue) /\ queue' = Tail(queue)
    /\ ret' = "ok"

GetEmpty ==
    /\ queue = <<>>
    /\ ret' = "bad" /\ UNCHANGED <<queue, got>>

FifoNext == Put \/ PutFull \/ Get \/ GetEmpty

FifoSpec == FifoInit /\ [][FifoNext]_fifoVars
=============================================================================
