------------------------------ MODULE MCAppKey ------------------------------
(* A small instance of AppKey for TLC: the last of three entries, which    *)
(* two keys reach when a killed load has left one without a name, lies     *)
(* beyond the offsets an id can hold.                                      *)
EXTENDS AppKey, TLC

CONSTANTS a, b

of(k, v) == [kind |-> "key", key |-> k, value |-> v]
MCContents == {<<of(a, 1), [kind |-> "bad"], of(b, 1), of(a, 0)>>,
               <<of(b, 0), [kind |-> "unreadable"], of(b, 1)>>}

\* Nothing is said of ids once loads have overlapped: such states are
\* followed only while nobody has one.
IdsWhileAlone == alone \/ akid = [p \in Proc |-> NoId]
ProcSymmetry == Permutations(Proc)
=============================================================================
