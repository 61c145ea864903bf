------------------------------- MODULE KvStore -------------------------------
(***************************************************************************)
(* What a partition of variables promises its user: a command that changes *)
(* it first decides to, and then its whole effect happens or none, or the  *)
(* partition is damaged, and refuses everything but being emptied.  A      *)
(* partition that no command is about to change is never damaged.          *)
(***************************************************************************)
CONSTANTS Names, Values, None, Torn, Prefixed

VARIABLES
    store,    \* the variables' values, or Torn
    pending   \* a command is about to change them

kvVars == <<store, pending>>

Unset == [k \in Names |-> None]

KvInit == store = Unset /\ pending = FALSE

Begin == ~pending /\ pending' = TRUE /\ UNCHANGED store

Set ==
    /\ store # Torn
    /\ \E k \in Names, v \in Values : store' = [store EXCEPT ![k] = v]

Delete ==
    /\ store # Torn
    /\ \E k \in Names : store' = [store EXCEPT ![k] = None]

DeletePrefix ==
    /\ store # Torn
    /\ \E n \in Names :
         store' = [k \in Names |-> IF k \in Prefixed[n] THEN None ELSE store[k]]

Empty == store' = Unset

Damage == store' = Torn

\* The power is lost before anything is written, or nothing is.
GiveUp == UNCHANGED store

End ==
    /\ pending /\ pending' = FALSE
    /\ Set \/ Delete \/ DeletePrefix \/ Empty \/ Damage \/ GiveUp

KvNext == Begin \/ End

KvSpec == KvInit /\ [][KvNext]_kvVars
==============================================================================
