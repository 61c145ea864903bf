------------------------------ MODULE Ignition ------------------------------
(***************************************************************************)
(* What acc_mod promises, in terms of its readings of the ignition alone.  *)
(* An ignition that is off for Debounce readings in a row starts a delay;  *)
(* the delay ends with the first reading that finds the ignition on, which *)
(* starts everything again, or after as many further readings as the delay *)
(* has seconds (at least one), and then the box goes down, to boot again   *)
(* or not.  While a delay runs no request to change it is taken; one that  *)
(* was taken before may still change it.                                   *)
(***************************************************************************)
EXTENDS Integers

CONSTANT Debounce

VARIABLES
    mode,   \* "on", "off" (the delay runs), "ending", "down"
    run,    \* readings in a row that found the ignition off
    delay,  \* the delay in seconds, an int
    taken   \* a request to change it has been taken

ignitionVars == <<mode, run, delay, taken>>

IgnitionInit == mode = "on" /\ run = 0 /\ delay \in Int /\ taken = FALSE

Watch ==
    /\ mode = "on" /\ run < Debounce
    /\ run' \in {0, run + 1}
    /\ UNCHANGED <<mode, delay, taken>>

Begin ==
    /\ mode = "on" /\ run = Debounce
    /\ mode' = "off"
    /\ UNCHANGED <<run, delay, taken>>

Count ==
    /\ mode = "off"
    /\ \/ run' = 0 /\ mode' = "on"
       \/ /\ run' = run + 1
          /\ mode' = IF run' - Debounce >= delay THEN "ending" ELSE "off"
    /\ UNCHANGED <<delay, taken>>

Take ==
    /\ mode \in {"on", "ending"} /\ ~taken
    /\ taken' = TRUE
    /\ UNCHANGED <<mode, run, delay>>

SetDelay ==
    /\ taken
    /\ taken' = FALSE
    /\ delay' \in Int
    /\ UNCHANGED <<mode, run>>

\* The restart at the end, or an earlier one, or a loss of power.
GoDown ==
    /\ mode' = "down"
    /\ UNCHANGED <<run, delay, taken>>

Boot == mode = "down" /\ IgnitionInit'

IgnitionNext == Watch \/ Begin \/ Count \/ Take \/ SetDelay \/ GoDown \/ Boot

IgnitionSpec == IgnitionInit /\ [][IgnitionNext]_ignitionVars
=============================================================================
