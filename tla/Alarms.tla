------------------------------- MODULE Alarms -------------------------------
(***************************************************************************)
(* What the timer library promises (autelan-lib/src/timer/timer.h): a      *)
(* timer fires on the very tick it was set for, however far away that is,  *)
(* and a cyclic one is set again at once.                                  *)
(***************************************************************************)
EXTENDS Naturals

CONSTANT Timers

VARIABLES
    now,     \* ticks so far
    due,     \* the tick each timer is set for, 0 if it is not set
    period,  \* ticks between two firings of a cyclic timer, 0 for the others
    fired    \* the timers that fired on the last tick

alarmVars == <<now, due, period, fired>>

Unset == [t \in Timers |-> 0]

AlarmsInit == now = 0 /\ due = Unset /\ period = Unset /\ fired = {}

\* Only timer t changes.
Others(t) ==
    /\ due' = [due EXCEPT ![t] = due'[t]]
    /\ period' = [period EXCEPT ![t] = period'[t]]
    /\ fired' = {} /\ UNCHANGED now

\* os_tm_insert
Set(t) ==
    /\ due[t] = 0
    /\ due'[t] > now /\ period'[t] \in {0, due'[t] - now}
    /\ Others(t)

\* os_tm_remove
Cancel(t) ==
    /\ due[t] # 0
    /\ due'[t] = 0 /\ period'[t] = 0
    /\ Others(t)

\* os_tm_change: nothing is said of the period of a cyclic timer
Postpone(t) ==
    /\ due[t] # 0
    /\ due'[t] > now
    /\ period'[t] = 0 <=> period[t] = 0
    /\ Others(t)

\* One tick of os_tm_trigger: cyclic timers are set again, the others are
\* unset, or set again by their callback
Tick ==
    /\ now' = now + 1
    /\ fired' = {t \in Timers : due[t] = now'}
    /\ due' = [t \in Timers |-> IF t \in fired' THEN due'[t] ELSE due[t]]
    /\ \A t \in fired' :
         IF period[t] = 0 THEN due'[t] = 0 \/ due'[t] > now' ELSE due'[t] = now' + period[t]
    /\ UNCHANGED period

AlarmsNext == Tick \/ \E t \in Timers : Set(t) \/ Cancel(t) \/ Postpone(t)

AlarmsSpec == AlarmsInit /\ [][AlarmsNext]_alarmVars
=============================================================================
