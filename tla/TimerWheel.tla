----------------------------- MODULE TimerWheel -----------------------------
(***************************************************************************)
(* The timer library (autelan-lib/src/timer/timer.c): rings of slots, each *)
(* ring turned one slot when the ring below has turned once.  A timer      *)
(* hangs in a slot chosen by the highest non-zero digit of its remaining   *)
(* time, and is hung again, nearer, each time its slot comes up.           *)
(*                                                                         *)
(* A slot's list is the set of pending timers whose ring_idx and ring_slot *)
(* name it.  The counters that only tm_dump prints are left out.  The      *)
(* caller does not insert a timer that is pending, as the list could not   *)
(* survive it, and a callback touches its own timer only.                  *)
(***************************************************************************)
EXTENDS Integers

CONSTANTS
    Timers,
    Slots,      \* TM_SLOT (256 in the code)
    Rings,      \* TM_RING (4 in the code)
    After,      \* arguments of os_tm_insert
    Change,     \* arguments of os_tm_change
    MaxTicks    \* bound on CLOCK.ticks

ASSUME WheelAssumption == Slots \in Nat \ {0, 1} /\ Rings \in Nat \ {0}

\* 1 << TM_BIT*r, the ticks one slot of ring r stands for; weight[Rings] is 2^32
weight[r \in 0..Rings] == IF r = 0 THEN 1 ELSE Slots * weight[r - 1]

ASSUME AfterAssumption == After \subseteq 1..(weight[Rings] \div 2 - 1)
ASSUME ChangeAssumption == Change \subseteq 0..(weight[Rings] - 1)

VARIABLES
    ticks,    \* CLOCK.ticks
    current,  \* ring->current of each ring
    node,     \* the struct tm_node of each timer
    fired     \* the timers whose callback the last tick ran

wheelVars == <<ticks, current, node, fired>>

RingId == 0..(Rings - 1)
RingMax == Rings - 1
Uint32(n) == n % weight[Rings]

Node == [pending : BOOLEAN, cycle : BOOLEAN, create : Nat, expires : Nat,
         ring : RingId, slot : 0..(Slots - 1)]
ZeroNode == [pending |-> FALSE, cycle |-> FALSE, create |-> 0, expires |-> 0,
             ring |-> 0, slot |-> 0]

tm_left(nd, now) ==
    IF nd.create + nd.expires > now THEN nd.create + nd.expires - now ELSE 0

-----------------------------------------------------------------------------
\* Digit idx of the remaining time, what the two shifts leave of it
digit(left, idx) == (left \div weight[idx]) % Slots

\* Mutant: the slot is counted from 0, not from the ring's current slot.
findFromZero(left, cur) ==
    LET high == {i \in 1..RingMax : digit(left, i) # 0}
        idx  == IF high = {} THEN 0 ELSE CHOOSE i \in high : \A j \in high : i >= j
    IN  [ring |-> idx, slot |-> digit(left, idx)]

\* The highest ring whose digit is not zero, else ring 0
tm_find_ring(left, cur) ==
    LET high == {i \in 1..RingMax : digit(left, i) # 0}
        idx  == IF high = {} THEN 0 ELSE CHOOSE i \in high : \A j \in high : i >= j
    IN  [ring |-> idx, slot |-> (cur[idx] + digit(left, idx)) % Slots]

tm_insert(nd, now, cur) ==
    LET place == tm_find_ring(tm_left(nd, now), cur)
    IN  [nd EXCEPT !.pending = TRUE, !.ring = place.ring, !.slot = place.slot]

-----------------------------------------------------------------------------
os_tm_insert(t, a, cycle) ==
    /\ ~node[t].pending
    /\ node' = [node EXCEPT ![t] =
                  tm_insert([@ EXCEPT !.create = ticks, !.expires = a, !.cycle = cycle],
                            ticks, current)]
    /\ fired' = {} /\ UNCHANGED <<ticks, current>>

os_tm_remove(t) ==
    /\ node[t].pending
    /\ node' = [node EXCEPT ![t] = ZeroNode]
    /\ fired' = {} /\ UNCHANGED <<ticks, current>>

\* Bound: a timer's age and its new time together stay below 2^32 ticks
MaxLife == weight[Rings] - 1

\* expires grows or shrinks by the difference to the time left, modulo 2^32
os_tm_change(t, a) ==
    /\ node[t].pending
    /\ ticks - node[t].create + a <= MaxLife
    /\ LET expires == Uint32(node[t].expires + a - tm_left(node[t], ticks))
       IN  node' = [node EXCEPT ![t] =
                      tm_insert([@ EXCEPT !.expires = expires], ticks, current)]
    /\ fired' = {} /\ UNCHANGED <<ticks, current>>

-----------------------------------------------------------------------------
(***************************************************************************)
(* tm_ring_trigger on ring r of wheel w at tick now: the timers of the     *)
(* current slot with no time left fire, the others are hung again.  The    *)
(* callback of a one-shot timer t may insert t again, as a one-shot timer  *)
(* (again[t] # 0); a cyclic timer is inserted again whatever its callback  *)
(* does, because it is not pending while the callback runs and             *)
(* os_tm_remove ignores it.  A callback that inserts its one-shot timer    *)
(* as a cyclic one is left out: the code looks at the cycle flag after the *)
(* callback, and would link the timer twice.                               *)
(***************************************************************************)
tm_ring_trigger(w, r, now, again) ==
    LET here == {t \in Timers : /\ w.node[t].pending
                                /\ w.node[t].ring = r /\ w.node[t].slot = w.current[r]}
        out  == {t \in here : tm_left(w.node[t], now) = 0}
        hang(nd) == tm_insert(nd, now, w.current)
        rerun(t) ==
            IF w.node[t].cycle THEN hang([w.node[t] EXCEPT !.create = now])
            ELSE IF again[t] # 0
                 THEN hang([w.node[t] EXCEPT !.create = now, !.expires = again[t]])
                 ELSE [w.node[t] EXCEPT !.pending = FALSE]
    IN  [w EXCEPT !.fired = @ \cup out,
                  !.node = [t \in Timers |-> IF t \in out THEN rerun(t)
                                             ELSE IF t \in here THEN hang(w.node[t])
                                             ELSE w.node[t]]]

\* Mutant: the slot is triggered before the ring is turned.
turnLate(w, r, now, again) ==
    LET v == tm_ring_trigger(w, r, now, again)
    IN  [v EXCEPT !.current[r] = (@ + 1) % Slots]

\* Mutant: the ring is turned past its last slot.
turnNoMask(w, r, now, again) ==
    tm_ring_trigger([w EXCEPT !.current[r] = @ + 1], r, now, again)

\* tm_trigger on one ring: turn it, then trigger the slot that is now current
turn(w, r, now, again) ==
    tm_ring_trigger([w EXCEPT !.current[r] = (@ + 1) % Slots], r, now, again)

\* Mutant: a ring carries when the one below it, alone, wraps.
carryOne == {r \in RingId : r = 0 \/ current[r - 1] = Slots - 1}

\* The rings one tick turns: ring 0, and each ring above one that wraps
carry == {r \in RingId : \A q \in 0..(r - 1) : current[q] = Slots - 1}

\* tm_trigger from ring 0 upwards, while the rings carry
tm_trigger(now, again) ==
    LET w[r \in 0..Rings] ==
            IF r = 0 THEN [current |-> current, node |-> node, fired |-> {}]
            ELSE IF r - 1 \in carry THEN turn(w[r - 1], r - 1, now, again)
            ELSE w[r - 1]
    IN  w[Rings]

\* One round of os_tm_trigger's loop
os_tm_trigger ==
    /\ ticks < MaxTicks /\ ticks' = ticks + 1
    /\ \E again \in [Timers -> After \cup {0}] :
         LET w == tm_trigger(ticks', again)
         IN  /\ \A t \in Timers : again[t] # 0 => t \in w.fired /\ ~node[t].cycle
             /\ current' = w.current /\ node' = w.node /\ fired' = w.fired

-----------------------------------------------------------------------------
\* __init: every slot's list is empty
Init ==
    /\ ticks = 0
    /\ current = [r \in RingId |-> 0]
    /\ node = [t \in Timers |-> ZeroNode]
    /\ fired = {}

Next ==
    \/ os_tm_trigger
    \/ \E t \in Timers : \/ \E a \in After, c \in BOOLEAN : os_tm_insert(t, a, c)
                         \/ os_tm_remove(t)
                         \/ \E a \in Change : os_tm_change(t, a)

Spec == Init /\ [][Next]_wheelVars

-----------------------------------------------------------------------------
\* The types of CLOCK and of struct tm_node.
TypeOK ==
    /\ ticks \in Nat
    /\ current \in [RingId -> 0..(Slots - 1)]
    /\ node \in [Timers -> Node]
    /\ fired \in SUBSET Timers

\* The rings read as one number in base Slots are the tick count: no carry is
\* lost or made twice.
RingsCountTicks == \A r \in RingId : current[r] = digit(ticks, r)

\* A pending timer's slot comes up no later than the timer is due, and once
\* it hangs in ring 0, exactly then: however often it is hung again on the way
\* down, it is never passed by.
SlotInTime ==
    \A t \in Timers :
        node[t].pending /\ tm_left(node[t], ticks) > 0 =>
            LET r == node[t].ring
                turns == IF node[t].slot = current[r] THEN Slots
                         ELSE (node[t].slot - current[r]) % Slots
                comes == turns * weight[r] - (ticks % weight[r])
            IN  /\ comes <= tm_left(node[t], ticks)
                /\ r = 0 => comes = tm_left(node[t], ticks)

\* The wheel implements exact alarms: a timer set for a tick fires on that
\* tick, on no other, and once.
alarms == INSTANCE Alarms WITH
    now <- ticks,
    due <- [t \in Timers |-> IF node[t].pending THEN node[t].create + node[t].expires ELSE 0],
    period <- [t \in Timers |->
                 IF node[t].pending /\ node[t].cycle THEN node[t].expires ELSE 0]

FiresExactly == alarms!AlarmsSpec
=============================================================================
