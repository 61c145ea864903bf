---------------------------- MODULE MCAccMonitor ----------------------------
(* Small instances of AccMonitor for TLC: ints of three bits, so that 7 is *)
(* an unsigned delay that becomes negative.                                *)
EXTENDS AccMonitor

MCRequests == {[timer |-> 7, controller |-> 1]}
MCConfigs == {[timer |-> 1, controller |-> 0]}
MCTimers == {[timer |-> 1, controller |-> None]}
=============================================================================
