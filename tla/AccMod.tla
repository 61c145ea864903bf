------------------------------- MODULE AccMod -------------------------------
(***************************************************************************)
(* acc_mod, the kernel module that watches the ignition line of the        *)
(* vehicle (autelan_mod/acc_mod/src/check_acc.c).  The line reads 1 when   *)
(* the ignition is off.                                                    *)
(*                                                                         *)
(* Three timers and a tasklet hand the watch on to each other: gcc_timer   *)
(* looks for an ignition that is off for Debounce readings, the tasklet    *)
(* announces it, acc_timer counts the delay down, and sig_timer repeats    *)
(* the announcement and restarts the box in the end: it boots again, with  *)
(* the ignition as it is by then.  A timer is the number of seconds until  *)
(* it fires, or Idle.  The operations are used by AccMonitor, which adds   *)
(* the process that listens.                                               *)
(***************************************************************************)
EXTENDS Integers, Sequences

CONSTANTS
    Debounce,      \* readings that make an ignition off (3)
    DelayAfterOff, \* DELAY_AFTER_OFF: seconds between announcements (10)
    MaxDelayFlag,  \* announcements before the restart (6)
    AccDelayTimer, \* ACC_DELAY_TIMER: the delay at boot (60)
    MaxInt,        \* the largest int
    QueueMax       \* messages the netlink socket can hold

ASSUME DebounceAssumption == Debounce \in Nat \ {0}
ASSUME DelayAfterOffAssumption == DelayAfterOff \in Nat \ {0}
ASSUME MaxDelayFlagAssumption == MaxDelayFlag \in Nat \ {0}
ASSUME AccDelayTimerAssumption == AccDelayTimer \in Nat /\ AccDelayTimer <= MaxInt
ASSUME MaxIntAssumption == MaxInt \in Nat
ASSUME QueueMaxAssumption == QueueMax \in Nat

VARIABLES
    gpio,         \* the ignition line (external)
    power,        \* the box: "on", "restart" (it will boot again), "off"
    acc_flag, acc_flag1, total_time, total_time1, delay_flag, acc_sem,
    gcc_timer, acc_timer, sig_timer,
    tasklet,      \* acc_tasklet is scheduled
    acc_async,    \* a process wants SIGIO
    msg_flag,     \* a process has said hello on a netlink socket
    listener,     \* that socket still exists
    nlq,          \* its queue
    nlerr,        \* it has overflowed (ENOBUFS)
    sigio,        \* the process's SIGIO is pending
    (***********************************************************************)
    (* History, read by no action's guard:                                 *)
    (***********************************************************************)
    offRun,       \* readings in a row that found the ignition off
    onFor,        \* seconds the ignition has been on in a running box, up to
                  \* DelayAfterOff + 1
    heard,        \* a report has raised SIGIO
    bounced       \* the line has moved since the reading that was reported

watchVars  == <<acc_flag, acc_flag1, total_time, delay_flag, acc_sem,
                gcc_timer, acc_timer, sig_timer, tasklet, offRun>>
reportVars == <<nlq, nlerr, sigio, heard, bounced>>
kernelVars == <<watchVars, total_time1, acc_async, msg_flag, listener, reportVars>>
worldVars  == <<gpio, power, onFor>>

Up == power = "on"

Idle == -1

\* What the kernel sends; an empty buffer is no message.
Message == {"acc_off", "acc_on", "delay_off", "hello"}

UInt == 0..(2 * MaxInt + 1)

\* Mutant: the value is kept as it is.
ToIntPlain(n) == n

\* An unsigned int assigned to an int.
ToInt(n) == IF n <= MaxInt THEN n ELSE n - 2 * MaxInt - 2

\* acc_init: only gcc_timer is armed
KernelInit ==
    /\ acc_flag = 0 /\ acc_flag1 = 0 /\ total_time = 0 /\ delay_flag = 0
    /\ total_time1 = AccDelayTimer
    /\ acc_sem = 1 /\ tasklet = FALSE
    /\ gcc_timer = 1 /\ acc_timer = Idle /\ sig_timer = Idle
    /\ acc_async = FALSE /\ msg_flag = 0 /\ listener = FALSE
    /\ nlq = <<>> /\ nlerr = FALSE /\ sigio = FALSE
    /\ offRun = 0 /\ heard = FALSE /\ bounced = FALSE

\* acc_init after a restart: what KernelInit says, of the next state
KernelBoot ==
    /\ acc_flag' = 0 /\ acc_flag1' = 0 /\ total_time' = 0 /\ delay_flag' = 0
    /\ total_time1' = AccDelayTimer
    /\ acc_sem' = 1 /\ tasklet' = FALSE
    /\ gcc_timer' = 1 /\ acc_timer' = Idle /\ sig_timer' = Idle
    /\ acc_async' = FALSE /\ msg_flag' = 0 /\ listener' = FALSE
    /\ nlq' = <<>> /\ nlerr' = FALSE /\ sigio' = FALSE
    /\ offRun' = 0 /\ heard' = FALSE /\ bounced' = FALSE

-----------------------------------------------------------------------------
\* netlink_unicast: without the socket the message is lost, and a full one
\* fails its next recvmsg
netlink_unicast(m, socket) ==
    /\ nlq' = IF socket /\ Len(nlq) < QueueMax THEN Append(nlq, m) ELSE nlq
    /\ nlerr' = (nlerr \/ (socket /\ Len(nlq) >= QueueMax))

sendnlmsg(m) == netlink_unicast(m, msg_flag = 1 /\ listener)

\* Mutant: only the message is sent.
tellNoSignal(m, line) ==
    /\ sendnlmsg(m)
    /\ sigio' = sigio
    /\ heard' = (heard \/ acc_async)
    /\ bounced' = (gpio # line)

\* sendnlmsg and kill_fasync; line is the reading the report stems from
tell(m, line) ==
    /\ sendnlmsg(m)
    /\ sigio' = (sigio \/ acc_async)
    /\ heard' = (heard \/ acc_async)
    /\ bounced' = (gpio # line)

readings == IF gpio = 1 THEN acc_flag1 + 1 ELSE 0

seen == IF gpio = 1 THEN offRun + 1 ELSE 0

\* check_acc_stage1 that goes on watching: the ignition is on, or not off for
\* long enough, or the semaphore is taken
check_acc_stage1 ==
    /\ gcc_timer = 0
    /\ readings >= Debounce => acc_sem = 0
    /\ acc_flag1' = IF readings >= Debounce THEN 0 ELSE readings
    /\ gcc_timer' = 1
    /\ offRun' = seen
    /\ UNCHANGED <<acc_flag, total_time, delay_flag, acc_sem, acc_timer, sig_timer, tasklet,
                   total_time1, acc_async, msg_flag, listener, reportVars>>

\* check_acc_stage1 that takes the semaphore: gcc_timer is not armed again
IgnitionOff ==
    /\ gcc_timer = 0
    /\ readings >= Debounce /\ acc_sem > 0
    /\ acc_flag1' = 0
    /\ acc_sem' = acc_sem - 1
    /\ total_time' = 0
    /\ tasklet' = TRUE
    /\ gcc_timer' = Idle
    /\ offRun' = seen
    /\ UNCHANGED <<acc_flag, delay_flag, acc_timer, sig_timer,
                   total_time1, acc_async, msg_flag, listener, reportVars>>

tasklet_action ==
    /\ tasklet
    /\ tasklet' = FALSE
    /\ acc_flag' = 1
    /\ acc_timer' = 1
    /\ total_time' = total_time + 1
    /\ tell("acc_off", 1)
    /\ UNCHANGED <<acc_flag1, delay_flag, acc_sem, gcc_timer, sig_timer, offRun,
                   total_time1, acc_async, msg_flag, listener>>

\* Mutant: the semaphore is not given back.
IgnitionOnKeeps ==
    /\ acc_timer = 0 /\ gpio = 0
    /\ acc_flag' = 0
    /\ acc_timer' = Idle /\ gcc_timer' = 1
    /\ tell("acc_on", 0)
    /\ offRun' = 0
    /\ UNCHANGED <<acc_flag1, total_time, delay_flag, acc_sem, sig_timer, tasklet,
                   total_time1, acc_async, msg_flag, listener>>

\* check_acc_stage2: the ignition is back, the watch starts again
IgnitionOn ==
    /\ acc_timer = 0 /\ gpio = 0
    /\ acc_sem' = acc_sem + 1
    /\ acc_flag' = 0
    /\ acc_timer' = Idle /\ gcc_timer' = 1
    /\ tell("acc_on", 0)
    /\ offRun' = 0
    /\ UNCHANGED <<acc_flag1, total_time, delay_flag, sig_timer, tasklet,
                   total_time1, acc_async, msg_flag, listener>>

\* check_acc_stage2: the delay is over
TimeIsUp ==
    /\ acc_timer = 0 /\ gpio = 1 /\ total_time >= total_time1
    /\ acc_sem' = acc_sem + 1
    /\ acc_flag' = 0
    /\ acc_timer' = Idle /\ sig_timer' = DelayAfterOff
    /\ tell("delay_off", 1)
    /\ offRun' = seen
    /\ UNCHANGED <<acc_flag1, total_time, delay_flag, gcc_timer, tasklet,
                   total_time1, acc_async, msg_flag, listener>>

\* check_acc_stage2: the delay goes on
check_acc_stage2 ==
    /\ acc_timer = 0 /\ gpio = 1 /\ total_time < total_time1
    /\ acc_timer' = 1
    /\ total_time' = total_time + 1
    /\ offRun' = seen
    /\ UNCHANGED <<acc_flag, acc_flag1, delay_flag, acc_sem, gcc_timer, sig_timer, tasklet,
                   total_time1, acc_async, msg_flag, listener, reportVars>>

\* Mutant: the announcement is repeated for ever.
ap_shutdownAgain ==
    /\ sig_timer = 0
    /\ tell("delay_off", gpio)
    /\ delay_flag' = delay_flag
    /\ sig_timer' = DelayAfterOff
    /\ UNCHANGED power
    /\ UNCHANGED <<acc_flag, acc_flag1, total_time, acc_sem, gcc_timer, acc_timer, tasklet,
                   offRun, total_time1, acc_async, msg_flag, listener>>

\* kernel_restart after the last announcement
ap_shutdown ==
    /\ sig_timer = 0
    /\ tell("delay_off", gpio)
    /\ delay_flag' = delay_flag + 1
    /\ \/ delay_flag' < MaxDelayFlag /\ sig_timer' = DelayAfterOff /\ UNCHANGED power
       \/ delay_flag' >= MaxDelayFlag /\ sig_timer' = Idle /\ power' = "restart"
    /\ UNCHANGED <<acc_flag, acc_flag1, total_time, acc_sem, gcc_timer, acc_timer, tasklet,
                   offRun, total_time1, acc_async, msg_flag, listener>>

\* What runs when a timer fires.
Softirq ==
    /\ Up
    /\ UNCHANGED <<gpio, onFor>>
    /\ \/ /\ UNCHANGED power
          /\ \/ check_acc_stage1 \/ IgnitionOff \/ tasklet_action
             \/ IgnitionOn \/ TimeIsUp \/ check_acc_stage2
       \/ ap_shutdown

-----------------------------------------------------------------------------
\* Mutant: a delay is taken while one is counted down.
takesAlways == TRUE

\* acc_ioctl, SET_ACC_GPIO_TIMER, up to copy_from_user: the delay is refused,
\* with 0 all the same, while acc_flag ...
takes == acc_flag = 0

\* ... and else set, whatever the tasklet has done to acc_flag meanwhile
acc_ioctl(n) ==
    /\ total_time1' = ToInt(n)
    /\ UNCHANGED <<watchVars, acc_async, msg_flag, listener, reportVars>>

\* acc_open and acc_fasync
acc_open ==
    /\ acc_async' = TRUE
    /\ UNCHANGED <<watchVars, total_time1, msg_flag, listener, reportVars>>

\* acc_close, when the process ends: msg_flag stays
acc_close ==
    /\ acc_async' = FALSE /\ listener' = FALSE
    /\ nlq' = <<>> /\ nlerr' = FALSE /\ sigio' = FALSE /\ heard' = FALSE
    /\ UNCHANGED <<watchVars, total_time1, msg_flag, bounced>>

\* The process says hello, and is answered before msg_flag is set.
nl_data_ready ==
    /\ netlink_unicast("hello", TRUE)
    /\ msg_flag' = 1 /\ listener' = TRUE
    /\ UNCHANGED <<watchVars, total_time1, acc_async, sigio, heard, bounced>>

\* Mutant: a timer stops one second before it fires.
fallShort(t) == IF t > 1 THEN t - 1 ELSE t

fall(t) == IF t > 0 THEN t - 1 ELSE t

\* A second passes.  Softirqs are not late by a second, nor are signals.
KernelTick ==
    /\ Up
    /\ gcc_timer # 0 /\ acc_timer # 0 /\ sig_timer # 0 /\ ~tasklet /\ ~sigio
    /\ gcc_timer' = fall(gcc_timer)
    /\ acc_timer' = fall(acc_timer)
    /\ sig_timer' = fall(sig_timer)
    /\ onFor' = IF gpio = 0 /\ onFor <= DelayAfterOff THEN onFor + 1 ELSE onFor
    /\ UNCHANGED <<gpio, power, acc_flag, acc_flag1, total_time, delay_flag, acc_sem, tasklet,
                   offRun, total_time1, acc_async, msg_flag, listener, reportVars>>

\* The driver turns the key.
Flip ==
    /\ Up
    /\ gpio' = 1 - gpio
    /\ onFor' = 0
    /\ bounced' = (bounced \/ sigio)
    /\ UNCHANGED <<power, watchVars, total_time1, acc_async, msg_flag, listener, nlq, nlerr, sigio, heard>>

-----------------------------------------------------------------------------
\* The types of the kernel module's state.
KernelTypeOK ==
    /\ gpio \in {0, 1} /\ power \in {"on", "restart", "off"}
    /\ acc_flag \in {0, 1} /\ msg_flag \in {0, 1} /\ acc_sem \in {0, 1}
    /\ acc_flag1 \in 0..(Debounce - 1) /\ delay_flag \in 0..MaxDelayFlag
    /\ total_time \in 0..(MaxInt + 1) /\ total_time1 \in (-MaxInt - 1)..MaxInt
    /\ gcc_timer \in {Idle, 0, 1} /\ acc_timer \in {Idle, 0, 1}
    /\ sig_timer \in {Idle} \cup 0..DelayAfterOff
    /\ tasklet \in BOOLEAN /\ acc_async \in BOOLEAN /\ listener \in BOOLEAN
    /\ nlerr \in BOOLEAN /\ sigio \in BOOLEAN /\ heard \in BOOLEAN /\ bounced \in BOOLEAN
    /\ nlq \in Seq(Message) /\ Len(nlq) <= QueueMax
    /\ offRun \in Nat /\ onFor \in 0..(DelayAfterOff + 1)
=============================================================================
