----------------------------- MODULE AccMonitor -----------------------------
(***************************************************************************)
(* acc_monitor, the process that acts on what acc_mod reports              *)
(* (autelan_app/acc_utils/src/acc_monitor.c, its scripts, and the requests *)
(* acc_setget sends it), composed with the kernel module.                  *)
(*                                                                         *)
(* It has a main thread, which serves ubus and runs the SIGIO handler, a   *)
(* thread that reads the netlink socket, and one that watches the battery. *)
(* They share the struct acc without a lock.  rc.local starts the process  *)
(* some time after the kernel module was loaded.  A restart of the box     *)
(* starts everything again; a box that has lost its supply stays off.      *)
(***************************************************************************)
EXTENDS AccMod

CONSTANTS
    Requests,   \* what "create" asks for: a delay, controllers, or both
    Configs,    \* contents /etc/config/autelan may have
    ShutSecs,   \* the sleep of acc_shutdown (20)
    Volts,      \* what the voltage may read
    None        \* an attribute that is not given

ASSUME ShutSecsAssumption == ShutSecs \in Nat
ASSUME VoltsAssumption == Volts \subseteq Nat
ASSUME RequestsAssumption ==
    Requests \cup Configs \subseteq [timer : UInt \cup {None}, controller : {0, 1, None}]
ASSUME NoneAssumption == None \notin UInt \cup {0, 1}

VARIABLES
    main,           \* the main thread: "boot", "conf", "conf_ioctl", "conf_copy", "idle",
                    \* "ioctl", "copy", "dead"
    arg,            \* the request it works on
    timer, trigger, \* acc.timer and acc.trigger
    controll_flag,  \* 0, or 1 for any controller
    nl,             \* the netlink thread: "none", "recv", "sleep", and "off" or "restart"
                    \* when it has decided what to ask for
    nap,            \* the seconds it has still to sleep
    buffer,         \* the message in its buffer
    scripts,        \* off_delay.sh that are running
    vcc,            \* the battery thread: "watch", "power_off"
    vcc_level,
    asked           \* what was asked of the supply ("off") and of init ("restart")

monitorVars == <<main, arg, timer, trigger, controll_flag, nl, nap, buffer,
                 scripts, vcc, vcc_level, asked>>
vars == <<kernelVars, worldVars, monitorVars>>

SWITCH_ON == 0
SWITCH_OFF == 1

NoRequest == [timer |-> None, controller |-> None]

\* main() has created the other two threads
Threads == main \in {"idle", "ioctl", "copy"}

\* The main thread is in the kernel, between the test of acc_flag and the
\* new delay: neither SIGIO nor the end of the process comes in between.
Copying == {"conf_copy", "copy"}

\* default_config_init
Init ==
    /\ KernelInit
    /\ gpio \in {0, 1} /\ power = "on" /\ onFor = 0
    /\ main = "boot" /\ arg = NoRequest
    /\ timer = AccDelayTimer /\ trigger = SWITCH_ON /\ controll_flag = 0
    /\ nl = "none" /\ nap = 0 /\ buffer = "empty" /\ scripts = 0
    /\ vcc = "watch" /\ vcc_level = 0
    /\ asked = {}

-----------------------------------------------------------------------------
\* The main thread.

\* Without the device the process goes on, and gets no SIGIO.
acc_monitor_init ==
    /\ Up /\ main = "boot"
    /\ acc_open \/ UNCHANGED kernelVars
    /\ main' = "conf"
    /\ UNCHANGED <<worldVars, arg, timer, trigger, controll_flag, nl, nap, buffer,
                   scripts, vcc, vcc_level, asked>>

setControllers(c) == controll_flag' = IF c = None THEN controll_flag ELSE c

\* acc_create_func up to its ioctl, with "at" the place of that ioctl.  With
\* the ignition off a request that has a delay is dropped as a whole.
acc_create_func(req, at) ==
    /\ UNCHANGED <<kernelVars, worldVars, trigger, nl, nap, buffer, scripts,
                   vcc, vcc_level, asked>>
    /\ \/ /\ req.timer # None /\ trigger = SWITCH_OFF
          /\ main' = "idle"
          /\ UNCHANGED <<arg, timer, controll_flag>>
       \/ /\ req.timer # None /\ trigger # SWITCH_OFF /\ timer # req.timer
          /\ timer' = req.timer
          /\ main' = at /\ arg' = req
          /\ UNCHANGED controll_flag
       \/ /\ req.timer = None \/ (trigger # SWITCH_OFF /\ timer = req.timer)
          /\ setControllers(req.controller)
          /\ main' = "idle"
          /\ UNCHANGED <<arg, timer>>

\* acc_create_func after its ioctl, whose result nobody looks at
RequestDone ==
    /\ setControllers(arg.controller)
    /\ main' = "idle" /\ arg' = NoRequest

\* set_acc_gpio_timer: the kernel takes the delay or not ...
set_acc_gpio_timer ==
    /\ Up /\ main \in {"conf_ioctl", "ioctl"}
    /\ \/ /\ acc_async /\ takes
          /\ main' = IF main = "ioctl" THEN "copy" ELSE "conf_copy"
          /\ UNCHANGED <<arg, controll_flag>>
       \/ ~(acc_async /\ takes) /\ RequestDone
    /\ UNCHANGED <<kernelVars, worldVars, timer, trigger, nl, nap, buffer, scripts, vcc, vcc_level,
                   asked>>

\* ... and sets the one it took
SetDelay ==
    /\ Up /\ main \in Copying
    /\ acc_ioctl(arg.timer)
    /\ RequestDone
    /\ UNCHANGED <<worldVars, timer, trigger, nl, nap, buffer, scripts, vcc, vcc_level,
                   asked>>

uci_monitor_init ==
    /\ Up /\ main = "conf"
    /\ \E c \in Configs : acc_create_func(c, "conf_ioctl")

acc_create ==
    /\ Up /\ main = "idle"
    /\ \E r \in Requests : acc_create_func(r, "ioctl")

acc_reload ==
    /\ Up /\ main = "idle" /\ trigger # SWITCH_OFF
    /\ \E c \in Configs : acc_create_func(c, "ioctl")

\* The SIGIO handler, wherever the main thread is: it reads the line itself
signal_f ==
    /\ Up /\ sigio /\ main \notin Copying
    /\ sigio' = FALSE
    /\ trigger' = gpio
    /\ UNCHANGED <<watchVars, total_time1, acc_async, msg_flag, listener, nlq, nlerr, heard, bounced,
                   worldVars, main, arg, timer, controll_flag, nl, nap, buffer, scripts,
                   vcc, vcc_level, asked>>

-----------------------------------------------------------------------------
\* The netlink thread.

netlink ==
    /\ Up /\ Threads /\ nl = "none"
    /\ nl_data_ready
    /\ nl' = "recv"
    /\ UNCHANGED <<worldVars, main, arg, timer, trigger, controll_flag, nap, buffer, scripts,
                   vcc, vcc_level, asked>>

\* What the buffer holds after recvmsg: a failure leaves the last message
received == IF nlerr THEN buffer ELSE Head(nlq)

\* Mutant: "acc_off" is taken for the end of the delay.
RecvAnyOff ==
    /\ Up /\ nl = "recv"
    /\ nlerr \/ nlq # <<>>
    /\ buffer' = received
    /\ nlerr' = FALSE
    /\ nlq' = IF nlerr THEN nlq ELSE Tail(nlq)
    /\ \/ /\ received \in {"acc_off", "delay_off"}
          /\ scripts' = IF controll_flag = 0 THEN scripts + 1 ELSE scripts
          /\ nl' = "sleep" /\ nap' = ShutSecs
       \/ /\ received \notin {"acc_off", "delay_off"}
          /\ UNCHANGED <<scripts, nl, nap>>
    /\ UNCHANGED <<watchVars, total_time1, acc_async, msg_flag, listener, sigio, heard, bounced,
                   worldVars, main, arg, timer, trigger, controll_flag, vcc, vcc_level, asked>>

\* acc_off.sh and acc_on.sh do nothing; time_off.sh stops the radios
Recv ==
    /\ Up /\ nl = "recv"
    /\ nlerr \/ nlq # <<>>
    /\ buffer' = received
    /\ nlerr' = FALSE
    /\ nlq' = IF nlerr THEN nlq ELSE Tail(nlq)
    /\ \/ /\ received = "delay_off"
          /\ scripts' = IF controll_flag = 0 THEN scripts + 1 ELSE scripts
          /\ nl' = "sleep" /\ nap' = ShutSecs
       \/ /\ received # "delay_off"
          /\ UNCHANGED <<scripts, nl, nap>>
    /\ UNCHANGED <<watchVars, total_time1, acc_async, msg_flag, listener, sigio, heard, bounced,
                   worldVars, main, arg, timer, trigger, controll_flag, vcc, vcc_level, asked>>

\* Mutant: the power is cut whatever the ignition does.
acc_shutdownCuts ==
    /\ Up /\ nl = "sleep" /\ nap = 0
    /\ nl' = "off"
    /\ UNCHANGED <<kernelVars, worldVars, main, arg, timer, trigger, controll_flag, nap, buffer,
                   scripts, vcc, vcc_level, asked>>

\* acc_shutdown after its sleep: it trusts the trigger, ...
acc_shutdown ==
    /\ Up /\ nl = "sleep" /\ nap = 0
    /\ nl' = IF trigger = SWITCH_OFF THEN "off" ELSE "restart"
    /\ UNCHANGED <<kernelVars, worldVars, main, arg, timer, trigger, controll_flag, nap, buffer,
                   scripts, vcc, vcc_level, asked>>

\* ... and a shell cuts the power or reboots
system ==
    /\ Up /\ nl \in {"off", "restart"}
    /\ asked' = asked \cup {nl}
    /\ nl' = "recv"
    /\ UNCHANGED <<kernelVars, worldVars, main, arg, timer, trigger, controll_flag, nap, buffer,
                   scripts, vcc, vcc_level>>

\* off_delay.sh after restart_prepare: it reads the line itself
off_delay ==
    /\ Up /\ scripts > 0
    /\ scripts' = scripts - 1
    /\ asked' = asked \cup {IF gpio = 1 THEN "off" ELSE "restart"}
    /\ UNCHANGED <<kernelVars, worldVars, main, arg, timer, trigger, controll_flag, nl, nap, buffer,
                   vcc, vcc_level>>

-----------------------------------------------------------------------------
\* The battery thread: the first voltage it reads decides the level.
vcc_monitor ==
    /\ Up /\ Threads /\ vcc = "watch" /\ trigger = SWITCH_OFF
    /\ \E v \in Volts :
         \/ /\ vcc_level = 0
            /\ vcc_level' = IF v < 17 THEN 10 ELSE 20
            /\ UNCHANGED vcc
         \/ /\ vcc_level # 0 /\ v < vcc_level
            /\ vcc' = "power_off"
            /\ UNCHANGED vcc_level
    /\ UNCHANGED <<kernelVars, worldVars, main, arg, timer, trigger, controll_flag, nl, nap, buffer,
                   scripts, asked>>

\* power_off.sh and acc_poweroff, which do not look at the ignition again
acc_poweroff ==
    /\ Up /\ vcc = "power_off"
    /\ vcc' = "watch"
    /\ asked' = asked \cup {"off"}
    /\ UNCHANGED <<kernelVars, worldVars, main, arg, timer, trigger, controll_flag, nl, nap, buffer,
                   scripts, vcc_level>>

-----------------------------------------------------------------------------
\* The process dies; nothing starts it again, its scripts go on.
Dies ==
    /\ Up /\ main \notin {"boot", "dead"} \cup Copying
    /\ acc_close
    /\ main' = "dead" /\ arg' = NoRequest
    /\ nl' = "none" /\ nap' = 0 /\ buffer' = "empty" /\ vcc' = "watch"
    /\ UNCHANGED <<worldVars, timer, trigger, controll_flag, scripts, vcc_level, asked>>

\* The supply falls, or init reboots, some time after it was asked to.  A
\* supply that is held by the ignition may ignore what it is asked.
PowerFalls ==
    /\ Up /\ power' \in asked
    /\ UNCHANGED <<gpio, onFor, kernelVars, monitorVars>>

\* The box boots again; the key may have been turned meanwhile.
Boot ==
    /\ power = "restart"
    /\ KernelBoot
    /\ gpio' \in {0, 1} /\ power' = "on" /\ onFor' = 0
    /\ main' = "boot" /\ arg' = NoRequest
    /\ timer' = AccDelayTimer /\ trigger' = SWITCH_ON /\ controll_flag' = 0
    /\ nl' = "none" /\ nap' = 0 /\ buffer' = "empty" /\ scripts' = 0
    /\ vcc' = "watch" /\ vcc_level' = 0
    /\ asked' = {}

Tick ==
    /\ KernelTick
    /\ nap' = fall(nap)
    /\ UNCHANGED <<main, arg, timer, trigger, controll_flag, nl, buffer, scripts, vcc, vcc_level,
                   asked>>

Kernel == Softirq /\ UNCHANGED monitorVars

Key == Flip /\ UNCHANGED monitorVars

Main == acc_monitor_init \/ uci_monitor_init \/ set_acc_gpio_timer \/ SetDelay \/ acc_create \/ acc_reload

Others == netlink \/ Recv \/ acc_shutdown \/ system \/ off_delay \/ vcc_monitor \/ acc_poweroff

Next == Kernel \/ Tick \/ Key \/ Main \/ signal_f \/ Others \/ Dies \/ PowerFalls \/ Boot

Spec == Init /\ [][Next]_vars

\* Time passes and the kernel runs its timers, it finishes the system call it
\* is in, and a SIGIO that is pending is delivered when the main thread comes
\* back from one.  Nothing is assumed of the monitor's threads, of the supply
\* or of the boot.
FairSpec == Spec /\ WF_vars(Kernel \/ Tick) /\ WF_vars(SetDelay) /\ SF_vars(signal_f)

-----------------------------------------------------------------------------
\* The types of the state.
TypeOK ==
    /\ KernelTypeOK
    /\ main \in {"boot", "conf", "conf_ioctl", "ioctl", "idle", "dead"} \cup Copying
    /\ arg \in [timer : UInt \cup {None}, controller : {0, 1, None}]
    /\ timer \in UInt /\ trigger \in {SWITCH_ON, SWITCH_OFF} /\ controll_flag \in {0, 1}
    /\ nl \in {"none", "recv", "sleep", "off", "restart"} /\ nap \in 0..ShutSecs
    /\ buffer \in Message \cup {"empty"} /\ scripts \in Nat
    /\ vcc \in {"watch", "power_off"} /\ vcc_level \in {0, 10, 20}
    /\ asked \subseteq {"off", "restart"}

Running(t) == t # Idle

\* While the box runs exactly one of the three timers and the tasklet has the
\* watch; the semaphore is taken, and delays refused, exactly while the
\* delay is counted down.  So the watch is never lost, and never doubled,
\* when one hands it on to the next.
OneWatch ==
    Up =>
        /\ \/ Running(gcc_timer) /\ ~tasklet /\ ~Running(acc_timer) /\ ~Running(sig_timer)
           \/ tasklet /\ ~Running(gcc_timer) /\ ~Running(acc_timer) /\ ~Running(sig_timer)
           \/ Running(acc_timer) /\ ~Running(gcc_timer) /\ ~tasklet /\ ~Running(sig_timer)
           \/ Running(sig_timer) /\ ~Running(gcc_timer) /\ ~tasklet /\ ~Running(acc_timer)
        /\ acc_sem = 0 <=> tasklet \/ Running(acc_timer)
        /\ acc_flag = 1 <=> Running(acc_timer)

Mode == IF ~Up THEN "down" ELSE IF Running(sig_timer) THEN "ending"
        ELSE IF Running(acc_timer) THEN "off" ELSE "on"

ignition == INSTANCE Ignition WITH mode <- Mode, run <- offRun, delay <- total_time1,
                               taken <- main \in Copying

\* The timers, the tasklet and their counters, with the delay set at any
\* moment by a process that runs beside them, do what Ignition says: no
\* shutdown after fewer readings than the debouncing and the delay ask for,
\* none that is missed, a fresh start whenever the ignition is back, and no
\* new delay in a running one but that of a request the kernel took before.
IsIgnition == ignition!IgnitionSpec

\* Once a report has reached the process, its trigger is what the kernel
\* believes, unless the line moved between the kernel's reading and the
\* handler's.  Nothing is said of the time after the delay, when acc_flag is
\* 0 again whatever the ignition does.
TriggerAgrees ==
    /\ Up /\ heard /\ ~sigio /\ ~bounced /\ ~Running(sig_timer)
    => (trigger = SWITCH_OFF <=> acc_flag = 1)

\* acc_shutdown does not decide to cut the power of a vehicle that has been
\* running for longer than the kernel needs to tell it so.
CutNotStale == [][nl' = "off" => onFor <= DelayAfterOff]_nl

\* acc_shutdown runs only when the delay is over: no message left over from
\* an earlier state of the ignition stops the box.
ShutdownIsMeant == Up /\ nl \in {"sleep", "off", "restart"} => Running(sig_timer)

\* When the delay is over the box restarts or loses its power, even if the
\* process is not there, was not heard, or the supply does not obey, and even
\* if the ignition comes back: the radios do not stay off in a running vehicle.
EndsWhatItBegan == Running(sig_timer) ~> ~Up

\* In a vehicle that is parked for good the box does not run on: each time it
\* has booted it restarts or loses its power again, whatever delays are asked
\* for meanwhile.  (That it is ever off for good is not promised: without the
\* process, or with a supply that does not obey, it only restarts.)
ParkedEnds == <>[](gpio = 1) => []<>~Up

\* "-t 300 (set acc_shut_down Timer(sec) of autelan.acc)" (acc_setget.c:229):
\* the delay that create sets and status reports is the one the kernel uses,
\* once the request is done and the kernel takes delays, if the process could
\* open the device at all.
TimerInForce ==
    Up /\ acc_async /\ main = "idle" /\ acc_flag = 0 => total_time1 = ToInt(timer)
=============================================================================
