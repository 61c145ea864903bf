------------------------------ MODULE AccProofs ------------------------------
(***************************************************************************)
(* The ignition watch and its monitor, for every debouncing, delay, number *)
(* of announcements, queue length, request and configuration: the watch is *)
(* handed on without being lost or doubled, it implements Ignition, the    *)
(* monitor's trigger follows it, and acc_shutdown acts only on what is     *)
(* meant and recent.                                                       *)
(***************************************************************************)
EXTENDS AccMonitor, TLAPS

\* The code's counters are the length of the run of readings that found the
\* ignition off.
Counters ==
    Up =>
        /\ Running(gcc_timer) => offRun = acc_flag1
        /\ tasklet => offRun = Debounce /\ total_time = 0 /\ acc_flag1 = 0
        /\ Running(acc_timer) =>
             offRun = Debounce + total_time - 1 /\ total_time >= 1 /\ acc_flag1 = 0
        /\ delay_flag < MaxDelayFlag

\* Who is connected to whom; a process without the device is told nothing.
Links ==
    /\ main \in {"conf_ioctl", "ioctl"} \cup Copying => arg.timer \in UInt
    /\ main \in {"boot", "dead"} => ~acc_async
    /\ main = "dead" => nl = "none"
    /\ main # "dead" /\ ~acc_async => trigger = SWITCH_ON
    /\ sigio \/ heard => acc_async
    /\ gpio = 1 => onFor = 0

\* The end of the delay is announced after it.
Meant ==
    Up /\ (\/ nl \in {"sleep", "off", "restart"} \/ buffer = "delay_off"
           \/ \E i \in DOMAIN nlq : nlq[i] = "delay_off")
        => Running(sig_timer)

\* A process that believes the ignition off has been told so, or will be told
\* in time that it is on.
Fresh ==
    Up /\ acc_async /\ Running(sig_timer) /\ trigger = SWITCH_OFF
        => onFor <= IF sigio THEN DelayAfterOff ELSE DelayAfterOff - sig_timer

\* A signal that is pending will find what the kernel has reported.
Pending ==
    Up /\ heard /\ sigio /\ ~bounced /\ ~Running(sig_timer) => gpio = acc_flag

AccInv == TypeOK /\ OneWatch /\ Counters /\ Links /\ Meant /\ Fresh /\ Pending /\ TriggerAgrees

-----------------------------------------------------------------------------

\* An unsigned int becomes an int.
LEMMA ToIntType == ASSUME NEW n \in UInt PROVE ToInt(n) \in (-MaxInt - 1)..MaxInt
BY MaxIntAssumption DEF UInt, ToInt

\* A message in the queue was there, or is the one that was sent.
LEMMA UnicastType ==
    ASSUME nlq \in Seq(Message), Len(nlq) <= QueueMax, nlerr \in BOOLEAN,
           NEW m \in Message, NEW socket \in BOOLEAN, netlink_unicast(m, socket)
    PROVE  /\ nlq' \in Seq(Message) /\ Len(nlq') <= QueueMax /\ nlerr' \in BOOLEAN
           /\ \A i \in DOMAIN nlq' : nlq'[i] = m \/ \E j \in DOMAIN nlq : nlq[j] = nlq'[i]
<1>1. CASE nlq' = nlq
  BY <1>1 DEF netlink_unicast
<1>2. CASE nlq' = Append(nlq, m) /\ Len(nlq) < QueueMax
  BY <1>2, QueueMaxAssumption DEF netlink_unicast
<1> QED BY <1>1, <1>2 DEF netlink_unicast

LEMMA SendType ==
    ASSUME nlq \in Seq(Message), Len(nlq) <= QueueMax, nlerr \in BOOLEAN,
           NEW m \in Message, sendnlmsg(m)
    PROVE  /\ nlq' \in Seq(Message) /\ Len(nlq') <= QueueMax /\ nlerr' \in BOOLEAN
           /\ \A i \in DOMAIN nlq' : nlq'[i] = m \/ \E j \in DOMAIN nlq : nlq[j] = nlq'[i]
<1> DEFINE socket == msg_flag = 1 /\ listener
<1>1. netlink_unicast(m, socket) /\ socket \in BOOLEAN
  BY DEF sendnlmsg
<1> HIDE DEF socket
<1> QED BY <1>1, UnicastType

\* The initial state satisfies the invariant.
LEMMA AccInit == Init => AccInv
<1> USE DebounceAssumption, DelayAfterOffAssumption, MaxDelayFlagAssumption, AccDelayTimerAssumption,
        MaxIntAssumption, QueueMaxAssumption, ShutSecsAssumption
<1> SUFFICES ASSUME Init PROVE AccInv
  OBVIOUS
<1> USE DEF Init, KernelInit, Idle, SWITCH_ON, SWITCH_OFF, Running, Up, Copying
<1>1. TypeOK
  <2>1. /\ tasklet \in BOOLEAN /\ acc_async \in BOOLEAN /\ listener \in BOOLEAN
        /\ nlerr \in BOOLEAN /\ sigio \in BOOLEAN /\ heard \in BOOLEAN /\ bounced \in BOOLEAN
    BY Zenon
  <2>2. KernelTypeOK
    BY <2>1 DEF KernelTypeOK
  <2>3. timer \in UInt
    BY DEF UInt
  <2>4. arg \in [timer : UInt \cup {None}, controller : {0, 1, None}]
    BY DEF NoRequest
  <2> QED BY <2>2, <2>3, <2>4 DEF TypeOK
<1>2. OneWatch /\ Counters
  BY DEF OneWatch, Counters
<1>3. Links /\ Meant /\ Fresh /\ Pending /\ TriggerAgrees
  BY DEF Links, Meant, Fresh, Pending, TriggerAgrees
<1> QED BY <1>1, <1>2, <1>3 DEF AccInv

\* What a softirq of the kernel does keeps the invariant.
LEMMA SoftirqKeeps == ASSUME AccInv, Kernel PROVE AccInv'
<1> USE DebounceAssumption, DelayAfterOffAssumption, MaxDelayFlagAssumption, AccDelayTimerAssumption,
        MaxIntAssumption, QueueMaxAssumption, ShutSecsAssumption
<1> USE DEF AccInv, Kernel, Softirq, monitorVars, watchVars, reportVars, Up
<1>1. CASE check_acc_stage1 /\ UNCHANGED power
  <2>1. TypeOK'
    BY <1>1 DEF check_acc_stage1, readings, seen, TypeOK, KernelTypeOK
  <2>2. OneWatch' /\ Counters'
    BY <1>1 DEF check_acc_stage1, readings, seen, OneWatch, Counters, Running, Idle
  <2>3. Links'
    BY <1>1 DEF check_acc_stage1, readings, seen, Links
  <2>4. Meant'
    BY <1>1 DEF check_acc_stage1, readings, seen, Meant
  <2>5. Fresh'
    BY <1>1 DEF check_acc_stage1, readings, seen, Fresh
  <2>6. Pending' /\ TriggerAgrees'
    BY <1>1 DEF check_acc_stage1, readings, seen, Pending, TriggerAgrees
  <2> QED BY <2>1, <2>2, <2>3, <2>4, <2>5, <2>6
<1>2. CASE IgnitionOff /\ UNCHANGED power
  <2>1. TypeOK'
    BY <1>2 DEF IgnitionOff, readings, seen, TypeOK, KernelTypeOK
  <2>2. OneWatch' /\ Counters'
    BY <1>2 DEF IgnitionOff, readings, seen, TypeOK, KernelTypeOK, OneWatch, Counters, Running, Idle
  <2>3. Links'
    BY <1>2 DEF IgnitionOff, readings, seen, Links
  <2>4. Meant'
    BY <1>2 DEF IgnitionOff, readings, seen, Meant
  <2>5. Fresh'
    BY <1>2 DEF IgnitionOff, readings, seen, Fresh
  <2>6. Pending' /\ TriggerAgrees'
    BY <1>2 DEF IgnitionOff, readings, seen, Pending, TriggerAgrees
  <2> QED BY <2>1, <2>2, <2>3, <2>4, <2>5, <2>6
<1>3. CASE tasklet_action /\ UNCHANGED power
  <2>0. /\ nlq' \in Seq(Message) /\ Len(nlq') <= QueueMax /\ nlerr' \in BOOLEAN
        /\ \A i \in DOMAIN nlq' : nlq'[i] = "acc_off" \/ \E j \in DOMAIN nlq : nlq[j] = nlq'[i]
    BY <1>3, SendType DEF tasklet_action, tell, TypeOK, KernelTypeOK, Message
  <2>1. TypeOK'
    <3>1. tasklet' \in BOOLEAN
      BY <1>3, Zenon DEF tasklet_action
    <3>2. KernelTypeOK'
      BY <1>3, <2>0, <3>1 DEF tasklet_action, tell, TypeOK, KernelTypeOK, Counters
    <3> QED BY <1>3, <2>0, <3>2 DEF tasklet_action, tell, TypeOK
  <2>2. OneWatch' /\ Counters'
    BY <1>3, <2>0 DEF tasklet_action, tell, OneWatch, Counters, Running, Idle
  <2>3. Links'
    BY <1>3, <2>0 DEF tasklet_action, tell, Links
  <2>4. Meant'
    BY <1>3, <2>0 DEF tasklet_action, tell, Meant
  <2>5. Fresh'
    BY <1>3, <2>0 DEF tasklet_action, tell, TypeOK, KernelTypeOK, Fresh, Running
  <2>6. Pending' /\ TriggerAgrees'
    BY <1>3, <2>0 DEF tasklet_action, tell, Links, Pending, TriggerAgrees
  <2> QED BY <2>1, <2>2, <2>3, <2>4, <2>5, <2>6
<1>4. CASE IgnitionOn /\ UNCHANGED power
  <2>0. /\ nlq' \in Seq(Message) /\ Len(nlq') <= QueueMax /\ nlerr' \in BOOLEAN
        /\ \A i \in DOMAIN nlq' : nlq'[i] = "acc_on" \/ \E j \in DOMAIN nlq : nlq[j] = nlq'[i]
    BY <1>4, SendType DEF IgnitionOn, tell, TypeOK, KernelTypeOK, Message
  <2>1. TypeOK'
    BY <1>4, <2>0 DEF IgnitionOn, tell, TypeOK, KernelTypeOK, OneWatch, Running, Idle
  <2>2. OneWatch' /\ Counters'
    BY <1>4, <2>0 DEF IgnitionOn, tell, OneWatch, Counters, Running, Idle
  <2>3. Links'
    BY <1>4, <2>0 DEF IgnitionOn, tell, Links
  <2>4. Meant'
    BY <1>4, <2>0 DEF IgnitionOn, tell, Meant
  <2>5. Fresh'
    BY <1>4, <2>0 DEF IgnitionOn, tell, TypeOK, KernelTypeOK, Fresh, Running
  <2>6. Pending' /\ TriggerAgrees'
    BY <1>4, <2>0 DEF IgnitionOn, tell, Links, Pending, TriggerAgrees
  <2> QED BY <2>1, <2>2, <2>3, <2>4, <2>5, <2>6
<1>5. CASE TimeIsUp /\ UNCHANGED power
  <2>0. /\ nlq' \in Seq(Message) /\ Len(nlq') <= QueueMax /\ nlerr' \in BOOLEAN
        /\ \A i \in DOMAIN nlq' : nlq'[i] = "delay_off" \/ \E j \in DOMAIN nlq : nlq[j] = nlq'[i]
    BY <1>5, SendType DEF TimeIsUp, tell, TypeOK, KernelTypeOK, Message
  <2>1. TypeOK'
    BY <1>5, <2>0 DEF TimeIsUp, tell, seen, TypeOK, KernelTypeOK, OneWatch, Running, Idle
  <2>2. OneWatch' /\ Counters'
    BY <1>5, <2>0 DEF TimeIsUp, tell, seen, OneWatch, Counters, Running, Idle
  <2>3. Links'
    BY <1>5, <2>0 DEF TimeIsUp, tell, seen, Links
  <2>4. Meant'
    BY <1>5, <2>0 DEF TimeIsUp, tell, seen, Meant, Running, Idle
  <2>5. Fresh'
    BY <1>5, <2>0 DEF TimeIsUp, tell, seen, Links, Fresh
  <2>6. Pending' /\ TriggerAgrees'
    BY <1>5, <2>0 DEF TimeIsUp, tell, seen, Pending, TriggerAgrees, Running, Idle
  <2> QED BY <2>1, <2>2, <2>3, <2>4, <2>5, <2>6
<1>6. CASE check_acc_stage2 /\ UNCHANGED power
  <2>1. TypeOK'
    BY <1>6 DEF check_acc_stage2, seen, TypeOK, KernelTypeOK
  <2>2. OneWatch' /\ Counters'
    BY <1>6 DEF check_acc_stage2, seen, TypeOK, KernelTypeOK, OneWatch, Counters, Running, Idle
  <2>3. Links'
    BY <1>6 DEF check_acc_stage2, seen, Links
  <2>4. Meant'
    BY <1>6 DEF check_acc_stage2, seen, Meant
  <2>5. Fresh'
    BY <1>6 DEF check_acc_stage2, seen, Fresh
  <2>6. Pending' /\ TriggerAgrees'
    BY <1>6 DEF check_acc_stage2, seen, Pending, TriggerAgrees
  <2> QED BY <2>1, <2>2, <2>3, <2>4, <2>5, <2>6
<1>7. CASE ap_shutdown /\ sig_timer' = DelayAfterOff /\ UNCHANGED power
  <2>0. /\ nlq' \in Seq(Message) /\ Len(nlq') <= QueueMax /\ nlerr' \in BOOLEAN
        /\ \A i \in DOMAIN nlq' : nlq'[i] = "delay_off" \/ \E j \in DOMAIN nlq : nlq[j] = nlq'[i]
    BY <1>7, SendType DEF ap_shutdown, tell, TypeOK, KernelTypeOK, Message
  <2>1. TypeOK'
    BY <1>7, <2>0 DEF ap_shutdown, tell, TypeOK, KernelTypeOK
  <2>2. OneWatch' /\ Counters'
    BY <1>7, <2>0 DEF ap_shutdown, tell, OneWatch, Counters, Running, Idle
  <2>3. Links'
    BY <1>7, <2>0 DEF ap_shutdown, tell, Links
  <2>4. Meant'
    BY <1>7, <2>0 DEF ap_shutdown, tell, Meant, Running, Idle
  <2>5. Fresh'
    <3> SUFFICES ASSUME acc_async, trigger = SWITCH_OFF PROVE sigio' /\ onFor <= DelayAfterOff
      BY <1>7 DEF ap_shutdown, Fresh
    <3>1. sigio'
      BY <1>7, Zenon DEF ap_shutdown, tell
    <3>2. onFor <= DelayAfterOff
      BY <1>7 DEF ap_shutdown, Fresh, Running, Idle
    <3> QED BY <3>1, <3>2
  <2>6. Pending' /\ TriggerAgrees'
    BY <1>7, <2>0 DEF ap_shutdown, tell, Pending, TriggerAgrees, Running, Idle
  <2> QED BY <2>1, <2>2, <2>3, <2>4, <2>5, <2>6
<1>8. CASE ap_shutdown /\ sig_timer' = Idle /\ power' = "restart"
  <2>0. /\ nlq' \in Seq(Message) /\ Len(nlq') <= QueueMax /\ nlerr' \in BOOLEAN
        /\ \A i \in DOMAIN nlq' : nlq'[i] = "delay_off" \/ \E j \in DOMAIN nlq : nlq[j] = nlq'[i]
    BY <1>8, SendType DEF ap_shutdown, tell, TypeOK, KernelTypeOK, Message
  <2>1. TypeOK'
    <3>1. power' \in {"on", "restart", "off"}
      BY <1>8 DEF ap_shutdown
    <3>2. KernelTypeOK'
      BY <1>8, <2>0, <3>1 DEF ap_shutdown, tell, TypeOK, KernelTypeOK, Counters
    <3> QED BY <1>8, <2>0, <3>2 DEF ap_shutdown, tell, TypeOK
  <2>2. OneWatch' /\ Counters'
    BY <1>8, <2>0 DEF ap_shutdown, tell, OneWatch, Counters
  <2>3. Links'
    BY <1>8, <2>0 DEF ap_shutdown, tell, Links
  <2>4. Meant'
    BY <1>8, <2>0 DEF ap_shutdown, tell, Meant
  <2>5. Fresh'
    BY <1>8, <2>0 DEF ap_shutdown, tell, Fresh
  <2>6. Pending' /\ TriggerAgrees'
    BY <1>8, <2>0 DEF ap_shutdown, tell, Pending, TriggerAgrees
  <2> QED BY <2>1, <2>2, <2>3, <2>4, <2>5, <2>6
<1> QED BY <1>1, <1>2, <1>3, <1>4, <1>5, <1>6, <1>7, <1>8 DEF ap_shutdown

\* Time keeps the invariant.
LEMMA TickKeeps == ASSUME AccInv, Tick PROVE AccInv'
<1> USE DebounceAssumption, DelayAfterOffAssumption, MaxDelayFlagAssumption, AccDelayTimerAssumption,
        MaxIntAssumption, QueueMaxAssumption, ShutSecsAssumption
<1> USE DEF AccInv, Tick, KernelTick, reportVars, Up
<1>1. TypeOK'
  BY DEF fall, TypeOK, KernelTypeOK, Idle
<1>2. OneWatch' /\ Counters'
  BY DEF fall, OneWatch, Counters, Running, Idle
<1>3. Links'
  BY DEF fall, Links
<1>4. Meant'
  BY DEF fall, Meant, Running, Idle
<1>5. Fresh'
  BY DEF fall, TypeOK, KernelTypeOK, Fresh, Running, Idle
<1>6. Pending' /\ TriggerAgrees'
  BY DEF fall, Pending, TriggerAgrees, Running, Idle
<1> QED BY <1>1, <1>2, <1>3, <1>4, <1>5, <1>6

\* The key keeps it.
LEMMA KeyKeeps == ASSUME AccInv, Key PROVE AccInv'
<1> USE DebounceAssumption, DelayAfterOffAssumption, MaxDelayFlagAssumption, AccDelayTimerAssumption,
        MaxIntAssumption, QueueMaxAssumption, ShutSecsAssumption
<1> USE DEF AccInv, Key, Flip, monitorVars, watchVars, Up
<1>1. TypeOK'
  BY DEF TypeOK, KernelTypeOK
<1>2. OneWatch' /\ Counters'
  BY DEF OneWatch, Counters
<1>3. Links'
  BY DEF Links
<1>4. Meant'
  BY DEF Meant
<1>5. Fresh'
  BY DEF TypeOK, KernelTypeOK, Fresh, Running
<1>6. Pending' /\ TriggerAgrees'
  BY DEF Pending, TriggerAgrees
<1> QED BY <1>1, <1>2, <1>3, <1>4, <1>5, <1>6

\* The SIGIO handler keeps it: it reads what the kernel reported.
LEMMA SignalKeeps == ASSUME AccInv, signal_f PROVE AccInv'
<1> USE DebounceAssumption, DelayAfterOffAssumption, MaxDelayFlagAssumption, AccDelayTimerAssumption,
        MaxIntAssumption, QueueMaxAssumption, ShutSecsAssumption
<1> USE DEF AccInv, signal_f, worldVars, watchVars, Up
<1>1. TypeOK'
  <2>1. sigio' \in BOOLEAN
    BY Zenon DEF signal_f
  <2>2. KernelTypeOK'
    BY <2>1 DEF TypeOK, KernelTypeOK
  <2>3. trigger' \in {SWITCH_ON, SWITCH_OFF}
    BY DEF SWITCH_ON, SWITCH_OFF, TypeOK, KernelTypeOK
  <2> QED BY <2>2, <2>3 DEF TypeOK
<1>2. OneWatch' /\ Counters'
  BY DEF OneWatch, Counters
<1>3. Links'
  BY DEF Links
<1>4. Meant'
  BY DEF Meant
<1>5. Fresh'
  BY DEF SWITCH_OFF, TypeOK, KernelTypeOK, Links, Fresh, Running
<1>6. Pending' /\ TriggerAgrees'
  BY DEF SWITCH_OFF, Pending, TriggerAgrees, SWITCH_OFF
<1> QED BY <1>1, <1>2, <1>3, <1>4, <1>5, <1>6

\* A request keeps it, up to the ioctl.
LEMMA CreateKeeps ==
    ASSUME AccInv, main \notin {"boot", "dead"}, NEW req \in Requests \cup Configs, NEW at \in {"conf_ioctl", "ioctl"},
           acc_create_func(req, at)
    PROVE  AccInv'
<1> USE DebounceAssumption, DelayAfterOffAssumption, MaxDelayFlagAssumption, AccDelayTimerAssumption,
        MaxIntAssumption, QueueMaxAssumption, ShutSecsAssumption
<1> USE RequestsAssumption
<1> USE DEF AccInv, acc_create_func, kernelVars, worldVars, watchVars, reportVars, Up, Copying
<1>1. TypeOK'
  BY DEF setControllers, TypeOK, KernelTypeOK
<1>2. OneWatch' /\ Counters'
  BY DEF setControllers, OneWatch, Counters
<1>3. Links'
  BY DEF setControllers, Links
<1>4. Meant'
  BY DEF setControllers, Meant
<1>5. Fresh'
  BY DEF setControllers, Fresh
<1>6. Pending' /\ TriggerAgrees'
  BY DEF setControllers, Pending, TriggerAgrees
<1> QED BY <1>1, <1>2, <1>3, <1>4, <1>5, <1>6

\* The main thread keeps it.
LEMMA MainKeeps == ASSUME AccInv, Main PROVE AccInv'
<1> USE DebounceAssumption, DelayAfterOffAssumption, MaxDelayFlagAssumption, AccDelayTimerAssumption,
        MaxIntAssumption, QueueMaxAssumption, ShutSecsAssumption
<1> USE DEF AccInv, watchVars, reportVars, kernelVars, worldVars, Up
<1>1. CASE acc_monitor_init
  <2>0. acc_async' \in BOOLEAN
    <3>1. CASE acc_open
      BY <3>1, Zenon DEF acc_open
    <3>2. CASE UNCHANGED kernelVars
      BY <3>2 DEF TypeOK, KernelTypeOK
    <3> QED BY <1>1, <3>1, <3>2 DEF acc_monitor_init
  <2>1. TypeOK'
    BY <1>1, <2>0 DEF acc_monitor_init, acc_open, TypeOK, KernelTypeOK
  <2>2. OneWatch' /\ Counters'
    BY <1>1 DEF acc_monitor_init, acc_open, OneWatch, Counters
  <2>3. Links'
    BY <1>1 DEF acc_monitor_init, acc_open, Links, Copying
  <2>4. Meant'
    BY <1>1 DEF acc_monitor_init, acc_open, Meant
  <2>5. Fresh'
    BY <1>1 DEF acc_monitor_init, acc_open, SWITCH_ON, SWITCH_OFF, Links, Fresh
  <2>6. Pending' /\ TriggerAgrees'
    BY <1>1 DEF acc_monitor_init, acc_open, Pending, TriggerAgrees
  <2> QED BY <2>1, <2>2, <2>3, <2>4, <2>5, <2>6
<1>2. CASE set_acc_gpio_timer
  <2>1. TypeOK'
    BY <1>2 DEF set_acc_gpio_timer, RequestDone, setControllers, NoRequest, Copying, TypeOK, KernelTypeOK
  <2>2. OneWatch' /\ Counters'
    BY <1>2 DEF set_acc_gpio_timer, OneWatch, Counters
  <2>3. Links'
    BY <1>2 DEF set_acc_gpio_timer, RequestDone, Links, Copying
  <2>4. Meant'
    BY <1>2 DEF set_acc_gpio_timer, Meant
  <2>5. Fresh'
    BY <1>2 DEF set_acc_gpio_timer, Fresh
  <2>6. Pending' /\ TriggerAgrees'
    BY <1>2 DEF set_acc_gpio_timer, Pending, TriggerAgrees
  <2> QED BY <2>1, <2>2, <2>3, <2>4, <2>5, <2>6
<1>6. CASE SetDelay
  <2>0. ToInt(arg.timer) \in (-MaxInt - 1)..MaxInt
    BY <1>6, ToIntType DEF SetDelay, Links
  <2>1. TypeOK'
    BY <1>6, <2>0 DEF SetDelay, acc_ioctl, RequestDone, setControllers, NoRequest, TypeOK, KernelTypeOK
  <2>2. OneWatch' /\ Counters'
    BY <1>6 DEF SetDelay, acc_ioctl, OneWatch, Counters
  <2>3. Links'
    BY <1>6 DEF SetDelay, acc_ioctl, RequestDone, Links, Copying
  <2>4. Meant'
    BY <1>6 DEF SetDelay, acc_ioctl, Meant
  <2>5. Fresh'
    BY <1>6 DEF SetDelay, acc_ioctl, Fresh
  <2>6. Pending' /\ TriggerAgrees'
    BY <1>6 DEF SetDelay, acc_ioctl, Pending, TriggerAgrees
  <2> QED BY <2>1, <2>2, <2>3, <2>4, <2>5, <2>6
<1>3. CASE uci_monitor_init
  BY <1>3, CreateKeeps DEF uci_monitor_init
<1>4. CASE acc_create
  BY <1>4, CreateKeeps DEF acc_create
<1>5. CASE acc_reload
  BY <1>5, CreateKeeps DEF acc_reload
<1> QED BY <1>1, <1>2, <1>3, <1>4, <1>5, <1>6 DEF Main

\* The other two threads and the script keep it.
LEMMA OthersKeep == ASSUME AccInv, Others PROVE AccInv'
<1> USE DebounceAssumption, DelayAfterOffAssumption, MaxDelayFlagAssumption, AccDelayTimerAssumption,
        MaxIntAssumption, QueueMaxAssumption, ShutSecsAssumption
<1> USE DEF AccInv, watchVars, reportVars, kernelVars, worldVars, Up
<1>1. CASE netlink
  <2>0. /\ nlq' \in Seq(Message) /\ Len(nlq') <= QueueMax /\ nlerr' \in BOOLEAN
        /\ \A i \in DOMAIN nlq' : nlq'[i] = "hello" \/ \E j \in DOMAIN nlq : nlq[j] = nlq'[i]
    <3>1. netlink_unicast("hello", TRUE) /\ "hello" \in Message
      BY <1>1 DEF netlink, nl_data_ready, Message
    <3> QED BY <3>1, UnicastType DEF TypeOK, KernelTypeOK
  <2>1. TypeOK'
    <3>1. listener' \in BOOLEAN
      BY <1>1, Zenon DEF netlink, nl_data_ready
    <3> QED BY <1>1, <2>0, <3>1 DEF netlink, nl_data_ready, TypeOK, KernelTypeOK
  <2>2. OneWatch' /\ Counters'
    BY <1>1 DEF netlink, nl_data_ready, OneWatch, Counters
  <2>3. Links'
    BY <1>1 DEF netlink, nl_data_ready, Threads, Links, Copying
  <2>4. Meant'
    BY <1>1, <2>0 DEF netlink, nl_data_ready, Meant
  <2>5. Fresh'
    BY <1>1 DEF netlink, nl_data_ready, Fresh
  <2>6. Pending' /\ TriggerAgrees'
    BY <1>1 DEF netlink, nl_data_ready, Pending, TriggerAgrees
  <2> QED BY <2>1, <2>2, <2>3, <2>4, <2>5, <2>6
<1>2. CASE Recv
  <2>0. /\ nlq' \in Seq(Message) /\ Len(nlq') <= QueueMax /\ buffer' \in Message \cup {"empty"}
        /\ \A i \in DOMAIN nlq' : \E j \in DOMAIN nlq : nlq[j] = nlq'[i]
        /\ buffer' = buffer \/ \E j \in DOMAIN nlq : nlq[j] = buffer'
    <3>1. CASE nlerr
      BY <1>2, <3>1 DEF Recv, received, TypeOK, KernelTypeOK
    <3>2. CASE ~nlerr
      BY <1>2, <3>2 DEF Recv, received, TypeOK, KernelTypeOK
    <3> QED BY <3>1, <3>2
  <2>1. TypeOK'
    <3>1. nlerr' \in BOOLEAN
      BY <1>2, Zenon DEF Recv
    <3>2. KernelTypeOK'
      BY <1>2, <2>0, <3>1 DEF Recv, received, TypeOK, KernelTypeOK
    <3> QED BY <1>2, <2>0, <3>2 DEF Recv, received, TypeOK
  <2>2. OneWatch' /\ Counters'
    BY <1>2, <2>0 DEF Recv, received, OneWatch, Counters
  <2>3. Links'
    BY <1>2, <2>0 DEF Recv, received, Links
  <2>4. Meant'
    BY <1>2, <2>0 DEF Recv, received, Meant
  <2>5. Fresh'
    BY <1>2, <2>0 DEF Recv, received, Fresh
  <2>6. Pending' /\ TriggerAgrees'
    BY <1>2, <2>0 DEF Recv, received, Pending, TriggerAgrees
  <2> QED BY <2>1, <2>2, <2>3, <2>4, <2>5, <2>6
<1>3. CASE acc_shutdown
  <2>1. TypeOK'
    BY <1>3 DEF acc_shutdown, TypeOK, KernelTypeOK
  <2>2. OneWatch' /\ Counters'
    BY <1>3 DEF acc_shutdown, OneWatch, Counters
  <2>3. Links'
    BY <1>3 DEF acc_shutdown, Links
  <2>4. Meant'
    BY <1>3 DEF acc_shutdown, Meant
  <2>5. Fresh'
    BY <1>3 DEF acc_shutdown, Fresh
  <2>6. Pending' /\ TriggerAgrees'
    BY <1>3 DEF acc_shutdown, Pending, TriggerAgrees
  <2> QED BY <2>1, <2>2, <2>3, <2>4, <2>5, <2>6
<1>7. CASE system
  <2>1. TypeOK'
    BY <1>7 DEF system, TypeOK, KernelTypeOK
  <2>2. OneWatch' /\ Counters'
    BY <1>7 DEF system, OneWatch, Counters
  <2>3. Links'
    BY <1>7 DEF system, Links
  <2>4. Meant'
    BY <1>7 DEF system, Meant
  <2>5. Fresh'
    BY <1>7 DEF system, Fresh
  <2>6. Pending' /\ TriggerAgrees'
    BY <1>7 DEF system, Pending, TriggerAgrees
  <2> QED BY <2>1, <2>2, <2>3, <2>4, <2>5, <2>6
<1>4. CASE off_delay
  <2>1. TypeOK'
    BY <1>4 DEF off_delay, TypeOK, KernelTypeOK
  <2>2. OneWatch' /\ Counters'
    BY <1>4 DEF off_delay, OneWatch, Counters
  <2>3. Links'
    BY <1>4 DEF off_delay, Links
  <2>4. Meant'
    BY <1>4 DEF off_delay, Meant
  <2>5. Fresh'
    BY <1>4 DEF off_delay, Fresh
  <2>6. Pending' /\ TriggerAgrees'
    BY <1>4 DEF off_delay, Pending, TriggerAgrees
  <2> QED BY <2>1, <2>2, <2>3, <2>4, <2>5, <2>6
<1>5. CASE vcc_monitor
  <2>1. TypeOK'
    BY <1>5 DEF vcc_monitor, Threads, TypeOK, KernelTypeOK
  <2>2. OneWatch' /\ Counters'
    BY <1>5 DEF vcc_monitor, Threads, OneWatch, Counters
  <2>3. Links'
    BY <1>5 DEF vcc_monitor, Threads, Links
  <2>4. Meant'
    BY <1>5 DEF vcc_monitor, Threads, Meant
  <2>5. Fresh'
    BY <1>5 DEF vcc_monitor, Threads, Fresh
  <2>6. Pending' /\ TriggerAgrees'
    BY <1>5 DEF vcc_monitor, Threads, Pending, TriggerAgrees
  <2> QED BY <2>1, <2>2, <2>3, <2>4, <2>5, <2>6
<1>6. CASE acc_poweroff
  <2>1. TypeOK'
    BY <1>6 DEF acc_poweroff, TypeOK, KernelTypeOK
  <2>2. OneWatch' /\ Counters'
    BY <1>6 DEF acc_poweroff, OneWatch, Counters
  <2>3. Links'
    BY <1>6 DEF acc_poweroff, Links
  <2>4. Meant'
    BY <1>6 DEF acc_poweroff, Meant
  <2>5. Fresh'
    BY <1>6 DEF acc_poweroff, Fresh
  <2>6. Pending' /\ TriggerAgrees'
    BY <1>6 DEF acc_poweroff, Pending, TriggerAgrees
  <2> QED BY <2>1, <2>2, <2>3, <2>4, <2>5, <2>6
<1> QED BY <1>1, <1>2, <1>3, <1>4, <1>5, <1>6, <1>7 DEF Others

\* The end of the process, and of the supply, keep it.
LEMMA EndKeeps == ASSUME AccInv, Dies \/ PowerFalls PROVE AccInv'
<1> USE DebounceAssumption, DelayAfterOffAssumption, MaxDelayFlagAssumption, AccDelayTimerAssumption,
        MaxIntAssumption, QueueMaxAssumption, ShutSecsAssumption
<1> USE DEF AccInv, watchVars, reportVars, kernelVars, worldVars, monitorVars, Up
<1>1. CASE Dies
  <2>1. TypeOK'
    <3>1. /\ acc_async' \in BOOLEAN /\ listener' \in BOOLEAN /\ nlerr' \in BOOLEAN
           /\ sigio' \in BOOLEAN /\ heard' \in BOOLEAN
      BY <1>1, Zenon DEF Dies, acc_close
    <3>2. KernelTypeOK'
      BY <1>1, <3>1 DEF Dies, acc_close, NoRequest, TypeOK, KernelTypeOK
    <3> QED BY <1>1, <3>2 DEF Dies, acc_close, NoRequest, TypeOK
  <2>2. OneWatch' /\ Counters'
    BY <1>1 DEF Dies, acc_close, NoRequest, OneWatch, Counters
  <2>3. Links'
    BY <1>1 DEF Dies, acc_close, NoRequest, Links, Copying
  <2>4. Meant'
    BY <1>1 DEF Dies, acc_close, NoRequest, Meant
  <2>5. Fresh'
    BY <1>1 DEF Dies, acc_close, NoRequest, Fresh
  <2>6. Pending' /\ TriggerAgrees'
    BY <1>1 DEF Dies, acc_close, NoRequest, Pending, TriggerAgrees
  <2> QED BY <2>1, <2>2, <2>3, <2>4, <2>5, <2>6
<1>2. CASE PowerFalls
  <2>1. TypeOK'
    <3>1. power' \in {"on", "restart", "off"}
      BY <1>2 DEF PowerFalls, TypeOK
    <3>2. KernelTypeOK'
      BY <1>2, <3>1 DEF PowerFalls, TypeOK, KernelTypeOK
    <3> QED BY <1>2, <3>2 DEF PowerFalls, TypeOK
  <2>2. OneWatch' /\ Counters'
    BY <1>2 DEF PowerFalls, TypeOK, OneWatch, Counters
  <2>3. Links'
    BY <1>2 DEF PowerFalls, Links
  <2>4. Meant'
    BY <1>2 DEF PowerFalls, TypeOK, Meant
  <2>5. Fresh'
    BY <1>2 DEF PowerFalls, TypeOK, Fresh
  <2>6. Pending' /\ TriggerAgrees'
    BY <1>2 DEF PowerFalls, TypeOK, Pending, TriggerAgrees
  <2> QED BY <2>1, <2>2, <2>3, <2>4, <2>5, <2>6
<1> QED BY <1>1, <1>2

\* After a restart everything is as at first.
LEMMA BootIsInit == Boot => Init'
BY DEF Boot, KernelBoot, Init, KernelInit, NoRequest, SWITCH_ON, Idle

LEMMA BootKeeps == Boot => AccInv'
BY AccInit, BootIsInit, PTL

\* Nothing changes.
LEMMA StutterKeeps == ASSUME AccInv, UNCHANGED vars PROVE AccInv'
BY DEF AccInv, vars, kernelVars, worldVars, monitorVars, watchVars, reportVars, TypeOK, KernelTypeOK,
       OneWatch, Counters, Links, Meant, Fresh, Pending, TriggerAgrees, Up

\* The inductive invariant holds in every state of the kernel module and its
\* monitor.
THEOREM AccCorrect == Spec => []AccInv
<1>1. AccInv /\ [Next]_vars => AccInv'
  BY SoftirqKeeps, TickKeeps, KeyKeeps, SignalKeeps, MainKeeps, OthersKeep, EndKeeps, BootKeeps,
     StutterKeeps DEF Next
<1> QED BY AccInit, <1>1, PTL DEF Spec

\* The state of the kernel module and of its monitor has its types.
THEOREM AccTypes == Spec => []TypeOK
BY AccCorrect, PTL DEF AccInv

\* Exactly one of the three timers and the tasklet of check_acc.c has the
\* watch, and the semaphore and acc_flag say which.
THEOREM WatchIsOne == Spec => []OneWatch
BY AccCorrect, PTL DEF AccInv

\* The trigger that signal_f reads is what the kernel reported.
THEOREM TriggerFollows == Spec => []TriggerAgrees
BY AccCorrect, PTL DEF AccInv

\* acc_shutdown runs only after the delay is over.
THEOREM ShutdownOnlyMeant == Spec => []ShutdownIsMeant
<1>1. AccInv => ShutdownIsMeant
  BY DEF AccInv, Meant, ShutdownIsMeant
<1> QED BY AccCorrect, <1>1, PTL

\* acc_shutdown never decides to cut the power of a vehicle that has been
\* running for longer than the time between two announcements.
THEOREM CutIsFresh == Spec => CutNotStale
<1>1. AccInv /\ [Next]_vars => [nl' = "off" => onFor <= DelayAfterOff]_nl
  <2> SUFFICES ASSUME AccInv, Next, nl' = "off", nl' # nl PROVE onFor <= DelayAfterOff
    BY DEF vars, monitorVars
  <2>1. acc_shutdown /\ trigger = SWITCH_OFF
    BY DEF Next, Kernel, Tick, Key, Main, signal_f, Others, Dies, PowerFalls, Boot, monitorVars, acc_monitor_init,
           uci_monitor_init, set_acc_gpio_timer, SetDelay, RequestDone, acc_create, acc_reload, acc_create_func,
           netlink, Recv, acc_shutdown, system, off_delay, vcc_monitor, acc_poweroff
  <2>2. Up /\ acc_async /\ Running(sig_timer)
    BY <2>1 DEF acc_shutdown, AccInv, Meant, Links, SWITCH_ON, SWITCH_OFF
  <2> QED BY <2>1, <2>2, DelayAfterOffAssumption DEF AccInv, Fresh, TypeOK, KernelTypeOK, Running, Idle
<1> QED BY AccCorrect, <1>1, PTL DEF Spec, CutNotStale

-----------------------------------------------------------------------------
\* A softirq is a step of Ignition.
LEMMA SoftirqIsIgnition == ASSUME AccInv, Kernel PROVE [ignition!IgnitionNext]_(ignition!ignitionVars)
<1> USE DebounceAssumption, DelayAfterOffAssumption, MaxDelayFlagAssumption, MaxIntAssumption
<1> USE DEF AccInv, Kernel, Softirq, Mode, Running, Idle, OneWatch, Counters, TypeOK, KernelTypeOK,
            ignition!IgnitionNext, ignition!ignitionVars, Up, monitorVars
<1>1. CASE check_acc_stage1 /\ UNCHANGED power
  <2> ignition!Watch
    BY <1>1 DEF check_acc_stage1, readings, seen, ignition!Watch
  <2> QED OBVIOUS
<1>2. CASE IgnitionOff /\ UNCHANGED power
  <2> ignition!Watch
    BY <1>2 DEF IgnitionOff, readings, seen, ignition!Watch
  <2> QED OBVIOUS
<1>3. CASE tasklet_action /\ UNCHANGED power
  <2> ignition!Begin
    BY <1>3 DEF tasklet_action, ignition!Begin
  <2> QED OBVIOUS
<1>4. CASE IgnitionOn /\ UNCHANGED power
  <2> ignition!Count
    BY <1>4 DEF IgnitionOn, ignition!Count
  <2> QED OBVIOUS
<1>5. CASE TimeIsUp /\ UNCHANGED power
  <2> ignition!Count
    BY <1>5 DEF TimeIsUp, seen, ignition!Count
  <2> QED OBVIOUS
<1>6. CASE check_acc_stage2 /\ UNCHANGED power
  <2> ignition!Count
    BY <1>6 DEF check_acc_stage2, seen, ignition!Count
  <2> QED OBVIOUS
<1>7. CASE ap_shutdown /\ sig_timer' = DelayAfterOff /\ UNCHANGED power
  BY <1>7 DEF ap_shutdown
<1>8. CASE ap_shutdown /\ power' = "restart"
  <2> ignition!GoDown
    BY <1>8 DEF ap_shutdown, ignition!GoDown
  <2> QED OBVIOUS
<1> QED BY <1>1, <1>2, <1>3, <1>4, <1>5, <1>6, <1>7, <1>8 DEF ap_shutdown

\* So is everything else: only the ioctl, a loss of power and a boot are seen.
LEMMA RestIsIgnition ==
    ASSUME AccInv, Tick \/ Key \/ Main \/ signal_f \/ Others \/ Dies \/ PowerFalls \/ Boot \/ UNCHANGED vars
    PROVE  [ignition!IgnitionNext]_(ignition!ignitionVars)
<1> USE DEF ignition!IgnitionNext, ignition!ignitionVars, Mode, Up
<1>1. CASE Tick
  <2> Running(sig_timer) <=> Running(sig_timer')
    BY <1>1, DelayAfterOffAssumption DEF Tick, KernelTick, fall, AccInv, Running, Idle
  <2> Running(acc_timer) <=> Running(acc_timer')
    BY <1>1 DEF Tick, KernelTick, fall, AccInv, Running, Idle
  <2> QED BY <1>1 DEF Tick, KernelTick
<1>2. CASE set_acc_gpio_timer
  <2>1. UNCHANGED <<Mode, offRun, total_time1>> /\ main \notin Copying
    BY <1>2 DEF set_acc_gpio_timer, kernelVars, worldVars, watchVars, Copying
  <2>2. CASE RequestDone
    BY <2>1, <2>2 DEF RequestDone, Copying
  <2>3. CASE takes /\ main' \in Copying
    <3> ignition!Take
      BY <1>2, <2>1, <2>3 DEF set_acc_gpio_timer, takes, AccInv, OneWatch, ignition!Take
    <3> QED OBVIOUS
  <2> QED BY <1>2, <2>2, <2>3 DEF set_acc_gpio_timer, Copying
<1>7. CASE SetDelay
  <2>1. ToInt(arg.timer) \in Int
    BY <1>7, ToIntType, MaxIntAssumption DEF SetDelay, AccInv, Links
  <2> ignition!SetDelay
    BY <1>7, <2>1 DEF SetDelay, acc_ioctl, RequestDone, worldVars, watchVars, Copying, ignition!SetDelay
  <2> QED OBVIOUS
<1>3. CASE PowerFalls
  <2> ignition!GoDown
    BY <1>3 DEF PowerFalls, AccInv, TypeOK, kernelVars, watchVars, monitorVars, ignition!GoDown
  <2> QED OBVIOUS
<1>8. CASE Boot
  <2>1. ignition!IgnitionInit'
    BY <1>8, AccDelayTimerAssumption DEF Boot, KernelBoot, Running, Idle, Copying, ignition!IgnitionInit
  <2> ignition!Boot
    BY <1>8, <2>1 DEF Boot, ignition!Boot
  <2> QED OBVIOUS
<1>4. CASE Key \/ signal_f \/ Dies \/ UNCHANGED vars
  BY <1>4 DEF Key, Flip, signal_f, Dies, acc_close, vars, kernelVars, worldVars, watchVars, monitorVars, Copying
<1>5. CASE acc_monitor_init \/ uci_monitor_init \/ acc_create \/ acc_reload
  BY <1>5 DEF acc_monitor_init, acc_open, uci_monitor_init, acc_create, acc_reload, acc_create_func,
              kernelVars, worldVars, watchVars, Copying
<1>6. CASE Others
  BY <1>6 DEF Others, netlink, nl_data_ready, Recv, acc_shutdown, system, off_delay, vcc_monitor, acc_poweroff,
              kernelVars, worldVars, watchVars
<1> QED BY <1>1, <1>2, <1>3, <1>4, <1>5, <1>6, <1>7, <1>8 DEF Main

\* The timers and the tasklet of check_acc.c, beside a process that sets the
\* delay, implement Ignition.
THEOREM AccIsIgnition == Spec => IsIgnition
<1>1. Init => ignition!IgnitionInit
  BY AccDelayTimerAssumption DEF Init, KernelInit, Mode, Running, Idle, Up, Copying, ignition!IgnitionInit
<1>2. AccInv /\ [Next]_vars => [ignition!IgnitionNext]_(ignition!ignitionVars)
  BY SoftirqIsIgnition, RestIsIgnition DEF Next
<1> QED BY AccCorrect, <1>1, <1>2, PTL DEF Spec, IsIgnition, ignition!IgnitionSpec
=============================================================================
