\* The monitor starts some time after the kernel module, and the ignition
\* may be off by then.
CONSTANTS
    Debounce = 2
    DelayAfterOff = 1
    MaxDelayFlag = 2
    AccDelayTimer = 2
    MaxInt = 3
    QueueMax = 1
    Requests <- MCTimers
    Configs <- MCConfigs
    ShutSecs = 2
    Volts = {9}
    None = None
SPECIFICATION Spec
INVARIANT TimerInForce
CHECK_DEADLOCK FALSE
