\* The key is turned at any moment, the monitor starts late or dies, and every
\* queue, counter and delay reaches its limit.
CONSTANTS
    Debounce = 2
    DelayAfterOff = 1
    MaxDelayFlag = 2
    AccDelayTimer = 2
    MaxInt = 3
    QueueMax = 1
    Requests <- MCRequests
    Configs <- MCConfigs
    ShutSecs = 1
    Volts = {9}
    None = None
SPECIFICATION FairSpec
INVARIANTS TypeOK OneWatch TriggerAgrees ShutdownIsMeant
PROPERTIES IsIgnition CutNotStale EndsWhatItBegan ParkedEnds
CHECK_DEADLOCK FALSE
