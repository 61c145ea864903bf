\* Three stations that join, leave and roam between two radios while they are
\* polled, and whose interfaces are removed and restored.
CONSTANTS
    w0 = w0  w1 = w1  r0 = r0  r1 = r1
    Users = {u1, u2, u3, u4, u5, u6, u7}
    Mac = {zero, full, bss, sa, sb, sc}
    ZeroMac = zero  FullMac = full  BssMac = bss
    Sta = {sa, sb, sc}
    Ip = {0, 1, 2}  ZeroIp = 0  LeaseIp = {1}
    RadioId = {0, 1}  WlanId = {0}
    Bucket <- MCBucket  HashMac <- MCHashMac  HashIp <- MCHashIp
    AgTimes = 2
    Ifname <- TwoIf  Radio <- TwoRadio
    IfRadioId <- TwoRadioId  IfWlanId <- TwoWlanId  RadioNum <- TwoNum
    Configs <- TwoConfigs
    MaxEnv = 4
SPECIFICATION FairSpec
INVARIANTS TypeOK IndexConsistent CountExact MacUnique AnnouncedExact AgingInRange
           PresentStationKept OnlyKnownMacs
PROPERTY Converges
