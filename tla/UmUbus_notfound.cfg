CONSTANTS
    Users = {u1, u2, u3, u4}
    Mac = {zero, full, sa, sb}
    ZeroMac = zero  FullMac = full
    Ip = {0, 1, 2}  ZeroIp = 0
    RadioId = {0}  WlanId = {0}
    Bucket <- MCBucket  HashMac <- MCHashMac  HashIp <- MCHashIp
    AgTimes = 2
    Infos <- MCInfos  Filters <- MCFilters
    EvUpdate = FALSE
    MaxOps = 4
SPECIFICATION Spec
INVARIANT OnlyTheAskedUser
