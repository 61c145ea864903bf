------------------------------ MODULE MCUmUbus ------------------------------
(* Small instances of UmUbus for TLC. *)
EXTENDS UmUbus

MCBucket == {0, 1}
MCHashMac == [m \in Mac |-> IF is_good_mac(m) THEN 0 ELSE 1]
MCHashIp == [i \in Ip |-> IF i = ZeroIp THEN 1 ELSE 0]

\* Stations that get, change and lose their ip, and the mac of a shifted dump
MCInfos ==
    {[local |-> TRUE, mac |-> m, ip |-> i, radioid |-> 0, wlanid |-> 0] :
        m \in Mac \ {FullMac}, i \in Ip}
MCFilters ==
    {[local |-> FALSE, radioid |-> AnyId, wlanid |-> AnyId],
     [local |-> TRUE, radioid |-> 0, wlanid |-> AnyId]}
=============================================================================
