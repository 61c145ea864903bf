--------------------------- MODULE MCUserManager ---------------------------
(* Small instances of UserManager for TLC. *)
EXTENDS UserManager

CONSTANTS w0, w1, r0, r1

\* Two chains: real macs collide in one, so do all ips but one.
MCBucket == {0, 1}
MCHashMac == [m \in Mac |-> IF m \in Sta THEN 0 ELSE 1]
MCHashIp == [i \in Ip |-> IF i = 1 THEN 1 ELSE 0]

\* Two radios with one interface each; the second one comes and goes.
TwoIf == {w0, w1}
TwoRadio == {r0, r1}
TwoRadioId == [i \in {w0, w1} |-> IF i = w0 THEN 0 ELSE 1]
TwoWlanId == [i \in {w0, w1} |-> 0]
TwoNum == [r \in {r0, r1} |-> IF r = r0 THEN 0 ELSE 1]
TwoConfigs == {[radio |-> {r0, r1}, wlan |-> {w0, w1}],
               [radio |-> {r0, r1}, wlan |-> {w0}],
               [radio |-> {r0}, wlan |-> {w0}]}
=============================================================================
