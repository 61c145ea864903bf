---------------------------- MODULE UserManager ----------------------------
(***************************************************************************)
(* The daemon around the user table: the poll of the associated stations   *)
(* (l2user.c), the aging timer (um.c) and the reload of the wireless       *)
(* configuration (uci.c).                                                  *)
(*                                                                         *)
(* A poll is not atomic.  It asks iw for the number of stations of an      *)
(* interface and then, in a new process per station and per value, for     *)
(* line 1, 2, ... of a fresh dump; stations come and go in between.        *)
(* Everything else in umd is one uloop callback, hence one step.           *)
(*                                                                         *)
(* Timers.  wifi and aging have the same period (um.key: 5000 ms) and each *)
(* is re-armed when it fires, before its handler runs (um.c usertimer).    *)
(* uloop runs due timers in order of deadline, so the two alternate        *)
(* however long a poll takes; "turn" is the one that is due first.  The    *)
(* portal timer does nothing in this build and the report timer only       *)
(* reads the table (see UmUbus).                                           *)
(***************************************************************************)
EXTENDS UserTable, Sequences, SequencesExt

CONSTANTS
    Ifname, Radio,        \* names of wifi-iface and wifi-device sections
    IfRadioId, IfWlanId,  \* what "wlan%d-%d" scans from an interface name
    RadioNum,             \* what "radio%d" scans from a device name
    Sta,                  \* macs of real stations
    BssMac,               \* the access point's own mac
    LeaseIp,              \* results of inet_addr(get_sta_ipaddr(mac))
    Configs,              \* contents /etc/config/wireless may have
    MaxEnv                \* bound on changes made by the environment

ASSUME StaAssumption == Sta \subseteq Mac /\ BssMac \in Mac \ Sta
                        /\ \A m \in Sta \cup {BssMac} : is_good_mac(m)
ASSUME LeaseAssumption == LeaseIp \subseteq Ip
ASSUME NameAssumption == /\ Ifname # {}
                         /\ IfRadioId \in [Ifname -> RadioId]
                         /\ IfWlanId \in [Ifname -> WlanId]
                         /\ RadioNum \in [Radio -> RadioId]
ASSUME ConfigAssumption == Configs \subseteq [radio : SUBSET Radio, wlan : SUBSET Ifname]

VARIABLES
    air,     \* the stations iw lists per interface, in dump order (external)
    conf,    \* the sections enabled in /etc/config/wireless (external)
    cfg,     \* umc.uci.radio.cfg and umc.uci.wlan.cfg
    tmp,     \* umc.uci.radio.tmp and umc.uci.wlan.tmp
    poll,    \* where um_l2user_timer is
    turn,    \* the timer that is due first
    env,     \* environment changes so far
    (***********************************************************************)
    (* History, read by no action's guard:                                 *)
    (***********************************************************************)
    since,   \* stations that stayed since the current poll began
    shifted, \* the dump shifted under the current poll
    tracked, \* stations that stayed since a poll that saw all of them
    read     \* the configuration um_uci_load read last

daemonVars == <<cfg, tmp, poll, turn>>
worldVars  == <<air, conf, env>>
history    == <<since, shifted, tracked, read>>
vars == <<tableVars, daemonVars, worldVars, history>>

Names == [radio : SUBSET Radio, wlan : SUBSET Ifname]

Idle == [at |-> "idle", todo |-> {}, ifname |-> CHOOSE i \in Ifname : TRUE,
         num |-> 0, total |-> 0, a |-> ZeroMac]

OnAir(I) == UNION {ToSet(air[i]) : i \in I}

Listed == {user[u].mac : u \in head.list}

-----------------------------------------------------------------------------
\* The poll.

\* usertimer re-arms wifi, then um_l2user_timer starts on the interfaces
WifiTimer ==
    /\ poll.at = "idle" /\ turn = "wifi"
    /\ poll' = [Idle EXCEPT !.at = "intf", !.todo = cfg.wlan]
    /\ since' = OnAir(cfg.wlan) /\ shifted' = FALSE
    /\ UNCHANGED <<tableVars, cfg, tmp, turn, worldVars, tracked, read>>

\* l2user_timer on the next interface: get_sta_total
L2Total ==
    /\ poll.at = "intf"
    /\ \E i \in poll.todo :
         poll' = [at |-> IF air[i] = <<>> THEN "intf" ELSE "sta",
                  todo |-> poll.todo \ {i}, ifname |-> i,
                  num |-> 1, total |-> Len(air[i]), a |-> ZeroMac]
    /\ UNCHANGED <<tableVars, cfg, tmp, turn, worldVars, history>>

\* Mutant: a failed scan yields ff:ff:ff:ff:ff:ff.
get_sta_macaddrFull ==
    IF poll.num <= Len(air[poll.ifname]) THEN air[poll.ifname][poll.num] ELSE FullMac

\* get_sta_macaddr and its sscanf: line num of a fresh dump; past the end of
\* the dump sscanf leaves a0..a5 alone
get_sta_macaddr ==
    IF poll.num <= Len(air[poll.ifname]) THEN air[poll.ifname][poll.num] ELSE poll.a

l2info(ip) ==
    [local |-> TRUE, mac |-> get_sta_macaddr, ip |-> ip,
     radioid |-> IfRadioId[poll.ifname], wlanid |-> IfWlanId[poll.ifname]]

\* One round of l2user_timer's loop.  a0..a5 also read the macs of the
\* access point, so they hold BssMac afterwards.
L2Sta ==
    /\ poll.at = "sta"
    /\ \E ip \in LeaseIp : um_user_update(l2info(ip))
    /\ poll' = IF poll.num < poll.total
               THEN [poll EXCEPT !.num = @ + 1, !.a = BssMac]
               ELSE [Idle EXCEPT !.at = "intf", !.todo = poll.todo]
    /\ UNCHANGED <<cfg, tmp, turn, worldVars, history>>

\* um_user_update returned NULL: -ENOMEM ends the whole poll
L2NoMem ==
    /\ poll.at = "sta"
    /\ env < MaxEnv /\ env' = env + 1
    /\ \E ip \in LeaseIp : UpdateFails(l2info(ip))
    /\ poll' = Idle /\ turn' = "aging"
    /\ tracked' = {}
    /\ UNCHANGED <<cfg, tmp, air, conf, since, shifted, read>>

L2Done ==
    /\ poll.at = "intf" /\ poll.todo = {}
    /\ poll' = Idle /\ turn' = "aging"
    /\ tracked' = IF shifted THEN {} ELSE since
    /\ UNCHANGED <<tableVars, cfg, tmp, worldVars, since, shifted, read>>

AgingTimer ==
    /\ poll.at = "idle" /\ turn = "aging"
    /\ aging
    /\ turn' = "wifi"
    /\ UNCHANGED <<cfg, tmp, poll, worldVars, history>>

-----------------------------------------------------------------------------
\* um_uci_load on the ubus request "reload".

\* deluser_byif on a removed radio or wlan
radioFilter(r) == [local |-> TRUE, radioid |-> RadioNum[r], wlanid |-> AnyId]
wlanFilter(i)  == [local |-> TRUE, radioid |-> IfRadioId[i], wlanid |-> IfWlanId[i]]

\* Mutant: load_radio reads the wifi-iface sections too.
loadedWlan(type) == tmp[type] \cup conf["wlan"]

\* load_intf adds the sections to tmp, then intf_compare deletes what is in
\* cfg and not in tmp, and moves what is in tmp and not in cfg
loaded(type) == tmp[type] \cup conf[type]
dropped(type) == cfg[type] \ loaded(type)
moved(type) == loaded(type) \ (cfg[type] \ dropped(type))
compared(type) == (cfg[type] \ dropped(type)) \cup moved(type)

Reload ==
    /\ poll.at = "idle"
    /\ um_user_delby({radioFilter(r) : r \in dropped("radio")}
                     \cup {wlanFilter(i) : i \in dropped("wlan")})
    /\ cfg' = [radio |-> compared("radio"), wlan |-> compared("wlan")]
    /\ tmp' = [radio |-> loaded("radio") \ moved("radio"), wlan |-> loaded("wlan") \ moved("wlan")]
    /\ read' = conf
    /\ UNCHANGED <<poll, turn, worldVars, since, shifted, tracked>>

-----------------------------------------------------------------------------
\* The world outside umd.

Forget(S) == /\ since' = since \ S
             /\ tracked' = tracked \ S

Shift(i) == shifted' = (shifted \/ (poll.at = "sta" /\ poll.ifname = i))

\* A new station enters the dump at its tail or its head.
Join ==
    /\ env < MaxEnv /\ env' = env + 1
    /\ \E i \in conf.wlan, m \in Sta \ OnAir(Ifname) :
         \/ /\ air' = [air EXCEPT ![i] = Append(@, m)]
            /\ UNCHANGED shifted
         \/ /\ air' = [air EXCEPT ![i] = <<m>> \o @]
            /\ Shift(i)
    /\ UNCHANGED <<tableVars, daemonVars, conf, since, tracked, read>>

Leave ==
    /\ env < MaxEnv /\ env' = env + 1
    /\ \E i \in Ifname : \E k \in DOMAIN air[i] :
         /\ air' = [air EXCEPT ![i] = RemoveAt(@, k)]
         /\ Shift(i) /\ Forget({air[i][k]})
    /\ UNCHANGED <<tableVars, daemonVars, conf, read>>

\* The configuration is rewritten; a removed interface loses its stations
Reconfigure ==
    /\ env < MaxEnv /\ env' = env + 1
    /\ \E c \in Configs \ {conf} :
         LET gone == conf.wlan \ c.wlan
         IN /\ conf' = c
            /\ air' = [i \in Ifname |-> IF i \in gone THEN <<>> ELSE air[i]]
            /\ Forget(OnAir(gone))
    /\ UNCHANGED <<tableVars, daemonVars, shifted, read>>

-----------------------------------------------------------------------------
\* main() has loaded the configuration and armed the timers.
Init ==
    /\ TableInit
    /\ air = [i \in Ifname |-> <<>>]
    /\ conf \in Configs
    /\ cfg = conf
    /\ tmp = [radio |-> {}, wlan |-> {}]
    /\ poll = Idle /\ turn = "wifi"
    /\ env = 0
    /\ since = {} /\ shifted = FALSE /\ tracked = {} /\ read = conf

Timers == WifiTimer \/ L2Total \/ L2Sta \/ L2NoMem \/ L2Done \/ AgingTimer

World == Join \/ Leave \/ Reconfigure

Next == Timers \/ Reload \/ World

Spec == Init /\ [][Next]_vars

\* uloop runs every timer that is due, and the commands a poll runs end.
FairSpec == Spec /\ WF_vars(Timers)

-----------------------------------------------------------------------------
\* The table's type, and the daemon's.
TypeOK ==
    /\ TableTypeOK
    /\ air \in [Ifname -> Seq(Sta)]
    /\ conf \in Names /\ cfg \in Names /\ tmp \in Names
    /\ poll \in [at : {"idle", "intf", "sta"}, todo : SUBSET Ifname, ifname : Ifname,
                 num : Nat, total : Nat, a : Mac]
    /\ turn \in {"wifi", "aging"}
    /\ env \in Nat
    /\ since \in SUBSET Sta /\ shifted \in BOOLEAN /\ tracked \in SUBSET Sta
    /\ read \in Names

\* A station that stays associated is not aged out and not dropped by a
\* reload that keeps its interface: once a poll whose dump did not shift has
\* seen it, it stays in the table until it leaves or a later poll fails.
PresentStationKept == tracked \subseteq Listed

\* l2user_timer invents no station but the two it can invent: every user
\* stems from a dump line, from the untouched zeroes of a0..a5 or from the
\* access point's mac left in them.
OnlyKnownMacs == Listed \subseteq Sta \cup {ZeroMac, BssMac}

\* Once the environment is quiet the table becomes, and stays, exactly the
\* set of associated stations: arrivals are found, leavers and the users a
\* shifting dump made up are aged out.
Converges == <>[](Listed = OnAir(cfg.wlan))

\* "delete the intf(in cfg, NOT in tmp)" (uci.c:271), tmp being where the
\* configuration has just been loaded: after a load, cfg has no interface
\* that the loaded configuration does not have.
ReloadDropsRemoved == cfg.wlan \subseteq read.wlan
=============================================================================
