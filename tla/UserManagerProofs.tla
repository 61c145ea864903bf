------------------------- MODULE UserManagerProofs -------------------------
(***************************************************************************)
(* umd uses the user table only through its operations: every step of the  *)
(* daemon is a step of the table or leaves it alone, whatever the          *)
(* stations, the configuration and the polls do.  What UserTableProofs     *)
(* proves of the table therefore holds in the daemon.                      *)
(***************************************************************************)
EXTENDS UserManager, UserTableProofs, SequenceTheorems

\* The daemon's own part of TypeOK; at "sta" the poll has a line to read.
DaemonTypeOK ==
    /\ air \in [Ifname -> Seq(Sta)]
    /\ conf \in Names /\ cfg \in Names /\ tmp \in Names
    /\ poll \in [at : {"idle", "intf", "sta"}, todo : SUBSET Ifname, ifname : Ifname,
                 num : Nat, total : Nat, a : Mac]
    /\ turn \in {"wifi", "aging"}
    /\ env \in Nat
    /\ since \in SUBSET Sta /\ shifted \in BOOLEAN /\ tracked \in SUBSET Sta
    /\ read \in Names
    /\ poll.at = "sta" => poll.num >= 1

\* What a poll passes to um_user_update is a well-formed user info: a line
\* of the dump or what a0..a5 still hold.
LEMMA InfoType ==
    ASSUME DaemonTypeOK, poll.at = "sta", NEW ip \in LeaseIp
    PROVE  l2info(ip) \in Info
<1>1. /\ air \in [Ifname -> Seq(Sta)] /\ poll.ifname \in Ifname /\ poll.a \in Mac
      /\ poll.num \in Nat /\ poll.num >= 1
  BY DEF DaemonTypeOK
<1>2. get_sta_macaddr \in Mac
  BY <1>1, StaAssumption DEF get_sta_macaddr
<1>3. IfRadioId[poll.ifname] \in RadioId /\ IfWlanId[poll.ifname] \in WlanId /\ ip \in Ip
  BY <1>1, NameAssumption, LeaseAssumption
<1> QED BY <1>2, <1>3 DEF l2info, Info

\* The stations on the air are stations.
LEMMA OnAirType ==
    ASSUME air \in [Ifname -> Seq(Sta)], NEW I \in SUBSET Ifname
    PROVE  OnAir(I) \in SUBSET Sta
<1> SUFFICES ASSUME NEW i \in I, NEW k \in DOMAIN air[i] PROVE air[i][k] \in Sta
  BY DEF OnAir, ToSet
<1> QED OBVIOUS

\* A poll that is not running is well typed.
LEMMA IdleType ==
    Idle \in [at : {"idle", "intf", "sta"}, todo : SUBSET Ifname, ifname : Ifname,
              num : Nat, total : Nat, a : Mac]
BY MacAssumption, NameAssumption DEF Idle

\* A dump that loses a line is still a dump.
LEMMA RemoveAtType ==
    ASSUME NEW S, NEW s \in Seq(S), NEW k \in DOMAIN s
    PROVE  RemoveAt(s, k) \in Seq(S)
<1>1. SubSeq(s, 1, k - 1) \in Seq(S)
  <2> \A i \in 1..(k - 1) : s[i] \in S
    OBVIOUS
  <2> QED BY SubSeqProperties
<1>2. SubSeq(s, k + 1, Len(s)) \in Seq(S)
  BY SubSeqProperties
<1> QED BY <1>1, <1>2 DEF RemoveAt

\* Every step of the daemon and of the world keeps the daemon's types.
LEMMA DaemonTypeStep ==
    ASSUME DaemonTypeOK, [Next]_vars
    PROVE  DaemonTypeOK'
<1> USE DEF DaemonTypeOK
<1>1. CASE WifiTimer
  <2>1. poll' \in [at : {"idle", "intf", "sta"}, todo : SUBSET Ifname, ifname : Ifname,
                   num : Nat, total : Nat, a : Mac] /\ poll'.at = "intf"
    BY <1>1, IdleType DEF WifiTimer, Names, Idle
  <2>2. since' \in SUBSET Sta
    BY <1>1, OnAirType DEF WifiTimer, Names
  <2> QED BY <1>1, <2>1, <2>2 DEF WifiTimer, worldVars
<1>2. CASE L2Total
  <2>1. PICK i \in poll.todo :
          poll' = [at |-> IF air[i] = <<>> THEN "intf" ELSE "sta",
                   todo |-> poll.todo \ {i}, ifname |-> i,
                   num |-> 1, total |-> Len(air[i]), a |-> ZeroMac]
    BY <1>2 DEF L2Total
  <2>2. i \in Ifname /\ Len(air[i]) \in Nat /\ poll.todo \ {i} \in SUBSET Ifname
    OBVIOUS
  <2>3. poll' \in [at : {"idle", "intf", "sta"}, todo : SUBSET Ifname, ifname : Ifname,
                   num : Nat, total : Nat, a : Mac] /\ poll'.num = 1
    BY <2>1, <2>2, MacAssumption
  <2> QED BY <1>2, <2>3 DEF L2Total, worldVars, history
<1>3. CASE L2Sta
  <2>1. poll' \in [at : {"idle", "intf", "sta"}, todo : SUBSET Ifname, ifname : Ifname,
                   num : Nat, total : Nat, a : Mac]
        /\ (poll'.at = "sta" => poll'.num >= 1)
    <3>1. CASE poll.num < poll.total
      <4>1. poll' = [poll EXCEPT !.num = poll.num + 1, !.a = BssMac]
        BY <1>3, <3>1 DEF L2Sta
      <4>2. poll.num + 1 \in Nat /\ poll.num + 1 >= 1 /\ BssMac \in Mac
        BY StaAssumption
      <4> QED BY <4>1, <4>2
    <3>2. CASE ~(poll.num < poll.total)
      BY <1>3, <3>2, IdleType DEF L2Sta, Idle
    <3> QED BY <3>1, <3>2
  <2> QED BY <1>3, <2>1 DEF L2Sta, worldVars, history
<1>4. CASE L2NoMem
  BY <1>4, IdleType DEF L2NoMem, Idle
<1>5. CASE L2Done
  BY <1>5, IdleType DEF L2Done, Idle, worldVars
<1>6. CASE AgingTimer
  BY <1>6 DEF AgingTimer, worldVars, history
<1>7. CASE Reload
  <2>1. /\ cfg' \in Names /\ tmp' \in Names /\ read' \in Names
    BY <1>7 DEF Reload, Names, loaded, dropped, moved, compared
  <2> QED BY <1>7, <2>1 DEF Reload, worldVars
<1>8. CASE Join
  <2>1. PICK i \in conf.wlan, m \in Sta \ OnAir(Ifname) :
          \/ air' = [air EXCEPT ![i] = Append(@, m)] /\ UNCHANGED shifted
          \/ air' = [air EXCEPT ![i] = <<m>> \o @] /\ Shift(i)
    BY <1>8 DEF Join
  <2>2. i \in Ifname /\ air[i] \in Seq(Sta) /\ m \in Sta
    BY DEF Names
  <2>3. Append(air[i], m) \in Seq(Sta) /\ <<m>> \o air[i] \in Seq(Sta)
    BY <2>2
  <2>4. air' \in [Ifname -> Seq(Sta)]
    BY <2>1, <2>2, <2>3
  <2>5. shifted' \in BOOLEAN
    BY <2>1 DEF Shift
  <2>6. env' \in Nat
    BY <1>8 DEF Join
  <2> QED BY <1>8, <2>4, <2>5, <2>6 DEF Join, daemonVars
<1>9. CASE Leave
  <2>0. PICK i \in Ifname : \E k \in DOMAIN air[i] :
          /\ air' = [air EXCEPT ![i] = RemoveAt(@, k)]
          /\ Shift(i) /\ Forget({air[i][k]})
    BY <1>9 DEF Leave
  <2>1. PICK k \in DOMAIN air[i] :
          /\ air' = [air EXCEPT ![i] = RemoveAt(@, k)]
          /\ Shift(i) /\ Forget({air[i][k]})
    BY <2>0
  <2>2. RemoveAt(air[i], k) \in Seq(Sta)
    BY RemoveAtType
  <2>3. air' \in [Ifname -> Seq(Sta)]
    BY <2>1, <2>2
  <2>4. shifted' \in BOOLEAN /\ since' \in SUBSET Sta /\ tracked' \in SUBSET Sta
    BY <2>1 DEF Shift, Forget
  <2>5. env' \in Nat
    BY <1>9 DEF Leave
  <2> QED BY <1>9, <2>3, <2>4, <2>5 DEF Leave, daemonVars
<1>10. CASE Reconfigure
  <2>1. PICK c \in Configs \ {conf} :
          /\ conf' = c
          /\ air' = [i \in Ifname |-> IF i \in conf.wlan \ c.wlan THEN <<>> ELSE air[i]]
          /\ Forget(OnAir(conf.wlan \ c.wlan))
    BY <1>10 DEF Reconfigure
  <2>2. conf' \in Names
    BY <2>1, ConfigAssumption DEF Names
  <2>3. air' \in [Ifname -> Seq(Sta)]
    BY <2>1
  <2>4. since' \in SUBSET Sta /\ tracked' \in SUBSET Sta
    BY <2>1 DEF Forget
  <2>5. env' \in Nat
    BY <1>10 DEF Reconfigure
  <2> QED BY <1>10, <2>2, <2>3, <2>4, <2>5 DEF Reconfigure, daemonVars
<1>11. CASE UNCHANGED vars
  BY <1>11 DEF vars, daemonVars, worldVars, history
<1> QED BY <1>1, <1>2, <1>3, <1>4, <1>5, <1>6, <1>7, <1>8, <1>9, <1>10, <1>11
        DEF Next, Timers, World

\* The daemon starts well typed.
LEMMA DaemonTypeInit == Init => DaemonTypeOK
<1> SUFFICES ASSUME Init PROVE DaemonTypeOK
  OBVIOUS
<1>1. conf \in Names /\ cfg \in Names /\ tmp \in Names /\ read \in Names
  BY ConfigAssumption DEF Init, Names
<1>2. air \in [Ifname -> Seq(Sta)]
  BY DEF Init
<1>3. poll.at = "idle" /\ poll \in [at : {"idle", "intf", "sta"}, todo : SUBSET Ifname,
                                   ifname : Ifname, num : Nat, total : Nat, a : Mac]
  BY IdleType DEF Init, Idle
<1> QED BY <1>1, <1>2, <1>3 DEF Init, DaemonTypeOK

\* Every step of the daemon is a table operation or leaves the table alone.
LEMMA StepIsTableStep ==
    ASSUME DaemonTypeOK, [Next]_vars
    PROVE  [TableNext]_tableVars
<1>1. CASE L2Sta
  <2>1. PICK ip \in LeaseIp : um_user_update(l2info(ip))
    BY <1>1 DEF L2Sta
  <2>2. l2info(ip) \in Info
    BY <1>1, InfoType DEF L2Sta
  <2> QED BY <2>1, <2>2 DEF TableNext
<1>2. CASE AgingTimer
  BY <1>2 DEF AgingTimer, TableNext
<1>3. CASE Reload
  <2> DEFINE F == {radioFilter(r) : r \in dropped("radio")} \cup {wlanFilter(i) : i \in dropped("wlan")}
  <2>1. um_user_delby(F)
    BY <1>3 DEF Reload
  <2>2. dropped("radio") \subseteq Radio /\ dropped("wlan") \subseteq Ifname
    BY DEF DaemonTypeOK, Names, dropped
  <2>3. \A r \in Radio : radioFilter(r) \in Filter
    BY NameAssumption DEF radioFilter, Filter
  <2>4. \A i \in Ifname : wlanFilter(i) \in Filter
    BY NameAssumption DEF wlanFilter, Filter
  <2>5. F \in SUBSET Filter
    BY <2>2, <2>3, <2>4
  <2> HIDE DEF F
  <2> QED BY <2>1, <2>5 DEF TableNext
<1>4. CASE WifiTimer \/ L2Total \/ L2Done
  BY <1>4 DEF WifiTimer, L2Total, L2Done
<1>5. CASE L2NoMem
  BY <1>5 DEF L2NoMem, UpdateFails
<1>6. CASE World
  BY <1>6 DEF World, Join, Leave, Reconfigure
<1>7. CASE UNCHANGED vars
  BY <1>7 DEF vars
<1> QED BY <1>1, <1>2, <1>3, <1>4, <1>5, <1>6, <1>7 DEF Next, Timers

\* umd implements the user table: the polls, aging rounds and reloads only
\* ever drive it through um_user_update, um_user_delby and aging.
THEOREM DaemonImplementsTable == Spec => TableSpec
<1>1. Init => TableInit
  BY DEF Init
<1>2. Init => DaemonTypeOK
  BY DaemonTypeInit
<1>3. DaemonTypeOK /\ [Next]_vars => DaemonTypeOK'
  BY DaemonTypeStep
<1>4. DaemonTypeOK /\ [Next]_vars => [TableNext]_tableVars
  BY StepIsTableStep
<1> QED BY <1>1, <1>2, <1>3, <1>4, PTL DEF Spec, TableSpec

\* All variables of the daemon keep their types.
THEOREM DaemonTypeCorrect == Spec => []TypeOK
<1>1. Init => DaemonTypeOK
  BY DaemonTypeInit
<1>2. DaemonTypeOK /\ [Next]_vars => DaemonTypeOK'
  BY DaemonTypeStep
<1>3. TableInv /\ DaemonTypeOK => TypeOK
  BY DEF TableInv, DaemonTypeOK, TypeOK
<1> QED BY <1>1, <1>2, <1>3, DaemonImplementsTable, TableCorrect, PTL DEF Spec

\* In the daemon, whatever stations and configuration do during a poll, the
\* hash chains stay exact, ...
THEOREM DaemonIndexConsistent == Spec => []IndexConsistent
BY DaemonImplementsTable, TableIndexConsistent, PTL

\* ... no station is listed twice, ...
THEOREM DaemonMacUnique == Spec => []MacUnique
<1>1. TableInv => MacUnique
  BY DEF TableInv
<1> QED BY <1>1, DaemonImplementsTable, TableCorrect, PTL

\* ... and um.new / um.delete announce exactly the stations listed.
THEOREM DaemonAnnouncedExact == Spec => []AnnouncedExact
BY DaemonImplementsTable, TableAnnouncedExact, PTL

\* The counter that um reports is the number of listed users (__insert,
\* __remove), ...
THEOREM DaemonCountExact == Spec => []CountExact
<1>1. TableInv => CountExact
  BY DEF TableInv
<1> QED BY <1>1, DaemonImplementsTable, TableCorrect, PTL

\* ... and no user is kept past its last aging round (aging_cb).
THEOREM DaemonAgingInRange == Spec => []AgingInRange
<1>1. TableInv => AgingInRange
  BY DEF TableInv
<1> QED BY <1>1, DaemonImplementsTable, TableCorrect, PTL

-----------------------------------------------------------------------------
\* a0..a5 hold what L2Total zeroed or the access point's mac.
ScanOK == poll.a \in {ZeroMac, BssMac}

\* A poll hands um_user_update a mac of the dump or what a0..a5 hold.
LEMMA PolledMac ==
    ASSUME DaemonTypeOK, ScanOK, poll.at = "sta"
    PROVE  get_sta_macaddr \in Sta \cup {ZeroMac, BssMac}
BY DEF DaemonTypeOK, ScanOK, get_sta_macaddr

\* Every step keeps the listed macs known.
LEMMA KnownMacsStep ==
    ASSUME TableInv, DaemonTypeOK, ScanOK, OnlyKnownMacs, [Next]_vars
    PROVE  ScanOK' /\ OnlyKnownMacs'
<1> USE DEF ScanOK
<1>1. ASSUME UNCHANGED tableVars PROVE OnlyKnownMacs'
  BY <1>1 DEF OnlyKnownMacs, Listed, tableVars
<1>2. CASE WifiTimer \/ L2Total \/ L2Done
  <2>1. UNCHANGED tableVars
    BY <1>2 DEF WifiTimer, L2Total, L2Done
  <2>2. poll'.a = ZeroMac
    <3>1. CASE WifiTimer
      BY <3>1 DEF WifiTimer, Idle
    <3>2. CASE L2Total
      BY <3>2 DEF L2Total
    <3>3. CASE L2Done
      BY <3>3 DEF L2Done, Idle
    <3> QED BY <1>2, <3>1, <3>2, <3>3
  <2> QED BY <1>1, <2>1, <2>2
<1>3. CASE L2NoMem
  BY <1>1, <1>3 DEF L2NoMem, UpdateFails, Idle
<1>4. CASE World
  BY <1>1, <1>4 DEF World, Join, Leave, Reconfigure, daemonVars
<1>5. CASE UNCHANGED vars
  BY <1>1, <1>5 DEF vars, daemonVars
<1>6. CASE L2Sta
  <2>1. PICK ip \in LeaseIp : um_user_update(l2info(ip))
    BY <1>6 DEF L2Sta
  <2>2. l2info(ip) \in Info /\ poll.at = "sta"
    BY <1>6, InfoType DEF L2Sta
  <2>3. l2info(ip).mac \in Sta \cup {ZeroMac, BssMac}
    BY <2>2, PolledMac DEF l2info
  <2>4. Listed' \subseteq Listed \cup {l2info(ip).mac}
    BY <2>1, <2>2, KnownKeepsMacs, NewAddsMac DEF um_user_update, Listed, Macs
  <2>5. ScanOK'
    BY <1>6 DEF L2Sta, Idle, DaemonTypeOK
  <2> QED BY <2>3, <2>4, <2>5 DEF OnlyKnownMacs
<1>7. CASE AgingTimer \/ Reload
  <2>1. aging \/ \E F : um_user_delby(F)
    BY <1>7 DEF AgingTimer, Reload
  <2>2. head'.list \subseteq head.list /\ \A u \in head'.list : user'[u].mac = user[u].mac
    BY <2>1, DeletionRemoves
  <2>3. Listed' \subseteq Listed
    BY <2>2 DEF Listed
  <2>4. poll' = poll
    BY <1>7 DEF AgingTimer, Reload
  <2> QED BY <2>3, <2>4 DEF OnlyKnownMacs
<1> QED BY <1>2, <1>3, <1>4, <1>5, <1>6, <1>7 DEF Next, Timers

\* However a dump shifts while it is polled, umd lists no mac but those of
\* stations and the two that l2user_timer can make up.
THEOREM DaemonOnlyKnownMacs == Spec => []OnlyKnownMacs
<1>1. Init => ScanOK /\ OnlyKnownMacs
  BY DEF Init, ScanOK, Idle, OnlyKnownMacs, Listed, TableInit, EmptyHead
<1>2. TableInv /\ DaemonTypeOK /\ ScanOK /\ OnlyKnownMacs /\ [Next]_vars => (ScanOK /\ OnlyKnownMacs)'
  BY KnownMacsStep
<1>3. Init => DaemonTypeOK
  BY DaemonTypeInit
<1>4. DaemonTypeOK /\ [Next]_vars => DaemonTypeOK'
  BY DaemonTypeStep
<1> QED BY <1>1, <1>2, <1>3, <1>4, DaemonImplementsTable, TableCorrect, PTL DEF Spec

-----------------------------------------------------------------------------
(***************************************************************************)
(* umd keeps a station that stays: the argument, for any number of         *)
(* stations, interfaces and configurations, that no poll, aging round or   *)
(* reload takes a station out of the table that a full poll has seen and   *)
(* that has not left since.                                                *)
(***************************************************************************)

\* What the property rests on: a user survives one aging round (um.key:
\* timer_agtimes 2), names determine numbers, and a configuration does not
\* have an interface on a radio it does not have.
WellConfigured ==
    /\ AgTimes >= 2
    /\ \A i, j \in Ifname : IfRadioId[i] = IfRadioId[j] /\ IfWlanId[i] = IfWlanId[j] => i = j
    /\ \A r, q \in Radio : RadioNum[r] = RadioNum[q] => r = q
    /\ \A c \in Configs : \A i \in c.wlan : \E r \in c.radio : RadioNum[r] = IfRadioId[i]

On(m, i) == m \in ToSet(air[i])

\* m has a user with n aging rounds left, with the radio and wlan of an
\* interface m is on.
Placed(m, n) ==
    \E u \in head.list, i \in Ifname :
        /\ user[u].mac = m /\ user[u].aging >= n
        /\ On(m, i)
        /\ user[u].radioid = IfRadioId[i] /\ user[u].wlanid = IfWlanId[i]

\* The poll has still to come to m.
Ahead(m) ==
    \/ \E i \in poll.todo : On(m, i)
    \/ poll.at = "sta" /\ \E k \in DOMAIN air[poll.ifname] :
         k \in poll.num..poll.total /\ m = air[poll.ifname][k]

\* Stations are on configured interfaces.
AirConfigured == conf \in Configs /\ \A i \in Ifname : air[i] # <<>> => i \in conf.wlan

\* Between a poll and the aging round a tracked station has a round to lose.
TrackedPlaced == \A m \in tracked : Placed(m, IF turn = "aging" THEN 2 ELSE 1)

\* A poll whose dump has not shifted has refreshed the stations behind it.
PolledOrAhead == poll.at # "idle" /\ ~shifted => \A m \in since : Ahead(m) \/ Placed(m, 2)

PollInTurn == poll.at # "idle" => turn = "wifi"

\* The inductive invariant, without the parts UserManagerProofs has shown.
TrackInv == AirConfigured /\ TrackedPlaced /\ PolledOrAhead /\ PollInTurn

Known == TableInv /\ DaemonTypeOK /\ ScanOK

-----------------------------------------------------------------------------
\* A station that is not the one removed is still in the dump.
LEMMA RemoveAtKeeps ==
    ASSUME NEW S, NEW s \in Seq(S), NEW k \in DOMAIN s, NEW x \in ToSet(s), x # s[k]
    PROVE  x \in ToSet(RemoveAt(s, k))
<1> DEFINE a == SubSeq(s, 1, k - 1)
           b == SubSeq(s, k + 1, Len(s))
<1>1. k \in 1..Len(s) /\ Len(s) \in Nat
  OBVIOUS
<1>2. a \in Seq(S) /\ Len(a) = k - 1 /\ \A i \in 1..(k - 1) : a[i] = s[i]
  <2>1. \A i \in 1..(k - 1) : s[i] \in S
    BY <1>1
  <2> QED BY <1>1, <2>1, SubSeqProperties
<1>3. b \in Seq(S) /\ Len(b) = Len(s) - k /\ \A i \in 1..(Len(s) - k) : b[i] = s[k + i]
  <2>1. \A i \in (k + 1)..Len(s) : s[i] \in S
    BY <1>1
  <2> QED BY <1>1, <2>1, SubSeqProperties
<1>4. PICK i \in 1..Len(s) : s[i] = x
  BY DEF ToSet
<1> HIDE DEF a, b
<1>5. /\ a \o b \in Seq(S) /\ Len(a \o b) = Len(a) + Len(b)
      /\ \A j \in 1..(Len(a) + Len(b)) :
           (a \o b)[j] = IF j <= Len(a) THEN a[j] ELSE b[j - Len(a)]
  BY <1>2, <1>3, ConcatProperties
<1>6. RemoveAt(s, k) = a \o b
  BY DEF RemoveAt, a, b
<1>7. CASE i < k
  <2>1. i \in 1..(Len(a) + Len(b)) /\ i <= Len(a) /\ i \in 1..(k - 1)
    BY <1>1, <1>2, <1>3, <1>7
  <2>2. (a \o b)[i] = x
    BY <2>1, <1>2, <1>4, <1>5
  <2> QED BY <2>1, <2>2, <1>5, <1>6 DEF ToSet
<1>8. CASE i > k
  <2>1. /\ i - 1 \in 1..(Len(a) + Len(b)) /\ ~(i - 1 <= Len(a))
        /\ i - 1 - Len(a) = i - k /\ i - k \in 1..(Len(s) - k) /\ k + (i - k) = i
    BY <1>1, <1>2, <1>3, <1>8
  <2>2. (a \o b)[i - 1] = b[i - k]
    BY <2>1, <1>5
  <2>3. b[i - k] = x
    BY <2>1, <1>3, <1>4
  <2>4. i - 1 \in DOMAIN (a \o b)
    BY <2>1, <1>5
  <2>5. (a \o b)[i - 1] = x
    BY <2>2, <2>3
  <2> QED BY <2>4, <2>5, <1>6, Zenon DEF ToSet
<1>9. i < k \/ i > k
  <2>1. i # k /\ i \in Int /\ k \in Int
    BY <1>1, <1>4
  <2> QED BY <2>1
<1> QED BY <1>7, <1>8, <1>9

\* um_user_update lists the station it is given with all its aging rounds and
\* leaves the users of the others alone.
LEMMA UpdateRefreshes ==
    ASSUME TableInv, NEW info \in Info, um_user_update(info)
    PROVE  \E u \in Users :
             /\ head'.list = head.list \cup {u}
             /\ u \in head.list => user[u].mac = info.mac
             /\ user'[u].mac = info.mac /\ user'[u].aging = AgTimes
             /\ user'[u].radioid = info.radioid /\ user'[u].wlanid = info.wlanid
             /\ \A v \in head.list : v # u => user'[v] = user[v]
<1>1. user \in [Users -> UserRecord] /\ head.list \subseteq Users /\ info.mac \in Mac
  BY DEF TableInv, TableTypeOK, Info
<1>2. CASE UpdateKnown(info)
  <2>1. PICK u \in um_user_getbymac(info.mac) : reinsert(u, user[u], info)
    BY <1>2 DEF UpdateKnown
  <2>2. u \in head.list /\ user[u].mac = info.mac
    BY <1>1, <2>1, LookupByMac
  <2>3. head'.list = head.list \cup {u}
    BY <2>1, <2>2 DEF reinsert, insert, remove
  <2>4. user' = [user EXCEPT ![u] = l2user_update(user[u], info)]
    BY <2>1 DEF reinsert
  <2> QED BY <1>1, <2>2, <2>3, <2>4 DEF l2user_update
<1>3. CASE UpdateNew(info)
  <2> DEFINE u == NewUser
  <2>1. u \in Users /\ u \notin head.list
    BY <1>3 DEF UpdateNew, NewUser
  <2>2. reinsert(u, create(info.mac), info)
    BY <1>3 DEF UpdateNew
  <2> HIDE DEF u
  <2>3. head'.list = head.list \cup {u}
    BY <2>1, <2>2 DEF reinsert, insert, remove
  <2>4. user' = [user EXCEPT ![u] = l2user_update(create(info.mac), info)]
    BY <2>2 DEF reinsert
  <2>5. create(info.mac).mac = info.mac
    BY DEF create, um_user_init
  <2> QED BY <1>1, <2>1, <2>3, <2>4, <2>5 DEF l2user_update
<1> QED BY <1>2, <1>3 DEF um_user_update

-----------------------------------------------------------------------------
\* A change of the dumps that keeps the lines of the tracked stations keeps
\* them placed, and ahead of a poll whose dump has not shifted.
LEMMA AirStep ==
    ASSUME Known, TrackInv, UNCHANGED tableVars, UNCHANGED daemonVars,
           since' \subseteq since, tracked' \subseteq tracked, ~shifted' => ~shifted,
           \A m \in since' \cup tracked' : \A i \in Ifname : On(m, i) => On(m, i)',
           ~shifted' /\ poll.at = "sta" =>
               \A m \in since' : \A k \in DOMAIN air[poll.ifname] :
                   m = air[poll.ifname][k] =>
                       k \in DOMAIN air'[poll.ifname] /\ m = air'[poll.ifname][k]
    PROVE  TrackedPlaced' /\ PolledOrAhead' /\ PollInTurn'
<1>1. /\ head' = head /\ user' = user /\ poll' = poll /\ turn' = turn
      /\ poll.todo \subseteq Ifname
  BY DEF tableVars, daemonVars, Known, DaemonTypeOK
<1>2. ASSUME NEW m \in since' \cup tracked', NEW n, Placed(m, n) PROVE Placed(m, n)'
  <2>1. PICK u \in head.list, i \in Ifname :
          /\ user[u].mac = m /\ user[u].aging >= n /\ On(m, i)
          /\ user[u].radioid = IfRadioId[i] /\ user[u].wlanid = IfWlanId[i]
    BY <1>2 DEF Placed
  <2>2. On(m, i)'
    BY <2>1
  <2> QED BY <1>1, <2>1, <2>2 DEF Placed
<1>3. TrackedPlaced'
  BY <1>1, <1>2 DEF TrackedPlaced, TrackInv
<1>4. PolledOrAhead'
  <2> SUFFICES ASSUME poll'.at # "idle", ~shifted', NEW m \in since'
               PROVE  Ahead(m)' \/ Placed(m, 2)'
    BY DEF PolledOrAhead
  <2>1. Ahead(m) \/ Placed(m, 2)
    BY <1>1 DEF TrackInv, PolledOrAhead
  <2>2. CASE Placed(m, 2)
    BY <1>2, <2>2
  <2>3. CASE \E i \in poll.todo : On(m, i)
    BY <1>1, <2>3 DEF Ahead
  <2>4. CASE poll.at = "sta" /\ \E k \in DOMAIN air[poll.ifname] :
               k \in poll.num..poll.total /\ m = air[poll.ifname][k]
    BY <1>1, <2>4 DEF Ahead
  <2> QED BY <2>1, <2>2, <2>3, <2>4 DEF Ahead
<1>5. PollInTurn'
  BY <1>1 DEF TrackInv, PollInTurn
<1> QED BY <1>3, <1>4, <1>5

\* A new station does not disturb the others.
LEMMA JoinKeeps ==
    ASSUME Known, TrackInv, Join
    PROVE  TrackInv'
<1>1. PICK i \in conf.wlan, m \in Sta \ OnAir(Ifname) :
        \/ air' = [air EXCEPT ![i] = Append(@, m)] /\ UNCHANGED shifted
        \/ air' = [air EXCEPT ![i] = <<m>> \o @] /\ Shift(i)
  BY DEF Join
<1>2. /\ i \in Ifname /\ air \in [Ifname -> Seq(Sta)] /\ air[i] \in Seq(Sta) /\ m \in Sta
      /\ poll.ifname \in Ifname
  BY DEF Known, DaemonTypeOK, Names
<1>3. UNCHANGED <<tableVars, daemonVars, conf, since, tracked>>
  BY DEF Join
<1>4. AirConfigured'
  BY <1>1, <1>2, <1>3 DEF TrackInv, AirConfigured
<1>5. CASE air' = [air EXCEPT ![i] = Append(@, m)] /\ UNCHANGED shifted
  <2>1. \A j \in Ifname : \A k \in DOMAIN air[j] : k \in DOMAIN air'[j] /\ air'[j][k] = air[j][k]
    BY <1>2, <1>5
  <2>2. \A x, j : j \in Ifname /\ On(x, j) => On(x, j)'
    BY <2>1 DEF On, ToSet
  <2>3. TrackedPlaced' /\ PolledOrAhead' /\ PollInTurn'
    BY <1>2, <1>3, <1>5, <2>1, <2>2, AirStep
  <2> QED BY <1>4, <2>3 DEF TrackInv
<1>6. CASE air' = [air EXCEPT ![i] = <<m>> \o @] /\ Shift(i)
  <2>1. air'[i] = <<m>> \o air[i] /\ \A j \in Ifname : j # i => air'[j] = air[j]
    BY <1>2, <1>6
  <2>2. \A k \in DOMAIN air[i] : k + 1 \in DOMAIN air'[i] /\ air'[i][k + 1] = air[i][k]
    BY <1>2, <2>1
  <2>3. \A x, j : j \in Ifname /\ On(x, j) => On(x, j)'
    BY <2>1, <2>2 DEF On, ToSet
  <2>4. /\ ~shifted' => ~shifted
        /\ ~shifted' /\ poll.at = "sta" => air'[poll.ifname] = air[poll.ifname]
    BY <1>2, <1>6, <2>1 DEF Shift
  <2>5. TrackedPlaced' /\ PolledOrAhead' /\ PollInTurn'
    BY <1>3, <2>3, <2>4, AirStep
  <2> QED BY <1>4, <2>5 DEF TrackInv
<1> QED BY <1>1, <1>5, <1>6

\* A station that leaves is forgotten; if the poll reads its dump, the poll
\* is, too.
LEMMA LeaveKeeps ==
    ASSUME Known, TrackInv, Leave
    PROVE  TrackInv'
<1>1. PICK i \in Ifname : \E k \in DOMAIN air[i] :
        air' = [air EXCEPT ![i] = RemoveAt(@, k)] /\ Shift(i) /\ Forget({air[i][k]})
  BY DEF Leave
<1>2. PICK k \in DOMAIN air[i] :
        air' = [air EXCEPT ![i] = RemoveAt(@, k)] /\ Shift(i) /\ Forget({air[i][k]})
  BY <1>1
<1>3. air \in [Ifname -> Seq(Sta)] /\ air[i] \in Seq(Sta) /\ poll.ifname \in Ifname
  BY DEF Known, DaemonTypeOK
<1>4. UNCHANGED <<tableVars, daemonVars, conf>>
  BY DEF Leave
<1>5. air'[i] = RemoveAt(air[i], k) /\ \A j \in Ifname : j # i => air'[j] = air[j]
  BY <1>2, <1>3
<1>6. AirConfigured'
  <2>1. air[i] # <<>>
    BY <1>3
  <2> QED BY <1>4, <1>5, <2>1 DEF TrackInv, AirConfigured
<1>7. since' = since \ {air[i][k]} /\ tracked' = tracked \ {air[i][k]}
  BY <1>2 DEF Forget
<1>8. \A m \in since' \cup tracked' : \A j \in Ifname : On(m, j) => On(m, j)'
  <2> SUFFICES ASSUME NEW m \in since' \cup tracked', NEW j \in Ifname, On(m, j)
               PROVE  On(m, j)'
    OBVIOUS
  <2>1. CASE j = i
    <3>1. m # air[i][k] /\ m \in ToSet(air[i])
      BY <1>7, <2>1 DEF On
    <3>2. m \in ToSet(RemoveAt(air[i], k))
      BY <1>3, <3>1, RemoveAtKeeps
    <3> QED BY <1>5, <2>1, <3>2 DEF On
  <2>2. CASE j # i
    BY <1>5, <2>2 DEF On
  <2> QED BY <2>1, <2>2
<1>9. /\ ~shifted' => ~shifted
      /\ ~shifted' /\ poll.at = "sta" => air'[poll.ifname] = air[poll.ifname]
  BY <1>2, <1>3, <1>5 DEF Shift
<1>10. TrackedPlaced' /\ PolledOrAhead' /\ PollInTurn'
  BY <1>4, <1>7, <1>8, <1>9, AirStep
<1> QED BY <1>6, <1>10 DEF TrackInv

\* The stations of an interface that goes are forgotten.
LEMMA ReconfigureKeeps ==
    ASSUME Known, TrackInv, Reconfigure
    PROVE  TrackInv'
<1>1. PICK c \in Configs \ {conf} :
        /\ conf' = c
        /\ air' = [i \in Ifname |-> IF i \in conf.wlan \ c.wlan THEN <<>> ELSE air[i]]
        /\ Forget(OnAir(conf.wlan \ c.wlan))
  BY DEF Reconfigure
<1>2. poll.ifname \in Ifname /\ conf.wlan \subseteq Ifname
  BY DEF Known, DaemonTypeOK, Names
<1>3. UNCHANGED <<tableVars, daemonVars, shifted>>
  BY DEF Reconfigure
<1>4. AirConfigured'
  BY <1>1 DEF TrackInv, AirConfigured
<1>5. /\ since' = since \ OnAir(conf.wlan \ c.wlan)
      /\ tracked' = tracked \ OnAir(conf.wlan \ c.wlan)
  BY <1>1 DEF Forget
<1>6. \A m \in since' \cup tracked' : \A i \in Ifname : On(m, i) => air'[i] = air[i]
  BY <1>1, <1>5 DEF On, OnAir
<1>7. \A m \in since' \cup tracked' : \A i \in Ifname : On(m, i) => On(m, i)'
  BY <1>6 DEF On
<1>8. \A k \in DOMAIN air[poll.ifname] : On(air[poll.ifname][k], poll.ifname)
  BY DEF On, ToSet
<1>9. \A m \in since' : \A k \in DOMAIN air[poll.ifname] :
        m = air[poll.ifname][k] => k \in DOMAIN air'[poll.ifname] /\ m = air'[poll.ifname][k]
  BY <1>2, <1>6, <1>8
<1>10. TrackedPlaced' /\ PolledOrAhead' /\ PollInTurn'
  BY <1>3, <1>5, <1>7, <1>9, AirStep
<1> QED BY <1>4, <1>10 DEF TrackInv

-----------------------------------------------------------------------------
\* A poll begins with all its stations ahead, and at an interface it has the
\* stations of its dump ahead.
LEMMA PollBeginKeeps ==
    ASSUME Known, TrackInv, WifiTimer \/ L2Total
    PROVE  TrackInv'
<1>1. UNCHANGED <<tableVars, turn, air, conf, tracked>>
  BY DEF WifiTimer, L2Total, worldVars, history
<1>2. AirConfigured'
  BY <1>1 DEF TrackInv, AirConfigured
<1>3. \A m, n : Placed(m, n)' <=> Placed(m, n)
  BY <1>1 DEF Placed, On, tableVars
<1>4. TrackedPlaced'
  BY <1>1, <1>3 DEF TrackInv, TrackedPlaced
<1>5. CASE WifiTimer
  <2>1. poll'.todo = cfg.wlan /\ since' = OnAir(cfg.wlan) /\ turn = "wifi"
    BY <1>5 DEF WifiTimer, Idle
  <2>2. \A m \in since' : Ahead(m)'
    BY <1>1, <2>1 DEF Ahead, On, OnAir
  <2> QED BY <1>1, <1>2, <1>4, <2>1, <2>2 DEF TrackInv, PolledOrAhead, PollInTurn
<1>6. CASE L2Total
  <2>1. PICK i \in poll.todo :
          poll' = [at |-> IF air[i] = <<>> THEN "intf" ELSE "sta",
                   todo |-> poll.todo \ {i}, ifname |-> i,
                   num |-> 1, total |-> Len(air[i]), a |-> ZeroMac]
    BY <1>6 DEF L2Total
  <2>2. poll.at = "intf" /\ since' = since /\ shifted' = shifted
    BY <1>6 DEF L2Total, history
  <2>3. air[i] \in Seq(Sta)
    BY DEF Known, DaemonTypeOK
  <2>4. ASSUME NEW m, Ahead(m) PROVE Ahead(m)'
    <3>1. PICK j \in poll.todo : On(m, j)
      BY <2>2, <2>4 DEF Ahead
    <3>2. CASE j = i
      <4>1. PICK k \in DOMAIN air[i] : m = air[i][k]
        BY <3>1, <3>2 DEF On, ToSet
      <4>2. air[i] # <<>> /\ k \in 1..Len(air[i])
        BY <2>3, <4>1
      <4> QED BY <1>1, <2>1, <4>1, <4>2 DEF Ahead
    <3>3. CASE j # i
      <4>1. j \in poll'.todo /\ On(m, j)'
        BY <1>1, <2>1, <3>1, <3>3 DEF On
      <4> QED BY <4>1 DEF Ahead
    <3> QED BY <3>2, <3>3
  <2>5. PolledOrAhead'
    BY <1>3, <2>2, <2>4 DEF TrackInv, PolledOrAhead
  <2>6. PollInTurn'
    BY <1>1, <2>2 DEF TrackInv, PollInTurn
  <2> QED BY <1>2, <1>4, <2>5, <2>6 DEF TrackInv
<1> QED BY <1>5, <1>6

\* A round of the poll refreshes the station it reads and no other.
LEMMA PollRoundKeeps ==
    ASSUME WellConfigured, Known, TrackInv, L2Sta
    PROVE  TrackInv'
<1>1. /\ poll.at = "sta" /\ UNCHANGED <<turn, air, conf, since, shifted, tracked>>
  BY DEF L2Sta, worldVars, history
<1>2. /\ air \in [Ifname -> Seq(Sta)] /\ poll.ifname \in Ifname /\ poll.num \in Nat
      /\ poll.num >= 1 /\ poll.total \in Nat /\ since \subseteq Sta /\ tracked \subseteq Sta
      /\ user \in [Users -> UserRecord] /\ head.list \subseteq Users
  BY <1>1 DEF Known, DaemonTypeOK, TableInv, TableTypeOK
<1>3. PICK ip \in LeaseIp : um_user_update(l2info(ip))
  BY DEF L2Sta
<1>4. l2info(ip) \in Info
  BY <1>1, InfoType DEF Known
<1>5. PICK mac \in Mac : mac = get_sta_macaddr /\ mac = l2info(ip).mac
  BY <1>4 DEF l2info, Info
<1>6. PICK u \in Users :
        /\ head'.list = head.list \cup {u}
        /\ u \in head.list => user[u].mac = mac
        /\ user'[u].mac = mac /\ user'[u].aging = AgTimes
        /\ user'[u].radioid = IfRadioId[poll.ifname] /\ user'[u].wlanid = IfWlanId[poll.ifname]
        /\ \A v \in head.list : v # u => user'[v] = user[v]
  <2>1. l2info(ip).radioid = IfRadioId[poll.ifname] /\ l2info(ip).wlanid = IfWlanId[poll.ifname]
    BY DEF l2info
  <2> QED BY <1>3, <1>4, <1>5, <2>1, UpdateRefreshes DEF Known
<1>7. mac \in Sta => poll.num \in DOMAIN air[poll.ifname] /\ mac = air[poll.ifname][poll.num]
  <2>1. ZeroMac \notin Sta /\ BssMac \notin Sta
    BY StaAssumption DEF is_good_mac
  <2>2. CASE poll.num <= Len(air[poll.ifname])
    BY <1>2, <1>5, <2>2 DEF get_sta_macaddr
  <2>3. CASE ~(poll.num <= Len(air[poll.ifname]))
    BY <1>5, <2>1, <2>3 DEF get_sta_macaddr, Known, ScanOK
  <2> QED BY <2>2, <2>3
<1>8. ASSUME mac \in Sta, NEW n \in {1, 2} PROVE Placed(mac, n)'
  <2>1. mac \in ToSet(air'[poll.ifname])
    BY <1>1, <1>7, <1>8 DEF ToSet
  <2>2. AgTimes >= n
    BY <1>8, AgTimesAssumption DEF WellConfigured
  <2>3. u \in head'.list /\ user'[u].aging >= n
    BY <1>6, <2>2
  <2> QED BY <1>2, <1>6, <2>1, <2>3 DEF Placed, On
<1>9. ASSUME NEW m \in Sta, NEW n \in {1, 2}, Placed(m, n) PROVE Placed(m, n)'
  <2>1. PICK v \in head.list, i \in Ifname :
          /\ user[v].mac = m /\ user[v].aging >= n /\ On(m, i)
          /\ user[v].radioid = IfRadioId[i] /\ user[v].wlanid = IfWlanId[i]
    BY <1>9 DEF Placed
  <2>2. CASE v = u
    <3>1. mac = m
      BY <1>6, <2>1, <2>2
    <3> QED BY <1>8, <1>9, <3>1
  <2>3. CASE v # u
    <3>1. v \in head'.list /\ user'[v] = user[v] /\ On(m, i)'
      BY <1>1, <1>6, <2>1, <2>3 DEF On
    <3> QED BY <2>1, <3>1 DEF Placed
  <2> QED BY <2>2, <2>3
<1>10. TrackedPlaced'
  BY <1>1, <1>2, <1>9 DEF TrackInv, TrackedPlaced
<1>11. PolledOrAhead'
  <2> SUFFICES ASSUME ~shifted, NEW m \in since
               PROVE  Ahead(m)' \/ Placed(m, 2)'
    BY <1>1 DEF PolledOrAhead
  <2>1. Ahead(m) \/ Placed(m, 2)
    BY <1>1 DEF TrackInv, PolledOrAhead
  <2>2. CASE Placed(m, 2)
    BY <1>2, <1>9, <2>2
  <2>3. CASE \E i \in poll.todo : On(m, i)
    <3>1. poll'.todo = poll.todo
      BY <1>2 DEF L2Sta, Idle, Known, DaemonTypeOK
    <3> QED BY <1>1, <2>3, <3>1 DEF Ahead, On
  <2>4. ASSUME NEW k \in DOMAIN air[poll.ifname], k \in poll.num..poll.total,
               m = air[poll.ifname][k]
        PROVE  Ahead(m)' \/ Placed(m, 2)'
    <3>1. CASE k = poll.num
      <4>1. mac = m
        BY <1>2, <1>5, <2>4, <3>1 DEF get_sta_macaddr
      <4> QED BY <1>2, <1>8, <4>1
    <3>2. CASE k # poll.num
      <4>1. poll.num < poll.total /\ k \in (poll.num + 1)..poll.total
        BY <1>2, <2>4, <3>2
      <4>2. poll' = [poll EXCEPT !.num = poll.num + 1, !.a = BssMac]
        BY <4>1 DEF L2Sta
      <4>3. /\ poll'.at = "sta" /\ poll'.ifname = poll.ifname
            /\ poll'.num = poll.num + 1 /\ poll'.total = poll.total
        BY <1>1, <4>2 DEF Known, DaemonTypeOK
      <4> QED BY <1>1, <2>4, <4>1, <4>3 DEF Ahead
    <3> QED BY <3>1, <3>2
  <2> QED BY <2>1, <2>2, <2>3, <2>4 DEF Ahead
<1>12. AirConfigured' /\ PollInTurn'
  BY <1>1 DEF TrackInv, AirConfigured, PollInTurn
<1> QED BY <1>10, <1>11, <1>12 DEF TrackInv

\* At its end a poll whose dump has not shifted has placed all its stations.
LEMMA PollEndKeeps ==
    ASSUME Known, TrackInv, L2Done \/ L2NoMem
    PROVE  TrackInv'
<1>1. UNCHANGED <<tableVars, air, conf>> /\ poll'.at = "idle"
  BY DEF L2Done, L2NoMem, UpdateFails, Idle, worldVars
<1>2. AirConfigured' /\ PollInTurn' /\ PolledOrAhead'
  BY <1>1 DEF TrackInv, AirConfigured, PollInTurn, PolledOrAhead
<1>3. CASE L2NoMem
  BY <1>2, <1>3 DEF L2NoMem, TrackInv, TrackedPlaced
<1>4. CASE L2Done
  <2>1. poll.at = "intf" /\ poll.todo = {} /\ turn' = "aging"
        /\ tracked' = IF shifted THEN {} ELSE since
    BY <1>4 DEF L2Done
  <2>2. \A m \in tracked' : Placed(m, 2)
    BY <2>1 DEF TrackInv, PolledOrAhead, Ahead
  <2>3. TrackedPlaced'
    BY <1>1, <2>1, <2>2 DEF TrackedPlaced, Placed, On, tableVars
  <2> QED BY <1>2, <2>3 DEF TrackInv
<1> QED BY <1>3, <1>4

\* An aging round takes one of the two rounds a tracked station has.
LEMMA AgingKeeps ==
    ASSUME Known, TrackInv, AgingTimer
    PROVE  TrackInv'
<1>1. /\ poll.at = "idle" /\ turn = "aging" /\ turn' = "wifi"
      /\ UNCHANGED <<poll, air, conf, tracked>>
  BY DEF AgingTimer, worldVars, history
<1>2. user \in [Users -> UserRecord] /\ head.list \subseteq Users
  BY DEF Known, TableInv, TableTypeOK
<1>3. AirConfigured' /\ PollInTurn' /\ PolledOrAhead'
  BY <1>1 DEF TrackInv, AirConfigured, PollInTurn, PolledOrAhead
<1> DEFINE D == {u \in head.list : user[u].local /\ aged(u).aging <= 0}
           usr == [u \in Users |-> IF u \in head.list THEN aged(u) ELSE user[u]]
<1>4. delete(D, usr)
  BY DEF AgingTimer, aging
<1>5. ASSUME NEW u \in head.list, user[u].aging >= 2
      PROVE  /\ u \in head'.list /\ user'[u].aging >= 1 /\ user'[u].mac = user[u].mac
             /\ user'[u].radioid = user[u].radioid /\ user'[u].wlanid = user[u].wlanid
  <2>1. user[u] \in UserRecord /\ user[u].aging \in Int
    BY <1>2 DEF UserRecord
  <2>2. /\ aged(u).aging >= 1 /\ aged(u).aging \in Int /\ aged(u).mac = user[u].mac
        /\ aged(u).radioid = user[u].radioid /\ aged(u).wlanid = user[u].wlanid
    <3>1. CASE user[u].local
      <4>1. aged(u) = [user[u] EXCEPT !.aging = user[u].aging - 1]
        BY <3>1 DEF aged
      <4> QED BY <1>5, <2>1, <4>1 DEF UserRecord
    <3>2. CASE ~user[u].local
      BY <1>5, <2>1, <3>2 DEF aged
    <3> QED BY <3>1, <3>2
  <2>3. u \notin D
    BY <2>2
  <2>4. u \in head'.list
    BY <1>4, <2>3 DEF delete, remove
  <2>5. user'[u] = aged(u)
    BY <1>2, <1>4, <2>3 DEF delete
  <2> QED BY <2>2, <2>4, <2>5
<1> HIDE DEF D, usr
<1>6. TrackedPlaced'
  <2> SUFFICES ASSUME NEW m \in tracked PROVE Placed(m, 1)'
    BY <1>1 DEF TrackedPlaced
  <2>1. PICK u \in head.list, i \in Ifname :
          /\ user[u].mac = m /\ user[u].aging >= 2 /\ On(m, i)
          /\ user[u].radioid = IfRadioId[i] /\ user[u].wlanid = IfWlanId[i]
    BY <1>1 DEF TrackInv, TrackedPlaced, Placed
  <2>2. On(m, i)'
    BY <1>1, <2>1 DEF On
  <2> QED BY <1>5, <2>1, <2>2 DEF Placed
<1> QED BY <1>3, <1>6 DEF TrackInv

\* A reload deletes the users of radios and interfaces that are not in the
\* configuration; a tracked station is on one that is.
LEMMA ReloadKeeps ==
    ASSUME WellConfigured, Known, TrackInv, Reload
    PROVE  TrackInv'
<1>1. poll.at = "idle" /\ UNCHANGED <<poll, turn, air, conf, tracked>>
  BY DEF Reload, worldVars
<1>2. AirConfigured' /\ PollInTurn' /\ PolledOrAhead'
  BY <1>1 DEF TrackInv, AirConfigured, PollInTurn, PolledOrAhead
<1> DEFINE F == {radioFilter(r) : r \in dropped("radio")} \cup {wlanFilter(i) : i \in dropped("wlan")}
           D == {u \in head.list : \E f \in F : match(u, f)}
<1>3. delete(D, user)
  BY DEF Reload, um_user_delby
<1>4. /\ user \in [Users -> UserRecord] /\ head.list \subseteq Users
      /\ dropped("radio") \subseteq Radio \ conf.radio
      /\ dropped("wlan") \subseteq Ifname \ conf.wlan
      /\ conf.radio \subseteq Radio /\ conf.wlan \subseteq Ifname
  BY DEF Known, TableInv, TableTypeOK, DaemonTypeOK, Names, dropped, loaded
<1>5. ASSUME NEW u \in head.list, NEW i \in conf.wlan,
             user[u].radioid = IfRadioId[i], user[u].wlanid = IfWlanId[i]
      PROVE  u \notin D
  <2>1. PICK q \in conf.radio : RadioNum[q] = IfRadioId[i]
    BY DEF WellConfigured, TrackInv, AirConfigured
  <2>2. ASSUME NEW r \in dropped("radio") PROVE ~match(u, radioFilter(r))
    <3>1. RadioNum[r] # IfRadioId[i]
      BY <1>4, <2>1 DEF WellConfigured
    <3>2. RadioNum[r] \in Nat
      BY <1>4, NameAssumption, IdAssumption
    <3> QED BY <1>5, <3>1, <3>2 DEF match, radioFilter
  <2>3. ASSUME NEW j \in dropped("wlan") PROVE ~match(u, wlanFilter(j))
    <3>1. ~(IfRadioId[j] = IfRadioId[i] /\ IfWlanId[j] = IfWlanId[i])
      BY <1>4 DEF WellConfigured
    <3>2. IfRadioId[j] \in Nat /\ IfWlanId[j] \in Nat
      BY <1>4, NameAssumption, IdAssumption
    <3> QED BY <1>5, <3>1, <3>2 DEF match, wlanFilter
  <2> QED BY <2>2, <2>3
<1>6. ASSUME NEW u \in head.list, u \notin D PROVE u \in head'.list /\ user'[u] = user[u]
  BY <1>3, <1>4, <1>6 DEF delete, remove
<1> HIDE DEF D, F
<1>7. TrackedPlaced'
  <2> SUFFICES ASSUME NEW m \in tracked, NEW n, n = IF turn = "aging" THEN 2 ELSE 1
               PROVE  Placed(m, n)'
    BY <1>1 DEF TrackedPlaced
  <2>1. PICK u \in head.list, i \in Ifname :
          /\ user[u].mac = m /\ user[u].aging >= n /\ On(m, i)
          /\ user[u].radioid = IfRadioId[i] /\ user[u].wlanid = IfWlanId[i]
    BY DEF TrackInv, TrackedPlaced, Placed
  <2>2. i \in conf.wlan
    <3>1. air[i] # <<>>
      BY <2>1 DEF On, ToSet
    <3> QED BY <3>1 DEF TrackInv, AirConfigured
  <2>3. u \in head'.list /\ user'[u] = user[u]
    BY <1>5, <1>6, <2>1, <2>2
  <2>4. On(m, i)'
    BY <1>1, <2>1 DEF On
  <2> QED BY <2>1, <2>3, <2>4 DEF Placed
<1> QED BY <1>2, <1>7 DEF TrackInv

-----------------------------------------------------------------------------
\* Every step keeps the invariant.
LEMMA TrackStep ==
    ASSUME WellConfigured, Known, TrackInv, [Next]_vars
    PROVE  TrackInv'
<1>1. CASE UNCHANGED vars
  BY <1>1 DEF vars, tableVars, daemonVars, worldVars, history, TrackInv, AirConfigured,
              TrackedPlaced, PolledOrAhead, PollInTurn, Placed, Ahead, On
<1>2. CASE Timers
  BY <1>2, PollBeginKeeps, PollRoundKeeps, PollEndKeeps, AgingKeeps DEF Timers
<1>3. CASE World
  BY <1>3, JoinKeeps, LeaveKeeps, ReconfigureKeeps DEF World
<1> QED BY <1>1, <1>2, <1>3, ReloadKeeps DEF Next

\* A station that stays since a poll that saw all of its dump is kept in the
\* table until it leaves or a poll fails, however polls, aging rounds,
\* reloads, arrivals and departures interleave (um_l2user_timer, aging_cb,
\* um_uci_load).
THEOREM StationKept == WellConfigured => (Spec => []PresentStationKept)
<1> SUFFICES ASSUME WellConfigured PROVE Spec => []PresentStationKept
  OBVIOUS
<1>1. Init => DaemonTypeOK /\ ScanOK /\ OnlyKnownMacs
  BY DaemonTypeInit DEF Init, ScanOK, Idle, OnlyKnownMacs, Listed, TableInit, EmptyHead
<1>2. Init => TrackInv
  BY DEF Init, Idle, TrackInv, AirConfigured, TrackedPlaced, PolledOrAhead, PollInTurn
<1>3. DaemonTypeOK /\ [Next]_vars => DaemonTypeOK'
  BY DaemonTypeStep
<1>4. TableInv /\ DaemonTypeOK /\ ScanOK /\ OnlyKnownMacs /\ [Next]_vars => (ScanOK /\ OnlyKnownMacs)'
  BY KnownMacsStep
<1>5. TableInv /\ DaemonTypeOK /\ ScanOK /\ TrackInv /\ [Next]_vars => TrackInv'
  BY TrackStep DEF Known
<1>6. TrackInv => PresentStationKept
  BY DEF TrackInv, TrackedPlaced, Placed, PresentStationKept, Listed
<1> QED BY <1>1, <1>2, <1>3, <1>4, <1>5, <1>6, DaemonImplementsTable, TableCorrect, PTL DEF Spec
=============================================================================
