---------------------------- MODULE UmUbusProofs ----------------------------
(***************************************************************************)
(* What umd tells its subscribers and its callers over ubus is true of the *)
(* user table, for any stations, filters and hash functions and for a      *)
(* connection that may go down at any time.                                *)
(***************************************************************************)
EXTENDS UmUbus, UserTableProofs

\* The inductive invariant: the table must be consistent for the answers and
\* the notifications to be about it.
UbusInv ==
    /\ TableInv
    /\ UbusTypeOK
    /\ SubscriberExact
    /\ HitIsAnswered

-----------------------------------------------------------------------------
\* The messages umd sends are well formed.
LEMMA MessageTypes ==
    /\ \A m \in Mac : UserMsg(m) \in Message
    /\ \A M \in SUBSET Mac : UsersMsg(M) \in Message
    /\ SectionMsg \in Message
<1>1. \A m \in Mac : {m} \in SUBSET Mac
  OBVIOUS
<1> QED BY <1>1 DEF UserMsg, UsersMsg, SectionMsg, Message

\* The users in the list have macs.
LEMMA ListedMacs ==
    ASSUME TableInv
    PROVE  /\ head.list \subseteq Users
           /\ \A u \in Users : user[u].mac \in Mac /\ user[u].ip \in Ip
           /\ Listed \subseteq Mac
BY DEF TableInv, TableTypeOK, UserRecord, Listed

\* A lookup by ip returns exactly the listed users with that ip, unless the
\* ip is zero.
LEMMA LookupByIp ==
    ASSUME TableInv, NEW i \in Ip
    PROVE  um_user_getbyip(i) = {u \in head.list : user[u].ip = i /\ i # ZeroIp}
<1>1. head.list \subseteq Users /\ HashIp[i] \in Bucket /\ head.ip[HashIp[i]] \subseteq Users
  BY HashAssumption DEF TableInv, TableTypeOK
<1>2. \A u \in Users : u \in head.ip[HashIp[i]] <=>
          /\ u \in head.list
          /\ user[u].ip # ZeroIp
          /\ HashIp[i] = HashIp[user[u].ip]
  BY <1>1 DEF TableInv, IndexConsistent
<1> QED
  BY <1>1, <1>2 DEF um_user_getbyip

-----------------------------------------------------------------------------
\* The macs of the users that a step takes out of the list.
Gone == {user[u].mac : u \in head.list \ head'.list}

\* The um.delete events of a deletion bring an exact subscriber to the
\* smaller table: because macs are unique, a mac that goes is gone.
LEMMA RemovedKeepsSubscriber ==
    ASSUME UbusInv, aging \/ \E F : um_user_delby(F), NEW before \in Message, Removed(before)
    PROVE  /\ buf' \in Message /\ sub' \in SUBSET Mac /\ lost' \in BOOLEAN
           /\ SubscriberExact'
<1>1. TableInv /\ UbusTypeOK
  BY DEF UbusInv
<1>2. head'.list \subseteq head.list /\ \A u \in head'.list : user'[u].mac = user[u].mac
  BY <1>1, DeletionRemoves
<1>3. Gone \subseteq Mac
  BY <1>1, ListedMacs DEF Gone
<1>4. \A m \in Mac : is_good_mac(m) => (m \in Listed' <=> m \in Listed /\ m \notin Gone)
  BY <1>1, <1>2 DEF Listed, Gone, TableInv, MacUnique
<1>5. CASE Gone = {}
  <2>1. buf' = before /\ sub' = sub /\ lost' = lost
    BY <1>5 DEF Removed, Gone
  <2>2. SubscriberExact'
    BY <2>1, <1>4, <1>5 DEF UbusInv, SubscriberExact
  <2> QED BY <2>1, <2>2, <1>1 DEF UbusTypeOK
<1>6. CASE Gone # {}
  <2>1. (\E m \in Gone : buf' = UserMsg(m)) /\ notify(sub \ Gone)
    BY <1>6 DEF Removed, Gone
  <2>2. sub' = (IF link THEN sub \ Gone ELSE sub) /\ lost' = (lost \/ ~link)
    BY <2>1 DEF notify
  <2>3. SubscriberExact'
    BY <2>2, <1>4 DEF UbusInv, SubscriberExact
  <2>4. buf' \in Message
    BY <2>1, <1>3, MessageTypes
  <2>5. sub' \in SUBSET Mac
    BY <2>2, <1>1 DEF UbusTypeOK
  <2>6. lost' \in BOOLEAN
    BY <2>2
  <2> QED BY <2>3, <2>4, <2>5, <2>6
<1> QED BY <1>5, <1>6

-----------------------------------------------------------------------------
\* Every step keeps the table consistent.
LEMMA UbusStepTable ==
    ASSUME TableInv, [Next]_vars
    PROVE  TableInv'
<1>1. CASE Refresh
  BY <1>1, UpdateKnownKeepsInv, InfosAssumption DEF Refresh
<1>2. CASE Appear
  BY <1>2, UpdateNewKeepsInv, InfosAssumption DEF Appear
<1>3. CASE Age
  BY <1>3, AgingKeepsInv DEF Age
<1>4. CASE Reload
  BY <1>4, DelbyKeepsInv DEF Reload
<1>5. CASE UNCHANGED tableVars
  BY <1>5, TableNextInv
<1>6. CASE Report \/ GetByMac \/ GetByIp \/ GetByFilter \/ ConnectionLost \/ ReconnectTimer
  BY <1>5, <1>6 DEF Report, GetByMac, GetByIp, GetByFilter, ConnectionLost, ReconnectTimer
<1>7. CASE UNCHANGED vars
  BY <1>5, <1>7 DEF vars
<1> QED BY <1>1, <1>2, <1>3, <1>4, <1>6, <1>7 DEF Next

\* What a request is answered with while the table stays as it is.
LEMMA RequestKeepsInv ==
    ASSUME UbusInv, GetByMac \/ GetByIp \/ GetByFilter
    PROVE  /\ buf' \in Message
           /\ reply' \in [by : {"none", "mac", "ip", "filter"}, key : SUBSET Mac,
                          hit : BOOLEAN, msg : Message]
           /\ HitIsAnswered'
<1>1. /\ TableInv /\ buf \in Message /\ head.list \subseteq Users
      /\ \A u \in head.list : user[u].mac \in Mac
  BY ListedMacs DEF UbusInv, UbusTypeOK
<1>2. ASSUME NEW found \in SUBSET head.list, pushuser(found)
      PROVE  /\ buf' \in Message
             /\ found # {} => \E u \in found : buf'.kind = "user" /\ buf'.macs = {user[u].mac}
  BY <1>1, <1>2, MessageTypes DEF pushuser, UserMsg
<1>3. CASE GetByMac
  <2>1. PICK m \in Mac :
          /\ pushuser(um_user_getbymac(m))
          /\ reply' = [by |-> "mac", key |-> {m}, hit |-> m \in Listed, msg |-> buf']
    BY <1>3 DEF GetByMac
  <2>2. um_user_getbymac(m) = {u \in head.list : user[u].mac = m /\ is_good_mac(m)}
    BY <1>1, LookupByMac
  <2>3. buf' \in Message
    BY <2>1, <2>2, <1>2
  <2>4. (m \in Listed) \in BOOLEAN
    OBVIOUS
  <2>5. reply' \in [by : {"none", "mac", "ip", "filter"}, key : SUBSET Mac,
                    hit : BOOLEAN, msg : Message]
    BY <2>1, <2>3, <2>4
  <2>6. ASSUME m \in Listed, is_good_mac(m)
        PROVE  buf'.kind = "user" /\ buf'.macs \subseteq {m}
    <3>1. um_user_getbymac(m) # {}
      BY <2>2, <2>6 DEF Listed
    <3> QED BY <3>1, <2>1, <2>2, <1>2
  <2>7. HitIsAnswered'
    BY <2>1, <2>6 DEF HitIsAnswered
  <2> QED BY <2>3, <2>5, <2>7
<1>4. CASE GetByIp
  <2>1. PICK i \in Ip :
          /\ pushuser(um_user_getbyip(i))
          /\ reply' = [by |-> "ip",
                       key |-> {user[u].mac : u \in {v \in head.list : user[v].ip = i}},
                       hit |-> i # ZeroIp
                               /\ {user[u].mac : u \in {v \in head.list : user[v].ip = i}} # {},
                       msg |-> buf']
    BY <1>4 DEF GetByIp
  <2> DEFINE owners == {user[u].mac : u \in {v \in head.list : user[v].ip = i}}
  <2>2. um_user_getbyip(i) = {u \in head.list : user[u].ip = i /\ i # ZeroIp}
    BY <1>1, LookupByIp
  <2>3. buf' \in Message
    BY <2>1, <2>2, <1>2
  <2>4. owners \in SUBSET Mac /\ (i # ZeroIp /\ owners # {}) \in BOOLEAN
    BY <1>1
  <2>5. reply' \in [by : {"none", "mac", "ip", "filter"}, key : SUBSET Mac,
                    hit : BOOLEAN, msg : Message]
    BY <2>1, <2>3, <2>4
  <2>6. ASSUME i # ZeroIp, owners # {}
        PROVE  buf'.kind = "user" /\ buf'.macs \subseteq owners
    <3>1. um_user_getbyip(i) # {}
      BY <2>2, <2>6
    <3>2. PICK u \in um_user_getbyip(i) : buf'.kind = "user" /\ buf'.macs = {user[u].mac}
      BY <3>1, <2>1, <2>2, <1>2
    <3>3. user[u].mac \in owners
      BY <2>2, <3>2
    <3> QED BY <3>2, <3>3
  <2>7. reply'.key = owners /\ reply'.hit = (i # ZeroIp /\ owners # {}) /\ reply'.msg = buf'
    BY <2>1
  <2> HIDE DEF owners
  <2>8. HitIsAnswered'
    BY <2>6, <2>7 DEF HitIsAnswered
  <2> QED BY <2>3, <2>5, <2>8
<1>5. CASE GetByFilter
  <2>1. PICK f \in Filters :
          /\ buf' = UsersMsg({user[u].mac : u \in {v \in head.list : match(v, f)}})
          /\ reply' = [by |-> "filter",
                       key |-> {user[u].mac : u \in {v \in head.list : match(v, f)}},
                       hit |-> TRUE, msg |-> buf']
    BY <1>5 DEF GetByFilter
  <2>2. {user[u].mac : u \in {v \in head.list : match(v, f)}} \in SUBSET Mac
    BY <1>1
  <2>3. buf' \in Message
    BY <2>1, <2>2, MessageTypes
  <2>4. reply' \in [by : {"none", "mac", "ip", "filter"}, key : SUBSET Mac,
                    hit : BOOLEAN, msg : Message]
    BY <2>1, <2>2, <2>3
  <2>5. HitIsAnswered'
    BY <2>1 DEF HitIsAnswered
  <2> QED BY <2>3, <2>4, <2>5
<1> QED BY <1>3, <1>4, <1>5

\* Every step keeps the invariant.
LEMMA UbusStep ==
    ASSUME UbusInv, [Next]_vars
    PROVE  UbusInv'
<1>1. TableInv' /\ TableTypeOK' /\ TableInv /\ UbusTypeOK
  BY UbusStepTable DEF UbusInv, TableInv
<1>2. CASE Refresh
  <2>1. PICK info \in Infos : UpdateKnown(info) /\ buf' = IF EvUpdate THEN UserMsg(info.mac) ELSE buf
    BY <1>2 DEF Refresh
  <2>2. info \in Info /\ info.mac \in Mac
    BY InfosAssumption DEF Info
  <2>3. Listed' = Listed
    BY <1>1, <2>1, <2>2, KnownKeepsMacs DEF Listed, Macs
  <2>4. buf' \in Message
    BY <1>1, <2>1, <2>2, MessageTypes DEF UbusTypeOK
  <2>5. UNCHANGED <<link, retry, sub, reply, lost>> /\ ops' = ops + 1
    BY <1>2 DEF Refresh, Bounded
  <2>6. UbusTypeOK'
    BY <1>1, <2>4, <2>5 DEF UbusTypeOK
  <2>7. SubscriberExact' /\ HitIsAnswered'
    BY <2>3, <2>5 DEF UbusInv, SubscriberExact, HitIsAnswered
  <2> QED BY <1>1, <2>6, <2>7 DEF UbusInv
<1>3. CASE Appear
  <2>1. PICK info \in Infos :
          UpdateNew(info) /\ buf' = UserMsg(info.mac) /\ notify(sub \cup {info.mac})
    BY <1>3 DEF Appear
  <2>2. info \in Info /\ info.mac \in Mac
    BY InfosAssumption DEF Info
  <2>3. Listed' = Listed \cup {info.mac}
    BY <1>1, <2>1, <2>2, NewAddsMac DEF Listed, Macs
  <2>4. sub' = (IF link THEN sub \cup {info.mac} ELSE sub) /\ lost' = (lost \/ ~link)
    BY <2>1 DEF notify
  <2>5. UNCHANGED <<link, retry, reply>> /\ ops' = ops + 1
    BY <1>3 DEF Appear, Bounded
  <2>6. buf' \in Message
    BY <2>1, <2>2, MessageTypes
  <2>7. sub' \in SUBSET Mac
    BY <1>1, <2>2, <2>4 DEF UbusTypeOK
  <2>8. lost' \in BOOLEAN
    BY <2>4
  <2>9. UbusTypeOK'
    BY <1>1, <2>5, <2>6, <2>7, <2>8 DEF UbusTypeOK
  <2>10. SubscriberExact'
    BY <2>3, <2>4 DEF UbusInv, SubscriberExact
  <2>11. HitIsAnswered'
    BY <2>5 DEF UbusInv, HitIsAnswered
  <2> QED BY <1>1, <2>9, <2>10, <2>11 DEF UbusInv
<1>4. CASE Age \/ Reload
  <2>1. PICK before \in Message : Removed(before) /\ (aging \/ \E F : um_user_delby(F))
    BY <1>1, <1>4, MessageTypes DEF Age, Reload, UbusTypeOK
  <2>2. /\ buf' \in Message /\ sub' \in SUBSET Mac /\ lost' \in BOOLEAN
        /\ SubscriberExact'
    BY <2>1, RemovedKeepsSubscriber
  <2>3. UNCHANGED <<link, retry, reply>> /\ ops' = ops + 1
    BY <1>4 DEF Age, Reload, Bounded
  <2>4. UbusTypeOK'
    BY <1>1, <2>2, <2>3 DEF UbusTypeOK
  <2>5. HitIsAnswered'
    BY <2>3 DEF UbusInv, HitIsAnswered
  <2> QED BY <1>1, <2>2, <2>4, <2>5 DEF UbusInv
<1>5. CASE Report
  <2>1. {user[u].mac : u \in {v \in head.list : user[v].local}} = Listed
    BY <1>1 DEF Listed, TableInv, AgingInRange
  <2>2. /\ buf' = UsersMsg(Listed)
        /\ sub' = (IF link THEN Listed ELSE sub)
        /\ lost' = (lost /\ ~link)
        /\ UNCHANGED <<tableVars, link, retry, reply, ops>>
    BY <1>5, <2>1 DEF Report, UsersMsg
  <2>3. Listed \subseteq Mac
    BY <1>1, ListedMacs
  <2>4. buf' \in Message
    BY <2>2, <2>3, MessageTypes
  <2>5. sub' \in SUBSET Mac
    BY <1>1, <2>2, <2>3 DEF UbusTypeOK
  <2>6. lost' \in BOOLEAN
    BY <2>2
  <2>7. UbusTypeOK'
    BY <1>1, <2>2, <2>4, <2>5, <2>6 DEF UbusTypeOK
  <2>8. Listed' = Listed
    BY <2>2 DEF Listed, tableVars
  <2>9. SubscriberExact'
    BY <2>2, <2>8 DEF UbusInv, SubscriberExact
  <2>10. HitIsAnswered'
    BY <2>2 DEF UbusInv, HitIsAnswered
  <2> QED BY <1>1, <2>7, <2>9, <2>10 DEF UbusInv
<1>6. CASE GetByMac \/ GetByIp \/ GetByFilter
  <2>1. UNCHANGED <<tableVars, link, retry, sub, ops, lost>>
    BY <1>6 DEF GetByMac, GetByIp, GetByFilter
  <2>2. UbusTypeOK' /\ HitIsAnswered'
    BY <1>1, <1>6, <2>1, RequestKeepsInv DEF UbusTypeOK
  <2>3. Listed' = Listed
    BY <2>1 DEF Listed, tableVars
  <2>4. SubscriberExact'
    BY <2>1, <2>3 DEF UbusInv, SubscriberExact
  <2> QED BY <1>1, <2>2, <2>4 DEF UbusInv
<1>7. CASE ConnectionLost \/ ReconnectTimer \/ UNCHANGED vars
  <2>1. UNCHANGED <<tableVars, buf, sub, reply, lost>> /\ ops' \in {ops, ops + 1}
    BY <1>7 DEF ConnectionLost, ReconnectTimer, Bounded, vars, ubusVars
  <2>2. link' \in BOOLEAN /\ retry' \in BOOLEAN
    BY <1>1, <1>7, Zenon DEF ConnectionLost, ReconnectTimer, vars, ubusVars, UbusTypeOK
  <2>3. UbusTypeOK'
    BY <1>1, <2>1, <2>2 DEF UbusTypeOK
  <2>4. Listed' = Listed
    BY <2>1 DEF Listed, tableVars
  <2>5. SubscriberExact' /\ HitIsAnswered'
    BY <2>1, <2>4 DEF UbusInv, SubscriberExact, HitIsAnswered
  <2> QED BY <1>1, <2>3, <2>5 DEF UbusInv
<1> QED BY <1>2, <1>3, <1>4, <1>5, <1>6, <1>7 DEF Next

-----------------------------------------------------------------------------
\* The inductive invariant holds whatever the table, the callers and ubusd do.
THEOREM UbusCorrect == Spec => []UbusInv
<1>1. Init => UbusInv
  <2> SUFFICES ASSUME Init PROVE UbusInv
    OBVIOUS
  <2>1. TableInv /\ TableTypeOK /\ Listed = {}
    BY TableInitInv DEF Init, TableInv, TableInit, EmptyHead, Listed
  <2>2. UbusTypeOK
    BY <2>1, MessageTypes DEF Init, UbusTypeOK
  <2>3. SubscriberExact /\ HitIsAnswered
    BY <2>1 DEF Init, SubscriberExact, HitIsAnswered
  <2> QED BY <2>1, <2>2, <2>3 DEF UbusInv
<1>2. UbusInv /\ [Next]_vars => UbusInv'
  BY UbusStep
<1> QED BY <1>1, <1>2, PTL DEF Spec

\* The buffer, the connection and the answers keep their types.
THEOREM UbusTypes == Spec => []UbusTypeOK
<1>1. UbusInv => UbusTypeOK
  BY DEF UbusInv
<1> QED BY <1>1, UbusCorrect, PTL

\* As long as no notification was lost, um.new and um.delete tell a
\* subscriber exactly the stations in the table (um_ubus_insert_cb,
\* um_ubus_remove_cb); a um.report that arrives makes up for lost ones.
THEOREM UbusSubscriberExact == Spec => []SubscriberExact
<1>1. UbusInv => SubscriberExact
  BY DEF UbusInv
<1> QED BY <1>1, UbusCorrect, PTL

\* A getuser for the mac or the ip of a listed station is answered with a
\* station that has it (setfilter_mac, setfilter_ip, pushuser).
THEOREM UbusHitIsAnswered == Spec => []HitIsAnswered
<1>1. UbusInv => HitIsAnswered
  BY DEF UbusInv
<1> QED BY <1>1, UbusCorrect, PTL
=============================================================================
