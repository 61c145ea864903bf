------------------------------- MODULE UmUbus -------------------------------
(***************************************************************************)
(* umd on the ubus (autelan-app/src/um/ubus.c): the notifications it sends *)
(* while the table changes, the periodic report, the getuser method, the   *)
(* message buffer all of them share, and the loss and recovery of the      *)
(* connection.  The table changes in any way its operations allow; which   *)
(* timer or request makes it change is the subject of UserManager.         *)
(*                                                                         *)
(* A subscriber (external) is modelled by the set of macs it believes      *)
(* present: it applies um.new and um.delete and takes um.report as the     *)
(* truth.  It is subscribed again whenever the connection is back.         *)
(***************************************************************************)
EXTENDS UserTable

CONSTANTS
    Infos,     \* what polls report, a subset of Info
    Filters,   \* filters of reloads and of getuser requests
    EvUpdate,  \* is the um.update event enabled (um.key: no)
    MaxOps     \* bound on table operations and connection losses

ASSUME InfosAssumption == Infos \subseteq Info
ASSUME FiltersAssumption == Filters \subseteq Filter
ASSUME EvUpdateAssumption == EvUpdate \in BOOLEAN

VARIABLES
    buf,    \* struct blob_buf b: the users the message in it is about
    link,   \* the connection to ubusd is up
    retry,  \* the reconnect timer is armed
    sub,    \* the macs the subscriber believes present
    reply,  \* the last getuser request and the message sent in answer
    ops,    \* table operations and connection losses so far
    lost    \* history: a notification was lost since the last report

ubusVars == <<buf, link, retry, sub, reply, ops, lost>>
vars == <<tableVars, ubusVars>>

Listed == {user[u].mac : u \in head.list}

\* A message: a table of one user, an array of users, or a uci section.
Message == [kind : {"user", "users", "section"}, macs : SUBSET Mac]
UserMsg(m) == [kind |-> "user", macs |-> {m}]
UsersMsg(M) == [kind |-> "users", macs |-> M]
SectionMsg == [kind |-> "section", macs |-> {}]

\* notify(): with the connection down the event is gone
notify(seen) ==
    /\ sub' = IF link THEN seen ELSE sub
    /\ lost' = (lost \/ ~link)

Bounded == ops < MaxOps /\ ops' = ops + 1

-----------------------------------------------------------------------------
\* Table operations with the notifications they raise.

\* l2user_update calls um_ubus_update_cb; update_cb pushes "old" and "new"
Refresh ==
    /\ Bounded
    /\ \E info \in Infos :
         /\ UpdateKnown(info)
         /\ buf' = IF EvUpdate THEN UserMsg(info.mac) ELSE buf
    /\ UNCHANGED <<link, retry, sub, reply, lost>>

\* um_ubus_insert_cb
Appear ==
    /\ Bounded
    /\ \E info \in Infos :
         /\ UpdateNew(info)
         /\ buf' = UserMsg(info.mac)
         /\ notify(sub \cup {info.mac})
    /\ UNCHANGED <<link, retry, reply>>

\* Mutant: only the last user that has gone is announced.
RemovedLast(before) ==
    LET gone == {user[u].mac : u \in head.list \ head'.list}
    IN  IF gone = {}
        THEN buf' = before /\ UNCHANGED <<sub, lost>>
        ELSE \E m \in gone : buf' = UserMsg(m) /\ notify(sub \ {m})

\* um_ubus_remove_cb on every user that has gone; the last one stays in buf
Removed(before) ==
    LET gone == {user[u].mac : u \in head.list \ head'.list}
    IN  IF gone = {}
        THEN buf' = before /\ UNCHANGED <<sub, lost>>
        ELSE /\ \E m \in gone : buf' = UserMsg(m)
             /\ notify(sub \ gone)

Age ==
    /\ Bounded
    /\ aging
    /\ Removed(buf)
    /\ UNCHANGED <<link, retry, reply>>

\* section_to_blob uses the buffer before intf_compare deletes users
Reload ==
    /\ Bounded
    /\ \E f \in {g \in Filters : g.local /\ g.radioid # AnyId} : um_user_delby({f})
    /\ Removed(SectionMsg)
    /\ UNCHANGED <<link, retry, reply>>

-----------------------------------------------------------------------------
\* um_ubus_report: pushuserby the local users, and um.report
Report ==
    /\ buf' = UsersMsg({user[u].mac : u \in {v \in head.list : user[v].local}})
    /\ sub' = IF link THEN buf'.macs ELSE sub
    /\ lost' = (lost /\ ~link)
    /\ UNCHANGED <<tableVars, link, retry, reply, ops>>

\* Mutant: the ip is pushed in place of the mac.
pushuserIp(found) ==
    IF found = {} THEN buf' = buf ELSE \E u \in found : buf' = UserMsg(user[u].ip)

\* pushuser(found, true, NULL): NULL leaves the buffer as it is
pushuser(found) ==
    IF found = {} THEN buf' = buf ELSE \E u \in found : buf' = UserMsg(user[u].mac)

\* um_ubus_handle_getuser with only a mac, ...
GetByMac ==
    /\ link
    /\ \E m \in Mac :
         /\ pushuser(um_user_getbymac(m))
         /\ reply' = [by |-> "mac", key |-> {m}, hit |-> m \in Listed, msg |-> buf']
    /\ UNCHANGED <<tableVars, link, retry, sub, ops, lost>>

\* ... with only an ip (a station without one is in no ip chain), ...
GetByIp ==
    /\ link
    /\ \E i \in Ip :
         LET owners == {user[u].mac : u \in {v \in head.list : user[v].ip = i}}
         IN /\ pushuser(um_user_getbyip(i))
            /\ reply' = [by |-> "ip", key |-> owners,
                         hit |-> i # ZeroIp /\ owners # {}, msg |-> buf']
    /\ UNCHANGED <<tableVars, link, retry, sub, ops, lost>>

\* ... and with a filter (no argument is the filter that matches all)
GetByFilter ==
    /\ link
    /\ \E f \in Filters :
         LET matched == {user[u].mac : u \in {v \in head.list : match(v, f)}}
         IN /\ buf' = UsersMsg(matched)
            /\ reply' = [by |-> "filter", key |-> matched, hit |-> TRUE, msg |-> buf']
    /\ UNCHANGED <<tableVars, link, retry, sub, ops, lost>>

\* connection_lost calls reconnect_timer at once
ConnectionLost ==
    /\ link
    /\ Bounded
    /\ link' = FALSE /\ retry' = TRUE
    /\ UNCHANGED <<tableVars, buf, sub, reply, lost>>

\* Mutant: a failed reconnect is not tried again.
ReconnectOnce ==
    /\ retry
    /\ \E ok \in BOOLEAN : link' = ok /\ retry' = FALSE
    /\ UNCHANGED <<tableVars, buf, sub, reply, ops, lost>>

\* The retry timer fires: ubus_reconnect succeeds, or the timer is re-armed
ReconnectTimer ==
    /\ retry
    /\ \E ok \in BOOLEAN : link' = ok /\ retry' = ~ok
    /\ UNCHANGED <<tableVars, buf, sub, reply, ops, lost>>

-----------------------------------------------------------------------------
\* um_uci_load has used the buffer before the connection is made.
Init ==
    /\ TableInit
    /\ buf = SectionMsg
    /\ link = TRUE /\ retry = FALSE
    /\ sub = {} /\ lost = FALSE
    /\ reply = [by |-> "none", key |-> {}, hit |-> FALSE, msg |-> SectionMsg]
    /\ ops = 0

Next ==
    \/ Refresh \/ Appear \/ Age \/ Reload
    \/ Report \/ GetByMac \/ GetByIp \/ GetByFilter
    \/ ConnectionLost \/ ReconnectTimer

Spec == Init /\ [][Next]_vars

\* The report timer keeps firing, and a reconnect that is retried for ever
\* succeeds in the end (ubusd is restarted).
FairSpec == Spec /\ WF_vars(Report) /\ WF_vars(ReconnectTimer /\ link')

-----------------------------------------------------------------------------
\* The types of ubus.c's variables.
UbusTypeOK ==
    /\ TableTypeOK
    /\ buf \in Message
    /\ link \in BOOLEAN /\ retry \in BOOLEAN /\ lost \in BOOLEAN
    /\ sub \in SUBSET Mac
    /\ reply \in [by : {"none", "mac", "ip", "filter"}, key : SUBSET Mac,
                  hit : BOOLEAN, msg : Message]
    /\ ops \in Nat

\* As long as no notification was lost, the events alone tell a subscriber
\* exactly which stations are in the table.
SubscriberExact ==
    ~lost => \A m \in Mac : is_good_mac(m) => (m \in sub <=> m \in Listed)

\* Lost notifications are made up for: when the table no longer changes, the
\* report brings the subscriber to the table's content, bad macs included.
SubscriberCatchesUp == <>[](sub = Listed)

\* A getuser for the mac or the ip of a station in the table is answered
\* with a station that has it.
HitIsAnswered ==
    reply.by \in {"mac", "ip"} /\ reply.hit /\ (\A m \in reply.key : is_good_mac(m))
        => reply.msg.kind = "user" /\ reply.msg.macs \subseteq reply.key

\* "get user by only ip" (ubus.c:209) and "get user by only mac"
\* (ubus.c:239): the answer to such a request is about no other station.
OnlyTheAskedUser ==
    reply.by \in {"mac", "ip"} => reply.msg.macs \subseteq reply.key
=============================================================================
