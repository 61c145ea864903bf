----------------------------- MODULE UserTable -----------------------------
(***************************************************************************)
(* The user table of the wireless user manager umd                         *)
(* (autelan-app/src/um/user.c): the list of all users, the hash chains     *)
(* that find a user by mac and by ip, the user count, and the um.new and   *)
(* um.delete notifications the table operations raise.                     *)
(*                                                                         *)
(* umd is one uloop thread, so each operation of the table is one step.    *)
(* The order of users inside the list and inside a hash chain is left out: *)
(* it decides the order in which one foreach reports its users, and which  *)
(* of several users with one ip a lookup by ip returns.                    *)
(*                                                                         *)
(* The code never frees a removed user.  Nothing points to it any more, so *)
(* the model reuses its address and blanks its fields; that os_malloc can  *)
(* run dry is kept (UpdateFails).                                          *)
(***************************************************************************)
EXTENDS Integers, FiniteSets

CONSTANTS
    Users,            \* the addresses os_malloc may return for a user
    Mac,              \* station addresses, ZeroMac and FullMac included
    ZeroMac, FullMac, \* 00:00:00:00:00:00 and ff:ff:ff:ff:ff:ff
    Ip, ZeroIp,       \* ip addresses; ZeroIp is the integer 0
    RadioId, WlanId,  \* radio and wlan numbers
    Bucket,           \* the chains of a hash table (UM_HASHSIZE of them)
    HashMac, HashIp,  \* hashmac() and haship()
    AgTimes           \* um_agtimes(): aging rounds a user survives unseen

ASSUME MacAssumption == ZeroMac \in Mac /\ FullMac \in Mac
ASSUME IpAssumption == ZeroIp \in Ip
ASSUME HashAssumption == HashMac \in [Mac -> Bucket] /\ HashIp \in [Ip -> Bucket]
ASSUME AgTimesAssumption == AgTimes \in Nat \ {0}
ASSUME IdAssumption == RadioId \subseteq Nat /\ WlanId \subseteq Nat /\ 0 \in RadioId /\ 0 \in WlanId

VARIABLES
    head,    \* umc.head: list, mac and ip chains, count
    user,    \* the struct apuser at each address
    told     \* the macs last announced by um.new and not yet by um.delete

tableVars == <<head, user, told>>

AnyId == -1      \* USER_FILTER_INITER: a negative id does not filter

UserRecord ==
    [local : BOOLEAN, mac : Mac, ip : Ip, radioid : RadioId, wlanid : WlanId, aging : Int]

\* What a poll hands to um_user_update; only l2user_timer calls it, always
\* with um_user_init(&info, true).
Info ==
    [local : {TRUE}, mac : Mac, ip : Ip, radioid : RadioId, wlanid : WlanId]

Filter ==
    [local : BOOLEAN, radioid : RadioId \cup {AnyId}, wlanid : WlanId \cup {AnyId}]

is_good_mac(m) == m # ZeroMac /\ m # FullMac

\* um_user_init(user, true)
um_user_init ==
    [local |-> TRUE, mac |-> ZeroMac, ip |-> ZeroIp, radioid |-> 0, wlanid |-> 0, aging |-> 0]

-----------------------------------------------------------------------------
\* Lookups.  Each walks one chain; the result is the set of users it may
\* return, empty for NULL.

\* Mutant: the chain of a fixed key is searched.
getbymacFixedChain(m) == {u \in head.mac[HashMac[ZeroMac]] : user[u].mac = m}

um_user_getbymac(m) == {u \in head.mac[HashMac[m]] : user[u].mac = m}

\* Mutant: the first user of the chain is returned, whatever its ip.
getbyipFirst(i) == head.ip[HashIp[i]]

um_user_getbyip(i) == {u \in head.ip[HashIp[i]] : user[u].ip = i}

\* The part of match() that deluser_byif, report and getuser's
\* local/radio/wlan arguments use; mac and ip masks are left out.
match(u, f) ==
    /\ f.local => user[u].local
    /\ f.radioid >= 0 => user[u].radioid = f.radioid
    /\ f.wlanid >= 0 => user[u].wlanid = f.wlanid

-----------------------------------------------------------------------------
\* Mutant: a removed user stays in its ip chain.
removeKeepsIp(h, S) ==
    LET R == S \cap h.list
    IN  [list  |-> h.list \ R,
         mac   |-> [b \in Bucket |-> h.mac[b] \ {u \in R : is_good_mac(user[u].mac)}],
         ip    |-> h.ip,
         count |-> h.count - Cardinality(R)]

\* Mutant: the count is decremented although the user is not in the list.
removeCountsAll(h, S) ==
    LET R == S \cap h.list
    IN  [list  |-> h.list \ R,
         mac   |-> [b \in Bucket |-> h.mac[b] \ {u \in R : is_good_mac(user[u].mac)}],
         ip    |-> [b \in Bucket |-> h.ip[b] \ {u \in R : user[u].ip # ZeroIp}],
         count |-> h.count - Cardinality(S)]

\* __remove on every user of S: users not in the list are left alone, and a
\* user leaves a chain only if its key says that it is in one.
remove(h, S) ==
    LET R == S \cap h.list
    IN  [list  |-> h.list \ R,
         mac   |-> [b \in Bucket |-> h.mac[b] \ {u \in R : is_good_mac(user[u].mac)}],
         ip    |-> [b \in Bucket |-> h.ip[b] \ {u \in R : user[u].ip # ZeroIp}],
         count |-> h.count - Cardinality(R)]

\* __insert of user u whose fields are rec
insert(h, u, rec) ==
    IF u \in h.list
    THEN h
    ELSE [list  |-> h.list \cup {u},
          mac   |-> [b \in Bucket |->
                        IF is_good_mac(rec.mac) /\ b = HashMac[rec.mac]
                        THEN h.mac[b] \cup {u} ELSE h.mac[b]],
          ip    |-> [b \in Bucket |->
                        IF rec.ip # ZeroIp /\ b = HashIp[rec.ip]
                        THEN h.ip[b] \cup {u} ELSE h.ip[b]],
          count |-> h.count + 1]

\* Mutant: only a new user gets its aging rounds.
l2user_updateOnce(dst, info) ==
    [local |-> info.local, mac |-> dst.mac, ip |-> info.ip,
     radioid |-> info.radioid, wlanid |-> info.wlanid,
     aging |-> IF dst.aging = 0 THEN AgTimes ELSE dst.aging]

\* l2user_update(created, dst, info): everything but the mac is overwritten
\* (statistics are left out); um_user_update then resets the aging.
l2user_update(dst, info) ==
    [local |-> info.local, mac |-> dst.mac, ip |-> info.ip,
     radioid |-> info.radioid, wlanid |-> info.wlanid, aging |-> AgTimes]

\* __create(mac): which unused address malloc returns does not matter
NewUser == CHOOSE u \in Users : u \notin head.list

create(m) == [um_user_init EXCEPT !.mac = m]

\* The common part of um_user_update: u is found, or newly created as base
reinsert(u, base, info) ==
    /\ user' = [user EXCEPT ![u] = l2user_update(base, info)]
    /\ head' = insert(remove(head, {u}), u, l2user_update(base, info))

UpdateKnown(info) ==
    \E u \in um_user_getbymac(info.mac) :
        /\ reinsert(u, user[u], info)
        /\ UNCHANGED told

\* A created user is announced by um_ubus_insert_cb (um.new), local ones only
UpdateNew(info) ==
    /\ um_user_getbymac(info.mac) = {}
    /\ Users \ head.list # {}
    /\ reinsert(NewUser, create(info.mac), info)
    /\ told' = IF info.local THEN told \cup {info.mac} ELSE told

um_user_update(info) == UpdateKnown(info) \/ UpdateNew(info)

\* os_malloc returned NULL: um_user_update gives up and touches nothing
UpdateFails(info) ==
    /\ um_user_getbymac(info.mac) = {}
    /\ UNCHANGED tableVars

\* Mutant: __remove(user, NULL), no um.delete.
deleteSilently(D, usr) ==
    /\ head' = remove(head, D)
    /\ user' = [u \in Users |-> IF u \in D THEN um_user_init ELSE usr[u]]
    /\ UNCHANGED told

\* __remove(user, um_ubus_remove_cb) for every user of D, the other users
\* having the fields of usr: um.delete is raised for local users
delete(D, usr) ==
    /\ head' = remove(head, D)
    /\ user' = [u \in Users |-> IF u \in D THEN um_user_init ELSE usr[u]]
    /\ told' = told \ {user[u].mac : u \in {d \in D : user[d].local}}

um_user_delby(F) ==
    delete({u \in head.list : \E f \in F : match(u, f)}, user)

\* Mutant: the test on local is inverted.
agedForeign(u) == IF user[u].local THEN user[u] ELSE [user[u] EXCEPT !.aging = @ - 1]

\* aging_cb on one user
aged(u) == IF user[u].local THEN [user[u] EXCEPT !.aging = @ - 1] ELSE user[u]

\* Mutant: aging < 0 for aging <= 0.
agingLate ==
    delete({u \in head.list : user[u].local /\ aged(u).aging < 0},
           [u \in Users |-> IF u \in head.list THEN aged(u) ELSE user[u]])

aging ==
    delete({u \in head.list : user[u].local /\ aged(u).aging <= 0},
           [u \in Users |-> IF u \in head.list THEN aged(u) ELSE user[u]])

-----------------------------------------------------------------------------
EmptyHead ==
    [list |-> {}, mac |-> [b \in Bucket |-> {}], ip |-> [b \in Bucket |-> {}], count |-> 0]

TableInit ==
    /\ head = EmptyHead
    /\ user = [u \in Users |-> um_user_init]
    /\ told = {}

TableNext ==
    \/ \E info \in Info : um_user_update(info)
    \/ \E F \in SUBSET Filter : um_user_delby(F)
    \/ aging

TableSpec == TableInit /\ [][TableNext]_tableVars

-----------------------------------------------------------------------------
\* The variables have the types of struct um_control and struct apuser.
TableTypeOK ==
    /\ head \in [list : SUBSET Users, mac : [Bucket -> SUBSET Users],
                 ip : [Bucket -> SUBSET Users], count : Int]
    /\ user \in [Users -> UserRecord]
    /\ told \in SUBSET Mac

\* The chains and the list agree: a user is in the mac (ip) chain of its
\* current mac (ip) exactly when it is in the list and has a good mac (an
\* ip), and it is in no other chain.  This is why um_user_update takes a
\* user out before it changes its ip.
IndexConsistent ==
    \A u \in Users, b \in Bucket :
        /\ u \in head.mac[b] <=> /\ u \in head.list
                                 /\ is_good_mac(user[u].mac)
                                 /\ b = HashMac[user[u].mac]
        /\ u \in head.ip[b] <=> /\ u \in head.list
                                /\ user[u].ip # ZeroIp
                                /\ b = HashIp[user[u].ip]

\* umc.head.count is the length of the list.
CountExact == IsFiniteSet(head.list) /\ head.count = Cardinality(head.list)

\* No station is in the table twice (bad macs are not hashed, never found
\* again and may repeat).
MacUnique ==
    \A u, v \in head.list :
        user[u].mac = user[v].mac /\ is_good_mac(user[u].mac) => u = v

\* A subscriber that applies every um.new and um.delete knows exactly the
\* stations in the table.
AnnouncedExact ==
    \A m \in Mac : is_good_mac(m) =>
        (m \in told <=> \E u \in head.list : user[u].mac = m)

\* A user in the table is local and has between 1 and AgTimes rounds to live:
\* none outlives its last round.
AgingInRange ==
    \A u \in head.list : user[u].local /\ user[u].aging \in 1..AgTimes
=============================================================================
