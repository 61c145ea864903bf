-------------------------- MODULE UserTableProofs --------------------------
(***************************************************************************)
(* The user table keeps its list, its hash chains, its count and the       *)
(* events it raises consistent, for any number of users, macs and ips, any *)
(* hash function and any aging limit.                                      *)
(***************************************************************************)
EXTENDS UserTable, FiniteSetTheorems, TLAPS

\* The inductive invariant.  No conjunct is inductive alone: that a mac is
\* unique needs the lookup to find every user with a good mac, hence the
\* mac chains to be exact; the announced set needs the macs to be unique,
\* or one um.delete would retract two users.
TableInv ==
    /\ TableTypeOK
    /\ IndexConsistent
    /\ CountExact
    /\ MacUnique
    /\ AnnouncedExact
    /\ AgingInRange

\* um_user_init yields a well-typed user.
LEMMA InitUserType == um_user_init \in UserRecord
BY MacAssumption, IpAssumption, IdAssumption DEF um_user_init, UserRecord

\* A lookup by mac returns all the users in the list with that mac, if the
\* mac is a good one, and none otherwise.
LEMMA LookupByMac ==
    ASSUME TableInv, NEW m \in Mac
    PROVE  um_user_getbymac(m) = {u \in head.list : user[u].mac = m /\ is_good_mac(m)}
<1>1. head.list \subseteq Users /\ HashMac[m] \in Bucket /\ head.mac[HashMac[m]] \subseteq Users
  BY HashAssumption DEF TableInv, TableTypeOK
<1>2. \A u \in Users : u \in head.mac[HashMac[m]] <=>
          /\ u \in head.list
          /\ is_good_mac(user[u].mac)
          /\ HashMac[m] = HashMac[user[u].mac]
  BY <1>1 DEF TableInv, IndexConsistent
<1> QED
  BY <1>1, <1>2 DEF um_user_getbymac

\* Taking a user out of the table and putting it back with new fields (or
\* putting in a new one) keeps the table consistent, provided no other user
\* has its mac.
LEMMA ReinsertKeepsTable ==
    ASSUME TableInv, NEW info \in Info, NEW u \in Users, NEW base \in UserRecord,
           base.mac = info.mac,
           \A v \in head.list \ {u} : user[v].mac = info.mac => ~is_good_mac(info.mac),
           reinsert(u, base, info)
    PROVE  /\ head' \in [list : SUBSET Users, mac : [Bucket -> SUBSET Users],
                         ip : [Bucket -> SUBSET Users], count : Int]
           /\ user' \in [Users -> UserRecord]
           /\ head'.list = head.list \cup {u}
           /\ \A v \in Users : user'[v].mac = IF v = u THEN info.mac ELSE user[v].mac
           /\ IndexConsistent' /\ CountExact' /\ MacUnique' /\ AgingInRange'
<1> DEFINE rec == l2user_update(base, info)
           h == remove(head, {u})
           R == {u} \cap head.list
<1>1. /\ rec \in UserRecord /\ rec.mac = info.mac /\ rec.local
      /\ rec.aging = AgTimes /\ rec.aging \in 1..AgTimes
  <2>1. /\ rec.mac = info.mac /\ rec.local = TRUE /\ rec.aging = AgTimes
        /\ rec = [local |-> TRUE, mac |-> info.mac, ip |-> info.ip,
                  radioid |-> info.radioid, wlanid |-> info.wlanid, aging |-> AgTimes]
    BY DEF l2user_update, Info
  <2>2. info.mac \in Mac /\ info.ip \in Ip /\ info.radioid \in RadioId /\ info.wlanid \in WlanId
    BY DEF Info
  <2>3. AgTimes \in Int /\ AgTimes \in 1..AgTimes
    BY AgTimesAssumption
  <2>4. rec \in UserRecord
    BY <2>1, <2>2, <2>3 DEF UserRecord
  <2> QED BY <2>1, <2>3, <2>4
<1>2. /\ user \in [Users -> UserRecord] /\ head.list \in SUBSET Users
      /\ head.mac \in [Bucket -> SUBSET Users] /\ head.ip \in [Bucket -> SUBSET Users]
      /\ head.count \in Int
  BY DEF TableInv, TableTypeOK
<1>3. user' = [user EXCEPT ![u] = rec] /\ head' = insert(h, u, rec)
  BY DEF reinsert
<1>4. /\ user' \in [Users -> UserRecord]
      /\ user'[u] = rec
      /\ \A v \in Users : v # u => user'[v] = user[v]
  BY <1>1, <1>2, <1>3
<1>5. /\ h.list = head.list \ {u}
      /\ h.mac = [b \in Bucket |-> head.mac[b] \ {v \in R : is_good_mac(user[v].mac)}]
      /\ h.ip = [b \in Bucket |-> head.ip[b] \ {v \in R : user[v].ip # ZeroIp}]
      /\ h.count = head.count - Cardinality(R)
  BY DEF remove
<1>6. /\ head'.list = h.list \cup {u}
      /\ head'.mac = [b \in Bucket |-> IF is_good_mac(rec.mac) /\ b = HashMac[rec.mac]
                                       THEN h.mac[b] \cup {u} ELSE h.mac[b]]
      /\ head'.ip = [b \in Bucket |-> IF rec.ip # ZeroIp /\ b = HashIp[rec.ip]
                                      THEN h.ip[b] \cup {u} ELSE h.ip[b]]
      /\ head'.count = h.count + 1
      /\ head' = [list |-> head'.list, mac |-> head'.mac, ip |-> head'.ip, count |-> head'.count]
  BY <1>3, <1>5 DEF insert
<1>7. head'.list = head.list \cup {u}
  BY <1>5, <1>6
<1>8. IsFiniteSet(head.list) /\ head.count = Cardinality(head.list) /\ Cardinality(head.list) \in Nat
  BY FS_CardinalityType DEF TableInv, CountExact
<1>9. /\ IsFiniteSet(head.list \cup {u})
      /\ head.count - Cardinality(R) + 1 = Cardinality(head.list \cup {u})
      /\ Cardinality(R) \in Int
  <2>1. CASE u \in head.list
    <3>1. R = {u} /\ head.list \cup {u} = head.list
      BY <2>1
    <3>2. Cardinality(R) = 1
      BY <3>1, FS_Singleton
    <3>3. head.count - 1 + 1 = Cardinality(head.list)
      BY <1>8
    <3>4. Cardinality(R) \in Int
      BY <3>2
    <3> HIDE DEF R
    <3> QED BY <3>1, <3>2, <3>3, <3>4, <1>8
  <2>2. CASE u \notin head.list
    <3>1. R = {}
      BY <2>2
    <3>2. Cardinality(R) = 0
      BY <3>1, FS_EmptySet
    <3>3. IsFiniteSet(head.list \cup {u}) /\ Cardinality(head.list \cup {u}) = Cardinality(head.list) + 1
      BY <2>2, <1>8, FS_AddElement
    <3>4. head.count - 0 + 1 = Cardinality(head.list) + 1
      BY <1>8
    <3>5. Cardinality(R) \in Int
      BY <3>2
    <3> HIDE DEF R
    <3> QED BY <3>2, <3>3, <3>4, <3>5
  <2> QED BY <2>1, <2>2
<1>10. CountExact'
  BY <1>5, <1>6, <1>7, <1>9 DEF CountExact
<1>11. IndexConsistent'
  <2> SUFFICES ASSUME NEW v \in Users, NEW b \in Bucket
               PROVE  /\ v \in head'.mac[b] <=> /\ v \in head'.list
                                                /\ is_good_mac(user'[v].mac)
                                                /\ b = HashMac[user'[v].mac]
                      /\ v \in head'.ip[b] <=> /\ v \in head'.list
                                               /\ user'[v].ip # ZeroIp
                                               /\ b = HashIp[user'[v].ip]
    BY DEF IndexConsistent
  <2>1. /\ v \in head.mac[b] <=> /\ v \in head.list
                                 /\ is_good_mac(user[v].mac)
                                 /\ b = HashMac[user[v].mac]
        /\ v \in head.ip[b] <=> /\ v \in head.list
                                /\ user[v].ip # ZeroIp
                                /\ b = HashIp[user[v].ip]
    BY DEF TableInv, IndexConsistent
  <2>2. CASE v = u
    <3>1. v \notin h.mac[b] /\ v \notin h.ip[b]
      BY <1>5, <2>1, <2>2
    <3> QED BY <3>1, <2>2, <1>4, <1>6
  <2>3. CASE v # u
    <3>1. (v \in h.mac[b] <=> v \in head.mac[b]) /\ (v \in h.ip[b] <=> v \in head.ip[b])
      BY <1>5, <2>3
    <3>2. (v \in head'.mac[b] <=> v \in head.mac[b]) /\ (v \in head'.ip[b] <=> v \in head.ip[b])
      BY <3>1, <2>3, <1>6
    <3> QED BY <3>2, <2>1, <2>3, <1>4, <1>7
  <2> QED BY <2>2, <2>3
<1>12. MacUnique'
  <2> SUFFICES ASSUME NEW v \in head'.list, NEW w \in head'.list,
                      user'[v].mac = user'[w].mac, is_good_mac(user'[v].mac)
               PROVE  v = w
    BY DEF MacUnique
  <2>1. v \in Users /\ w \in Users
    BY <1>2, <1>7
  <2>2. v # u /\ w # u => v = w
    BY <2>1, <1>4, <1>7 DEF TableInv, MacUnique
  <2>3. v = u /\ w # u => FALSE
    BY <2>1, <1>1, <1>4, <1>7
  <2>4. v # u /\ w = u => FALSE
    BY <2>1, <1>1, <1>4, <1>7
  <2> QED BY <2>2, <2>3, <2>4
<1>13. AgingInRange'
  <2> SUFFICES ASSUME NEW v \in head'.list
               PROVE  user'[v].local /\ user'[v].aging \in 1..AgTimes
    BY DEF AgingInRange
  <2>1. CASE v = u
    <3>1. user'[v] = rec
      BY <2>1, <1>4
    <3> HIDE DEF rec
    <3> QED BY <3>1, <1>1
  <2>2. CASE v # u
    <3>1. v \in head.list /\ v \in Users
      BY <2>2, <1>2, <1>7
    <3>2. user'[v] = user[v]
      BY <3>1, <2>2, <1>4
    <3>3. user[v].local /\ user[v].aging \in 1..AgTimes
      BY <3>1 DEF TableInv, AgingInRange
    <3> QED BY <3>2, <3>3
  <2> QED BY <2>1, <2>2
<1>14. head' \in [list : SUBSET Users, mac : [Bucket -> SUBSET Users],
                  ip : [Bucket -> SUBSET Users], count : Int]
  <2>1. \A b \in Bucket : h.mac[b] \subseteq Users /\ h.ip[b] \subseteq Users
    BY <1>2, <1>5
  <2> HIDE DEF h, R, rec
  <2>2. head'.mac \in [Bucket -> SUBSET Users] /\ head'.ip \in [Bucket -> SUBSET Users]
    <3>1. head'.mac \in [Bucket -> SUBSET Users]
      BY <2>1, <1>6
    <3>2. head'.ip \in [Bucket -> SUBSET Users]
      BY <2>1, <1>6
    <3> QED BY <3>1, <3>2
  <2>3. head'.list \in SUBSET Users
    BY <1>2, <1>7
  <2>4. head'.count \in Int
    <3>1. head'.count = head.count - Cardinality(R) + 1
      BY <1>5, <1>6
    <3> QED BY <3>1, <1>2, <1>9
  <2>5. head' = [list |-> head'.list, mac |-> head'.mac, ip |-> head'.ip, count |-> head'.count]
    BY <1>6
  <2> QED BY <2>2, <2>3, <2>4, <2>5
<1>15. \A v \in Users : user'[v].mac = IF v = u THEN info.mac ELSE user[v].mac
  BY <1>1, <1>4
<1> HIDE DEF rec, h, R
<1> QED BY <1>4, <1>7, <1>10, <1>11, <1>12, <1>13, <1>14, <1>15

\* Removing a set of users from the table, and changing nothing of the
\* others but their aging, keeps the table consistent.
LEMMA DeleteKeepsTable ==
    ASSUME TableInv, NEW D \in SUBSET head.list, NEW usr \in [Users -> UserRecord],
           \A u \in Users : usr[u].mac = user[u].mac /\ usr[u].ip = user[u].ip,
           \A u \in head.list \ D : usr[u].local /\ usr[u].aging \in 1..AgTimes,
           delete(D, usr)
    PROVE  TableInv'
<1>1. /\ user \in [Users -> UserRecord] /\ head.list \in SUBSET Users
      /\ head.mac \in [Bucket -> SUBSET Users] /\ head.ip \in [Bucket -> SUBSET Users]
      /\ head.count \in Int /\ told \in SUBSET Mac
  BY DEF TableInv, TableTypeOK
<1>2. D \cap head.list = D
  OBVIOUS
<1>3. /\ head' = [list |-> head.list \ D,
                  mac |-> [b \in Bucket |-> head.mac[b] \ {u \in D : is_good_mac(user[u].mac)}],
                  ip |-> [b \in Bucket |-> head.ip[b] \ {u \in D : user[u].ip # ZeroIp}],
                  count |-> head.count - Cardinality(D)]
      /\ user' = [u \in Users |-> IF u \in D THEN um_user_init ELSE usr[u]]
      /\ told' = told \ {user[u].mac : u \in {d \in D : user[d].local}}
  BY <1>2 DEF delete, remove
<1>4. /\ IsFiniteSet(head.list) /\ head.count = Cardinality(head.list)
      /\ IsFiniteSet(D) /\ Cardinality(D) \in Nat
  BY FS_Subset, FS_CardinalityType DEF TableInv, CountExact
<1>5. TableTypeOK'
  <2>1. user' \in [Users -> UserRecord]
    BY <1>3, InitUserType
  <2>2. told' \in SUBSET Mac
    BY <1>1, <1>3
  <2>3. head.count - Cardinality(D) \in Int
    BY <1>1, <1>4
  <2>4. head' \in [list : SUBSET Users, mac : [Bucket -> SUBSET Users],
                   ip : [Bucket -> SUBSET Users], count : Int]
    BY <1>1, <1>3, <2>3
  <2> QED BY <2>1, <2>2, <2>4 DEF TableTypeOK
<1>6. \A u \in head'.list : u \in head.list /\ u \notin D /\ u \in Users /\ user'[u] = usr[u]
  BY <1>1, <1>3
<1>7. IndexConsistent'
  <2> SUFFICES ASSUME NEW v \in Users, NEW b \in Bucket
               PROVE  /\ v \in head'.mac[b] <=> /\ v \in head'.list
                                                /\ is_good_mac(user'[v].mac)
                                                /\ b = HashMac[user'[v].mac]
                      /\ v \in head'.ip[b] <=> /\ v \in head'.list
                                               /\ user'[v].ip # ZeroIp
                                               /\ b = HashIp[user'[v].ip]
    BY DEF IndexConsistent
  <2>1. /\ v \in head.mac[b] <=> /\ v \in head.list
                                 /\ is_good_mac(user[v].mac)
                                 /\ b = HashMac[user[v].mac]
        /\ v \in head.ip[b] <=> /\ v \in head.list
                                /\ user[v].ip # ZeroIp
                                /\ b = HashIp[user[v].ip]
    BY DEF TableInv, IndexConsistent
  <2>2. /\ head'.mac[b] = head.mac[b] \ {u \in D : is_good_mac(user[u].mac)}
        /\ head'.ip[b] = head.ip[b] \ {u \in D : user[u].ip # ZeroIp}
        /\ head'.list = head.list \ D
    BY <1>3
  <2>3. CASE v \in D
    BY <2>1, <2>2, <2>3
  <2>4. CASE v \notin D
    <3>1. user'[v].mac = user[v].mac /\ user'[v].ip = user[v].ip
      BY <1>3, <2>4
    <3> QED BY <2>1, <2>2, <2>4, <3>1
  <2> QED BY <2>3, <2>4
<1>8. CountExact'
  <2>1. head'.list = head.list \ D /\ head'.count = head.count - Cardinality(D)
    BY <1>3
  <2>2. /\ IsFiniteSet(head.list \ D)
        /\ Cardinality(head.list \ D) = Cardinality(head.list) - Cardinality(head.list \cap D)
    BY <1>4, FS_Difference
  <2>3. head.list \cap D = D
    OBVIOUS
  <2> QED BY <2>1, <2>2, <2>3, <1>4 DEF CountExact
<1>9. MacUnique'
  BY <1>6 DEF TableInv, MacUnique
<1>10. AnnouncedExact'
  <2> SUFFICES ASSUME NEW m \in Mac, is_good_mac(m)
               PROVE  m \in told' <=> \E u \in head'.list : user'[u].mac = m
    BY DEF AnnouncedExact
  <2>1. m \in told <=> \E u \in head.list : user[u].mac = m
    BY DEF TableInv, AnnouncedExact
  <2>2. \A d \in D : user[d].local
    BY DEF TableInv, AgingInRange
  <2>3. told' = told \ {user[u].mac : u \in D}
    BY <1>3, <2>2
  <2>4. (\E u \in head'.list : user'[u].mac = m) <=> \E u \in head.list \ D : user[u].mac = m
    <3>1. head'.list = head.list \ D
      BY <1>3
    <3>2. \A u \in head.list \ D : user'[u].mac = user[u].mac
      BY <1>6, <3>1
    <3> QED BY <3>1, <3>2
  <2>5. \A u \in head.list, d \in D : user[u].mac = m /\ user[d].mac = m => u = d
    BY DEF TableInv, MacUnique
  <2> QED BY <2>1, <2>3, <2>4, <2>5
<1>11. AgingInRange'
  <2> SUFFICES ASSUME NEW v \in head'.list
               PROVE  user'[v].local /\ user'[v].aging \in 1..AgTimes
    BY DEF AgingInRange
  <2>1. user'[v] = usr[v] /\ v \in head.list \ D
    BY <1>6
  <2> QED BY <2>1
<1> QED BY <1>5, <1>7, <1>8, <1>9, <1>10, <1>11 DEF TableInv

\* A poll that finds its station updates that one user.
LEMMA UpdateKnownKeepsInv ==
    ASSUME TableInv, NEW info \in Info, UpdateKnown(info)
    PROVE  TableInv'
<1>1. PICK u \in um_user_getbymac(info.mac) : reinsert(u, user[u], info) /\ UNCHANGED told
  BY DEF UpdateKnown
<1>2. info.mac \in Mac
  BY DEF Info
<1>3. u \in head.list /\ user[u].mac = info.mac /\ is_good_mac(info.mac)
  BY <1>1, <1>2, LookupByMac
<1>4. u \in Users /\ user[u] \in UserRecord /\ head.list \subseteq Users /\ told \in SUBSET Mac
  BY <1>3 DEF TableInv, TableTypeOK
<1>5. \A v \in head.list \ {u} : user[v].mac = info.mac => ~is_good_mac(info.mac)
  BY <1>3 DEF TableInv, MacUnique
<1>6. /\ head' \in [list : SUBSET Users, mac : [Bucket -> SUBSET Users],
                    ip : [Bucket -> SUBSET Users], count : Int]
      /\ user' \in [Users -> UserRecord]
      /\ head'.list = head.list \cup {u}
      /\ \A v \in Users : user'[v].mac = IF v = u THEN info.mac ELSE user[v].mac
      /\ IndexConsistent' /\ CountExact' /\ MacUnique' /\ AgingInRange'
  BY <1>1, <1>3, <1>4, <1>5, ReinsertKeepsTable
<1>7. head'.list = head.list /\ \A v \in head.list : user'[v].mac = user[v].mac
  BY <1>3, <1>4, <1>6
<1>8. AnnouncedExact'
  BY <1>1, <1>7 DEF TableInv, AnnouncedExact
<1>9. TableTypeOK'
  BY <1>1, <1>4, <1>6 DEF TableTypeOK
<1> QED BY <1>6, <1>8, <1>9 DEF TableInv

\* A poll that finds a new station adds one user and announces it.
LEMMA UpdateNewKeepsInv ==
    ASSUME TableInv, NEW info \in Info, UpdateNew(info)
    PROVE  TableInv'
<1> DEFINE u == NewUser
<1>1. u \in Users /\ u \notin head.list
  BY DEF UpdateNew, NewUser
<1>2. info.mac \in Mac /\ info.local = TRUE
  BY DEF Info
<1>3. create(info.mac) \in UserRecord /\ create(info.mac).mac = info.mac
  BY <1>2, InitUserType DEF create, um_user_init, UserRecord
<1>4. \A v \in head.list \ {u} : user[v].mac = info.mac => ~is_good_mac(info.mac)
  BY <1>2, LookupByMac DEF UpdateNew
<1>5. reinsert(u, create(info.mac), info) /\ told' = told \cup {info.mac}
  BY <1>2 DEF UpdateNew
<1> HIDE DEF u
<1>6. /\ head' \in [list : SUBSET Users, mac : [Bucket -> SUBSET Users],
                    ip : [Bucket -> SUBSET Users], count : Int]
      /\ user' \in [Users -> UserRecord]
      /\ head'.list = head.list \cup {u}
      /\ \A v \in Users : user'[v].mac = IF v = u THEN info.mac ELSE user[v].mac
      /\ IndexConsistent' /\ CountExact' /\ MacUnique' /\ AgingInRange'
  BY <1>1, <1>3, <1>4, <1>5, ReinsertKeepsTable
<1>7. user'[u].mac = info.mac /\ \A v \in head.list : user'[v].mac = user[v].mac
  BY <1>1, <1>6 DEF TableInv, TableTypeOK
<1>8. AnnouncedExact'
  BY <1>5, <1>6, <1>7 DEF TableInv, AnnouncedExact
<1>9. TableTypeOK'
  BY <1>2, <1>5, <1>6 DEF TableInv, TableTypeOK
<1> QED BY <1>6, <1>8, <1>9 DEF TableInv

\* um_user_delby removes users and changes no other.
LEMMA DelbyKeepsInv ==
    ASSUME TableInv, NEW F, um_user_delby(F)
    PROVE  TableInv'
<1> DEFINE D == {u \in head.list : \E f \in F : match(u, f)}
<1>1. D \in SUBSET head.list /\ delete(D, user)
  BY DEF um_user_delby
<1> HIDE DEF D
<1>2. user \in [Users -> UserRecord]
  BY DEF TableInv, TableTypeOK
<1>3. \A u \in head.list \ D : user[u].local /\ user[u].aging \in 1..AgTimes
  BY DEF TableInv, AgingInRange
<1> QED BY <1>1, <1>2, <1>3, DeleteKeepsTable

\* An aging round removes exactly the users that would fall to zero.
LEMMA AgingKeepsInv ==
    ASSUME TableInv, aging
    PROVE  TableInv'
<1> DEFINE D == {u \in head.list : user[u].local /\ aged(u).aging <= 0}
           usr == [u \in Users |-> IF u \in head.list THEN aged(u) ELSE user[u]]
<1>1. D \in SUBSET head.list /\ delete(D, usr)
  BY DEF aging
<1>2. user \in [Users -> UserRecord] /\ head.list \subseteq Users
  BY DEF TableInv, TableTypeOK
<1>3. ASSUME NEW u \in head.list
      PROVE  /\ aged(u) \in UserRecord
             /\ aged(u).mac = user[u].mac /\ aged(u).ip = user[u].ip
             /\ aged(u).local
             /\ aged(u).aging \in Int /\ aged(u).aging <= AgTimes
  <2>1. user[u].local /\ user[u].aging \in 1..AgTimes /\ user[u] \in UserRecord
    BY <1>2 DEF TableInv, AgingInRange
  <2>2. aged(u) = [user[u] EXCEPT !.aging = user[u].aging - 1]
    BY <2>1 DEF aged
  <2>3. user[u].aging - 1 \in Int /\ user[u].aging - 1 <= AgTimes
    BY <2>1, AgTimesAssumption
  <2>4. /\ aged(u) \in UserRecord /\ aged(u).mac = user[u].mac /\ aged(u).ip = user[u].ip
        /\ aged(u).local = user[u].local /\ aged(u).aging = user[u].aging - 1
    BY <2>1, <2>2, <2>3 DEF UserRecord
  <2> QED BY <2>1, <2>3, <2>4
<1>4. usr \in [Users -> UserRecord]
  BY <1>2, <1>3
<1>5. \A u \in Users : usr[u].mac = user[u].mac /\ usr[u].ip = user[u].ip
  BY <1>2, <1>3
<1>6. ASSUME NEW u \in head.list \ D
      PROVE  usr[u].local /\ usr[u].aging \in 1..AgTimes
  <2>1. usr[u] = aged(u)
    BY <1>2
  <2>2. user[u].local
    BY DEF TableInv, AgingInRange
  <2>3. ~(aged(u).aging <= 0)
    BY <2>2
  <2> HIDE DEF usr, D
  <2>4. aged(u).aging \in 1..AgTimes
    BY <2>3, <1>3, AgTimesAssumption
  <2> QED BY <2>1, <2>4, <1>3
<1> HIDE DEF usr, D
<1> QED BY <1>1, <1>4, <1>5, <1>6, DeleteKeepsTable

-----------------------------------------------------------------------------
\* The empty table satisfies the invariant.
LEMMA TableInitInv == TableInit => TableInv
<1> SUFFICES ASSUME TableInit PROVE TableInv
  OBVIOUS
<1> USE DEF TableInit, EmptyHead
<1>1. TableTypeOK
  BY InitUserType DEF TableTypeOK
<1>2. CountExact
  BY FS_EmptySet DEF CountExact
<1>3. IndexConsistent /\ MacUnique /\ AnnouncedExact /\ AgingInRange
  BY DEF IndexConsistent, MacUnique, AnnouncedExact, AgingInRange
<1> QED BY <1>1, <1>2, <1>3 DEF TableInv

\* Every operation of the table preserves the invariant.
LEMMA TableNextInv == TableInv /\ [TableNext]_tableVars => TableInv'
<1> SUFFICES ASSUME TableInv, [TableNext]_tableVars PROVE TableInv'
  OBVIOUS
<1>1. ASSUME NEW info \in Info, um_user_update(info) PROVE TableInv'
  BY <1>1, UpdateKnownKeepsInv, UpdateNewKeepsInv DEF um_user_update
<1>2. ASSUME NEW F \in SUBSET Filter, um_user_delby(F) PROVE TableInv'
  BY <1>2, DelbyKeepsInv
<1>3. CASE aging
  BY <1>3, AgingKeepsInv
<1>4. CASE UNCHANGED tableVars
  BY <1>4 DEF tableVars, TableInv, TableTypeOK, IndexConsistent, CountExact, MacUnique,
              AnnouncedExact, AgingInRange
<1> QED BY <1>1, <1>2, <1>3, <1>4 DEF TableNext

\* The macs in the list.
Macs == {user[u].mac : u \in head.list}

\* A refresh leaves the set of listed macs alone.
LEMMA KnownKeepsMacs ==
    ASSUME TableInv, NEW info \in Info, UpdateKnown(info)
    PROVE  Macs' = Macs
<1>1. PICK u \in um_user_getbymac(info.mac) : reinsert(u, user[u], info)
  BY DEF UpdateKnown
<1>2. info.mac \in Mac
  BY DEF Info
<1>3. u \in head.list /\ user[u].mac = info.mac
  BY <1>1, <1>2, LookupByMac
<1>4. /\ user \in [Users -> UserRecord] /\ head.list \subseteq Users
  BY DEF TableInv, TableTypeOK
<1>5. head'.list = head.list
  BY <1>1, <1>3 DEF reinsert, insert, remove
<1>6. \A v \in Users : user'[v].mac = user[v].mac
  BY <1>1, <1>4 DEF reinsert, l2user_update
<1> QED BY <1>4, <1>5, <1>6 DEF Macs

\* A new user adds its mac.
LEMMA NewAddsMac ==
    ASSUME TableInv, NEW info \in Info, UpdateNew(info)
    PROVE  Macs' = Macs \cup {info.mac}
<1> DEFINE u == NewUser
<1>1. u \in Users /\ u \notin head.list
  BY DEF UpdateNew, NewUser
<1>2. reinsert(u, create(info.mac), info)
  BY DEF UpdateNew
<1> HIDE DEF u
<1>3. user \in [Users -> UserRecord] /\ head.list \subseteq Users
  BY DEF TableInv, TableTypeOK
<1>4. head'.list = head.list \cup {u}
  BY <1>1, <1>2 DEF reinsert, insert, remove
<1>5. create(info.mac).mac = info.mac
  BY DEF create, um_user_init
<1>6. user'[u].mac = info.mac /\ \A v \in head.list : user'[v].mac = user[v].mac
  BY <1>1, <1>2, <1>3, <1>5 DEF reinsert, l2user_update
<1> QED BY <1>4, <1>6 DEF Macs

\* Aging and reloads only take users out; the others keep their macs.
LEMMA DeletionRemoves ==
    ASSUME TableInv, aging \/ \E F : um_user_delby(F)
    PROVE  head'.list \subseteq head.list /\ \A u \in head'.list : user'[u].mac = user[u].mac
<1>1. user \in [Users -> UserRecord] /\ head.list \subseteq Users
  BY DEF TableInv, TableTypeOK
<1>2. ASSUME NEW D, NEW usr, delete(D, usr), D \subseteq head.list,
             \A u \in Users : usr[u].mac = user[u].mac
      PROVE  head'.list \subseteq head.list /\ \A u \in head'.list : user'[u].mac = user[u].mac
  <2>1. head'.list = head.list \ D
    BY <1>2 DEF delete, remove
  <2>2. \A u \in Users \ D : user'[u].mac = user[u].mac
    BY <1>2 DEF delete
  <2> QED BY <2>1, <2>2, <1>1
<1>3. CASE aging
  <2> DEFINE D == {u \in head.list : user[u].local /\ aged(u).aging <= 0}
             usr == [u \in Users |-> IF u \in head.list THEN aged(u) ELSE user[u]]
  <2>1. delete(D, usr) /\ D \subseteq head.list
    BY <1>3 DEF aging
  <2>2. \A u \in Users : usr[u].mac = user[u].mac
    BY <1>1 DEF aged, UserRecord
  <2> HIDE DEF D, usr
  <2> QED BY <2>1, <2>2, <1>2
<1>4. CASE \E F : um_user_delby(F)
  <2>1. PICK F : um_user_delby(F)
    BY <1>4
  <2> DEFINE D == {u \in head.list : \E f \in F : match(u, f)}
  <2>2. delete(D, user) /\ D \subseteq head.list
    BY <2>1 DEF um_user_delby
  <2> HIDE DEF D
  <2> QED BY <2>2, <1>2
<1> QED BY <1>3, <1>4

\* In every behaviour of the table the list, the mac and ip chains and the
\* count agree, each station is in the table once, the um.new and um.delete
\* events announce exactly the stations in it, and every user still has
\* aging rounds left.
THEOREM TableCorrect == TableSpec => []TableInv
<1>1. TableInit => TableInv
  BY TableInitInv
<1>2. TableInv /\ [TableNext]_tableVars => TableInv'
  BY TableNextInv
<1> QED BY <1>1, <1>2, PTL DEF TableSpec

\* The hash chains index exactly the users of the list (user.c __insert,
\* __remove, um_user_update).
THEOREM TableIndexConsistent == TableSpec => []IndexConsistent
BY TableCorrect, PTL DEF TableInv

\* One um.new per station that enters, one um.delete per station that goes.
THEOREM TableAnnouncedExact == TableSpec => []AnnouncedExact
BY TableCorrect, PTL DEF TableInv
=============================================================================
