--------------------------- MODULE NetworkProofs ----------------------------
(* Proofs about Dhcpd and WifiManager, for any number of stations, addresses *)
(* and events: no station is written into two items, an address in use       *)
(* belongs to its user unless a release freed it too early, and that happens *)
(* in two ways only.                                                         *)
EXTENDS WifiManager, FiniteSetTheorems, TLAPS

-----------------------------------------------------------------------------
(* The pool                                                                  *)

\* The loops of ip_allocator.c end at the first item that they look for.
LEMMA FirstItem ==
    ASSUME NEW S, S \subseteq Items, S # {}
    PROVE  Min(S) \in S
<1>1. S \subseteq Nat
  BY DhcpdAssumption DEF Items
<1>2. PICK x \in S : \A y \in S : ~(<<y, x>> \in OpToRel(<, Nat))
  BY <1>1, WFMin, NatLessThanWellFounded, Zenon
<1>3. \A y \in S : x =< y
  <2> TAKE y \in S
  <2>1. x \in Nat /\ y \in Nat
    BY <1>1
  <2>2. ~(y < x)
    BY <1>2, <2>1, Zenon DEF OpToRel
  <2> QED
    BY <2>1, <2>2
<1> QED
  BY <1>3, Zenon DEF Min

\* What the two searches return for a station: its own item, or, when it has none,
\* at most one that is not allocted.
LEMMA Searches ==
    ASSUME DhcpdTypeOK, NEW s
    PROVE  /\ get_ip_item(s) \in 0 .. NumItems
           /\ get_ip_item(s) # 0 => /\ get_ip_item(s) \in Items
                                    /\ pool[get_ip_item(s)].mac = s
           /\ ItemsOf(s) # {} => get_ip_item(s) # 0
           /\ get_next_usable_ip_item(s) \in 0 .. NumItems
           /\ get_next_usable_ip_item(s) # 0 =>
                  /\ get_next_usable_ip_item(s) \in Items
                  /\ \/ pool[get_next_usable_ip_item(s)].mac = s
                     \/ /\ ItemsOf(s) = {}
                        /\ ~pool[get_next_usable_ip_item(s)].allocted
<1>1. /\ ItemsOf(s) \subseteq Items /\ Unallocted \subseteq Items
      /\ Unallocted \cap ItemsOf(NoMac) \subseteq Items
      /\ Items \subseteq 0 .. NumItems /\ 0 \notin Items /\ 0 \in 0 .. NumItems
  BY DhcpdAssumption DEF ItemsOf, Unallocted, Items
<1>2. /\ ItemsOf(s) # {} => Min(ItemsOf(s)) \in ItemsOf(s)
      /\ Unallocted # {} => Min(Unallocted) \in Unallocted
      /\ Unallocted \cap ItemsOf(NoMac) # {} =>
             Min(Unallocted \cap ItemsOf(NoMac)) \in Unallocted
  BY <1>1, FirstItem, Zenon
<1>3. /\ \A i \in ItemsOf(s) : i \in Items /\ pool[i].mac = s
      /\ \A i \in Unallocted : i \in Items /\ ~pool[i].allocted
  BY DEF ItemsOf, Unallocted
<1>4. /\ get_ip_item(s) \in 0 .. NumItems
      /\ get_ip_item(s) # 0 => /\ get_ip_item(s) \in Items
                               /\ pool[get_ip_item(s)].mac = s
      /\ ItemsOf(s) # {} => get_ip_item(s) # 0
  <2>1. CASE ItemsOf(s) = {}
    BY <1>1, <2>1, Zenon DEF get_ip_item
  <2>2. CASE ItemsOf(s) # {}
    <3>1. get_ip_item(s) = Min(ItemsOf(s))
      BY <2>2, Zenon DEF get_ip_item
    <3> QED
      BY <1>1, <1>2, <1>3, <2>2, <3>1, Zenon
  <2> QED
    BY <2>1, <2>2
<1>5. \/ get_next_usable_ip_item(s) = 0
      \/ get_next_usable_ip_item(s) \in ItemsOf(s)
      \/ ItemsOf(s) = {} /\ get_next_usable_ip_item(s) \in Unallocted
  BY <1>2, Zenon DEF get_next_usable_ip_item
<1> QED
  BY <1>1, <1>3, <1>4, <1>5, Zenon

-----------------------------------------------------------------------------
(* The invariant of the server, the stations and the pool                    *)

\* The message in work comes from a station and has an item.
InWork == srv.pc \in {"mark", "alloc", "reply"} =>
              srv.sta \in Stations /\ srv.item \in Items

\* Every item that names a station is the only one that does.
OneItem == \A i \in Items, j \in Items :
               pool[i].mac = pool[j].mac /\ pool[i].mac # NoMac => i = j

\* The item chosen for a station is the only one that can name it, and does once
\* dhcpd_ip_allocate has written the hardware address.
Chosen ==
    /\ srv.pc = "mark" => \A i \in Items : pool[i].mac = srv.sta => i = srv.item
    /\ srv.pc \in {"alloc", "reply"} => pool[srv.item].mac = srv.sta

\* A REQUEST under way of a station that has an address is for that address; a
\* station does not send while it waits for an answer.
Bound(s) == sta[s].st = "bound"
Requests ==
    \A s \in Stations :
        /\ Bound(s) /\ mbox[s].type = "request" => mbox[s].ip = sta[s].ip
        /\ srv.sta = s =>
               /\ Bound(s) /\ srv.msg.type = "request" => srv.msg.ip = sta[s].ip
               /\ srv.msg.live => mbox[s] = NoMsg

\* Before the access point is up there is no server and no station.
Cold == ~nif.apLink => /\ ~flag /\ srv.pc = "off"
                       /\ \A s \in Stations : sta[s].st = "out"

\* The addresses in use: of stations that are bound, of the one that the server is
\* about to acknowledge, and of none that another station may be given.
HoldersKnown ==
    ~early => \A s \in Stations : Bound(s) /\ sta[s].ip \in Items =>
                  pool[sta[s].ip] = [mac |-> s, allocted |-> TRUE]
AckedKnown ==
    ~early /\ srv.pc = "reply" /\ srv.msg.type = "request" /\ srv.msg.ip = srv.item
        /\ srv.msg.live => pool[srv.item].allocted
ChosenFree ==
    ~early /\ srv.pc = "mark" =>
        \A s \in Stations : Bound(s) /\ sta[s].ip = srv.item => s = srv.sta

PoolInv == /\ DhcpdTypeOK /\ early \in BOOLEAN /\ nif.apLink \in BOOLEAN
           /\ InWork /\ OneItem /\ Chosen /\ Requests /\ Cold
           /\ HoldersKnown /\ AckedKnown /\ ChosenFree

\* It does not depend on the rest.
LEMMA PoolUnchanged ==
    PoolInv /\ UNCHANGED <<dhcpdVars, early, nif.apLink>> => PoolInv'
<1> SUFFICES ASSUME PoolInv, UNCHANGED <<dhcpdVars, early, nif.apLink>> PROVE PoolInv'
  OBVIOUS
<1>1. /\ pool' = pool /\ flag' = flag /\ srv' = srv /\ mbox' = mbox /\ sta' = sta
      /\ early' = early /\ nif'.apLink = nif.apLink
  BY DEF dhcpdVars
<1> QED
  BY <1>1 DEF PoolInv, DhcpdTypeOK, InWork, OneItem, Chosen, Requests, Bound, Cold,
              HoldersKnown, AckedKnown, ChosenFree

\* What it says of the properties
LEMMA PoolImplies == PoolInv => OneItemPerStation /\ Leased
<1> SUFFICES ASSUME PoolInv PROVE OneItemPerStation /\ Leased
  OBVIOUS
<1>1. OneItemPerStation
  <2> SUFFICES ASSUME NEW s \in Stations PROVE Cardinality(ItemsOf(s)) <= 1
    BY DEF OneItemPerStation
  <2>1. CASE ItemsOf(s) = {}
    BY <2>1, FS_EmptySet
  <2>2. CASE ItemsOf(s) # {}
    <3>1. PICK i \in ItemsOf(s) : TRUE
      BY <2>2
    <3>2. s # NoMac
      BY DhcpdAssumption
    <3>3. ItemsOf(s) = {i}
      BY <3>1, <3>2 DEF PoolInv, OneItem, ItemsOf
    <3> QED
      BY <3>3, FS_Singleton, SMTT(30)
  <2> QED
    BY <2>1, <2>2
<1>2. Leased
  <2> SUFFICES ASSUME ~early, NEW i \in Items, NEW s \in Users(i)
               PROVE  pool[i] = [mac |-> s, allocted |-> TRUE]
    BY DEF Leased
  <2>1. CASE s \in Holders(i)
    BY <2>1 DEF Holders, PoolInv, HoldersKnown, Bound
  <2>2. CASE s \in Acked(i)
    <3>1. /\ srv.pc = "reply" /\ srv.msg.type = "request"
          /\ srv.msg.live /\ srv.item = i /\ srv.msg.ip = i /\ s = srv.sta
      BY <2>2 DEF Acked
    <3>2. pool[i].mac = s /\ pool[i].allocted
      BY <3>1 DEF PoolInv, Chosen, AckedKnown
    <3>3. pool[i] \in [mac : Stations \cup {NoMac}, allocted : BOOLEAN]
      BY DEF PoolInv, DhcpdTypeOK
    <3> QED
      BY <3>2, <3>3
  <2> QED
    BY <2>1, <2>2 DEF Users
<1> QED
  BY <1>1, <1>2

-----------------------------------------------------------------------------
(* The server                                                                *)

Pools == [Items -> [mac : Stations \cup {NoMac}, allocted : BOOLEAN]]
StaTypes == [Stations -> [st : {"out", "ask", "bound"}, ip : 0 .. NumItems]]

\* The status of one item changes, and nothing else.
LEMMA SetStatus ==
    ASSUME DhcpdTypeOK, NEW i \in Items, NEW b \in BOOLEAN,
           pool' = set_ip_item_status(i, b)
    PROVE  /\ pool' \in Pools
           /\ \A j \in Items : pool'[j].mac = pool[j].mac
           /\ \A j \in Items \ {i} : pool'[j] = pool[j]
           /\ pool'[i] = [mac |-> pool[i].mac, allocted |-> b]
<1>1. pool \in Pools
  BY DEF DhcpdTypeOK, Pools
<1>2. [pool[i] EXCEPT !.allocted = b] = [mac |-> pool[i].mac, allocted |-> b]
  <2>1. pool[i] \in [mac : Stations \cup {NoMac}, allocted : BOOLEAN]
    BY <1>1 DEF Pools
  <2> QED
    BY <2>1
<1>3. pool' = [pool EXCEPT ![i] = [mac |-> pool[i].mac, allocted |-> b]]
  BY <1>2, Zenon DEF set_ip_item_status
<1> QED
  BY <1>1, <1>3 DEF Pools

\* At the end of a turn of the loop no message is in work: what remains to be shown is
\* about the pool, the stations and what is in the socket.
LEMMA AgainStep ==
    ASSUME PoolInv, srv.pc # "off", NEW box \in [Stations -> Message], Again(box),
           flag' = flag, early' = early, nif'.apLink = nif.apLink,
           pool' \in Pools, sta' \in StaTypes, OneItem', HoldersKnown',
           \A s \in Stations : sta'[s].st = "bound" /\ box[s].type = "request" =>
                                   box[s].ip = sta'[s].ip
    PROVE  PoolInv'
<1>0. NoMac \notin Stations /\ 0 \in 0 .. NumItems
  BY DhcpdAssumption
<1>1. NoMsg \in Message /\ NoMsg.type # "request"
  BY <1>0 DEF NoMsg, Message
<1>2. PICK pc \in {"select", "off"} : srv' = SrvAt(pc)
  BY DEF Again
<1>3. /\ srv' \in [pc : {"off", "select", "mark", "alloc", "reply"},
                   sta : Stations \cup {NoMac}, item : 0 .. NumItems, msg : Message]
      /\ srv'.pc \in {"select", "off"} /\ srv'.sta \notin Stations
  BY <1>0, <1>1, <1>2 DEF SrvAt
<1>4. mbox' = box \/ mbox' = [s \in Stations |-> NoMsg]
  BY DEF Again
<1>5. mbox' \in [Stations -> Message]
  BY <1>1, <1>4
<1>6. nif.apLink
  BY DEF PoolInv, Cold
<1>7. \A s \in Stations : sta'[s].st = "bound" /\ mbox'[s].type = "request" =>
                              mbox'[s].ip = sta'[s].ip
  BY <1>1, <1>4
<1>8. DhcpdTypeOK'
  BY <1>3, <1>5 DEF DhcpdTypeOK, PoolInv, Pools, StaTypes
<1>9. InWork' /\ Chosen' /\ AckedKnown' /\ ChosenFree'
  BY <1>3 DEF InWork, Chosen, AckedKnown, ChosenFree
<1>10. Requests'
  BY <1>3, <1>7 DEF Requests, Bound
<1>11. Cold'
  BY <1>6 DEF Cold
<1> QED
  BY <1>8, <1>9, <1>10, <1>11 DEF PoolInv

\* While the server is in a turn, and when a step leaves pool and stations alone
LEMMA PoolKept ==
    ASSUME PoolInv, pool' = pool, sta' = sta, early' = early
    PROVE  /\ pool' \in Pools /\ sta' \in StaTypes /\ OneItem' /\ HoldersKnown'
           /\ \A s \in Stations : sta'[s].st = "bound" /\ mbox[s].type = "request" =>
                                      mbox[s].ip = sta'[s].ip
  BY DEF PoolInv, DhcpdTypeOK, Pools, StaTypes, OneItem, HoldersKnown, Bound, Requests

\* The loop notices a stop: nothing but the socket and the task is touched.
LEMMA SelectTimeoutInv ==
    ASSUME PoolInv, SelectTimeout, early' = early, nif'.apLink = nif.apLink
    PROVE  PoolInv'
<1>1. mbox \in [Stations -> Message] /\ Again(mbox) /\ srv.pc # "off"
  BY DEF PoolInv, DhcpdTypeOK, SelectTimeout
<1>2. flag' = flag /\ pool' = pool /\ sta' = sta
  BY DEF SelectTimeout
<1> QED
  BY <1>1, <1>2, PoolKept, AgainStep

\* The scan of the pool: what is chosen is the station's own item, or one that nobody uses
\* while the station has none.
LEMMA RecvInv ==
    ASSUME PoolInv, NEW s \in Stations, Recv(s), early' = early,
           nif'.apLink = nif.apLink
    PROVE  PoolInv'
<1> DEFINE i == get_next_usable_ip_item(s)
           box == [mbox EXCEPT ![s] = NoMsg]
<1>1. /\ srv.pc = "select" /\ flag' = flag /\ pool' = pool /\ sta' = sta
      /\ IF i = 0 THEN Again(box)
         ELSE /\ mbox' = box
              /\ srv' = [pc |-> "mark", sta |-> s, item |-> i, msg |-> mbox[s]]
  BY DEF Recv
<1>2. NoMsg \in Message /\ NoMsg.type # "request"
  BY DhcpdAssumption DEF NoMsg, Message
<1>3. mbox \in [Stations -> Message] /\ box \in [Stations -> Message]
  BY <1>2 DEF PoolInv, DhcpdTypeOK
<1>4. \A t \in Stations : box[t] = NoMsg \/ box[t] = mbox[t]
  BY <1>3
<1>5. box[s] = NoMsg
  BY <1>3
<1>6. \A t \in Stations : sta'[t].st = "bound" /\ box[t].type = "request" =>
                              box[t].ip = sta'[t].ip
  BY <1>1, <1>2, <1>4, PoolKept
<1>7. /\ i \in 0 .. NumItems
      /\ i # 0 => /\ i \in Items
                  /\ \/ pool[i].mac = s
                     \/ ItemsOf(s) = {} /\ ~pool[i].allocted
  BY Searches DEF PoolInv
<1> HIDE DEF i, box
<1>8. CASE i = 0
  BY <1>1, <1>3, <1>6, <1>8, PoolKept, AgainStep
<1>9. CASE i # 0
  <2>1. /\ mbox' = box /\ srv' = [pc |-> "mark", sta |-> s, item |-> i, msg |-> mbox[s]]
        /\ srv'.pc = "mark" /\ srv'.sta = s /\ srv'.item = i /\ srv'.msg = mbox[s]
    BY <1>1, <1>9
  <2>2. DhcpdTypeOK'
    BY <1>1, <1>3, <1>7, <2>1 DEF PoolInv, DhcpdTypeOK
  <2>3. InWork' /\ AckedKnown'
    BY <1>7, <1>9, <2>1 DEF InWork, AckedKnown
  <2>4. OneItem' /\ HoldersKnown'
    BY <1>1, PoolKept
  <2>5. s # NoMac
    BY DhcpdAssumption
  <2>6. Chosen'
    BY <1>1, <1>7, <1>9, <2>1, <2>5 DEF PoolInv, OneItem, Chosen, ItemsOf
  <2>7. Requests'
    BY <1>1, <1>5, <1>6, <2>1 DEF PoolInv, Requests, Bound
  <2>8. Cold'
    BY <1>1, <2>1 DEF PoolInv, Cold
  <2>9. ChosenFree'
    <3> SUFFICES ASSUME ~early, NEW t \in Stations, Bound(t), sta[t].ip = i PROVE t = s
      BY <1>1, <2>1 DEF ChosenFree, Bound
    <3>1. pool[i] = [mac |-> t, allocted |-> TRUE]
      BY <1>7, <1>9 DEF PoolInv, HoldersKnown
    <3> QED
      BY <3>1, <1>7, <1>9
  <2> QED
    BY <2>2, <2>3, <2>4, <2>6, <2>7, <2>8, <2>9 DEF PoolInv
<1> QED
  BY <1>8, <1>9

\* The write of the hardware address takes the item from nobody who uses it.
LEMMA MarkItemInv ==
    ASSUME PoolInv, MarkItem, early' = early, nif'.apLink = nif.apLink
    PROVE  PoolInv'
<1> DEFINE s == srv.sta
           i == srv.item
<1>1. /\ srv.pc = "mark" /\ s \in Stations /\ i \in Items /\ s # NoMac
      /\ flag' = flag /\ sta' = sta
      /\ pool' = [pool EXCEPT ![i].mac = s]
      /\ IF srv.msg.type = "inform" THEN Again(mbox)
         ELSE /\ srv' = [srv EXCEPT !.pc = IF srv.msg.type = "request"
                                           THEN "alloc" ELSE "reply"]
              /\ mbox' = mbox
  BY DhcpdAssumption DEF MarkItem, PoolInv, InWork
<1>2. pool \in Pools /\ sta' \in StaTypes /\ mbox \in [Stations -> Message]
  BY <1>1 DEF PoolInv, DhcpdTypeOK, Pools, StaTypes
<1>3. [pool[i] EXCEPT !.mac = s] = [mac |-> s, allocted |-> pool[i].allocted]
  <2>1. pool[i] \in [mac : Stations \cup {NoMac}, allocted : BOOLEAN]
    BY <1>1, <1>2 DEF Pools
  <2> QED
    BY <2>1
<1>4. pool' = [pool EXCEPT ![i] = [mac |-> s, allocted |-> pool[i].allocted]]
  BY <1>1, <1>3, Zenon
<1>5. /\ pool' \in Pools
      /\ \A j \in Items \ {i} : pool'[j] = pool[j]
      /\ pool'[i].mac = s /\ pool'[i].allocted = pool[i].allocted
  BY <1>1, <1>2, <1>4 DEF Pools
<1>6. \A j \in Items : pool[j].mac = s => j = i
  BY <1>1 DEF PoolInv, Chosen
<1>7. OneItem'
  <2> SUFFICES ASSUME NEW j \in Items, NEW k \in Items, pool'[j].mac = pool'[k].mac,
                      pool'[j].mac # NoMac
               PROVE  j = k
    BY DEF OneItem
  <2> QED
    BY <1>5, <1>6 DEF PoolInv, OneItem
<1>8. HoldersKnown'
  <2> SUFFICES ASSUME ~early, NEW t \in Stations, sta[t].st = "bound", sta[t].ip \in Items
               PROVE  pool'[sta[t].ip] = [mac |-> t, allocted |-> TRUE]
    BY <1>1 DEF HoldersKnown, Bound
  <2>1. pool[sta[t].ip] = [mac |-> t, allocted |-> TRUE]
    BY DEF PoolInv, HoldersKnown, Bound
  <2>2. CASE sta[t].ip # i
    BY <1>5, <2>1, <2>2
  <2>3. CASE sta[t].ip = i
    <3>1. t = s
      BY <1>1, <2>3 DEF PoolInv, ChosenFree, Bound
    <3> QED
      BY <1>1, <1>2, <1>4, <2>1, <2>3, <3>1 DEF Pools
  <2> QED
    BY <2>2, <2>3
<1>9. \A t \in Stations : sta'[t].st = "bound" /\ mbox[t].type = "request" =>
                              mbox[t].ip = sta'[t].ip
  BY <1>1 DEF PoolInv, Requests, Bound
<1>10. CASE srv.msg.type = "inform"
  BY <1>1, <1>2, <1>5, <1>7, <1>8, <1>9, <1>10, AgainStep
<1>11. CASE srv.msg.type # "inform"
  <2>1. PICK pc \in {"alloc", "reply"} :
            /\ srv' = [srv EXCEPT !.pc = pc]
            /\ pc = "reply" => srv.msg.type # "request"
    BY <1>1, <1>11
  <2>2. srv \in [pc : {"off", "select", "mark", "alloc", "reply"},
                 sta : Stations \cup {NoMac}, item : 0 .. NumItems, msg : Message]
    BY DEF PoolInv, DhcpdTypeOK
  <2>3. /\ srv' \in [pc : {"off", "select", "mark", "alloc", "reply"},
                     sta : Stations \cup {NoMac}, item : 0 .. NumItems, msg : Message]
        /\ srv'.pc = pc /\ srv'.sta = s /\ srv'.item = i /\ srv'.msg = srv.msg
    BY <2>1, <2>2
  <2>4. mbox' = mbox
    BY <1>1, <1>11
  <2> HIDE DEF s, i
  <2>5. DhcpdTypeOK'
    BY <1>1, <1>2, <1>5, <2>3, <2>4 DEF PoolInv, DhcpdTypeOK, Pools
  <2>6. InWork' /\ Chosen' /\ ChosenFree' /\ AckedKnown'
    BY <1>1, <1>5, <2>1, <2>3 DEF InWork, Chosen, ChosenFree, AckedKnown
  <2>7. Requests'
    BY <1>1, <1>9, <2>3, <2>4 DEF PoolInv, Requests, Bound, s
  <2>8. Cold'
    BY <1>1, <2>3 DEF PoolInv, Cold
  <2> QED
    BY <1>7, <1>8, <2>5, <2>6, <2>7, <2>8 DEF PoolInv
<1> QED
  BY <1>10, <1>11

\* The status is set for the station that the item names.
LEMMA AllocItemInv ==
    ASSUME PoolInv, AllocItem, early' = early, nif'.apLink = nif.apLink
    PROVE  PoolInv'
<1> DEFINE s == srv.sta
           i == srv.item
<1>1. /\ srv.pc = "alloc" /\ s \in Stations /\ i \in Items
      /\ flag' = flag /\ sta' = sta /\ mbox' = mbox
      /\ pool' = set_ip_item_status(i, TRUE)
      /\ srv' = [srv EXCEPT !.pc = "reply"]
  BY DEF AllocItem, PoolInv, InWork
<1>2. /\ srv' \in [pc : {"off", "select", "mark", "alloc", "reply"},
                   sta : Stations \cup {NoMac}, item : 0 .. NumItems, msg : Message]
      /\ srv'.pc = "reply" /\ srv'.sta = s /\ srv'.item = i /\ srv'.msg = srv.msg
  BY <1>1 DEF PoolInv, DhcpdTypeOK
<1>3. /\ pool' \in Pools
      /\ \A j \in Items : pool'[j].mac = pool[j].mac
      /\ \A j \in Items \ {i} : pool'[j] = pool[j]
      /\ pool'[i] = [mac |-> pool[i].mac, allocted |-> TRUE]
  BY <1>1, SetStatus DEF PoolInv
<1> HIDE DEF s, i
<1>4. DhcpdTypeOK'
  BY <1>1, <1>2, <1>3 DEF PoolInv, DhcpdTypeOK, Pools
<1>5. OneItem'
  BY <1>3 DEF PoolInv, OneItem
<1>6. pool[i].mac = s
  BY <1>1 DEF PoolInv, Chosen, s, i
<1>7. InWork' /\ Chosen' /\ ChosenFree' /\ AckedKnown'
  <2>1. pool'[i].allocted /\ pool'[i].mac = s
    <3>1. pool'[i] = [mac |-> s, allocted |-> TRUE]
      BY <1>3, <1>6
    <3>2. pool'[i].allocted = TRUE /\ pool'[i].mac = s
      BY <3>1
    <3> QED
      BY <3>2, Zenon
  <2> QED
    BY <1>1, <1>2, <2>1 DEF InWork, Chosen, ChosenFree, AckedKnown
<1>8. Requests'
  BY <1>1, <1>2 DEF PoolInv, Requests, Bound, s
<1>9. Cold'
  BY <1>1, <1>2 DEF PoolInv, Cold
<1>10. HoldersKnown'
  <2> SUFFICES ASSUME ~early, NEW t \in Stations, sta[t].st = "bound", sta[t].ip \in Items
               PROVE  pool'[sta[t].ip] = [mac |-> t, allocted |-> TRUE]
    BY <1>1 DEF HoldersKnown, Bound
  <2>1. pool[sta[t].ip] = [mac |-> t, allocted |-> TRUE]
    BY DEF PoolInv, HoldersKnown, Bound
  <2>2. CASE sta[t].ip = i
    <3>1. pool[i].mac = t
      BY <2>1, <2>2
    <3> QED
      BY <1>3, <2>2, <3>1
  <2>3. CASE sta[t].ip # i
    BY <1>3, <2>1, <2>3
  <2> QED
    BY <2>2, <2>3
<1> QED
  BY <1>4, <1>5, <1>7, <1>8, <1>9, <1>10 DEF PoolInv

\* A station that takes an offer asks for it, and has nothing else in the socket.
LEMMA ReplyOfferInv ==
    ASSUME PoolInv, ReplyOffer, early' = early, nif'.apLink = nif.apLink
    PROVE  PoolInv'
<1> DEFINE s == srv.sta
           i == srv.item
           box == [mbox EXCEPT ![s] = Msg("request", i)]
<1>1. /\ srv.pc = "reply" /\ s \in Stations /\ i \in Items
      /\ flag' = flag /\ pool' = pool
  BY DEF ReplyOffer, PoolInv, InWork
<1>2. /\ mbox \in [Stations -> Message] /\ i \in 0 .. NumItems /\ sta \in StaTypes
      /\ pool' \in Pools /\ OneItem'
  BY <1>1 DEF PoolInv, DhcpdTypeOK, StaTypes, Pools, OneItem
<1>3. CASE Again(mbox) /\ UNCHANGED sta
  BY <1>1, <1>2, <1>3, PoolKept, AgainStep
<1>4. CASE Again(box) /\ sta' = [sta EXCEPT ![s] = [st |-> "ask", ip |-> i]]
  <2>1. box \in [Stations -> Message]
    BY <1>1, <1>2 DEF Msg, Message
  <2>2. sta' \in StaTypes
    BY <1>1, <1>2, <1>4 DEF StaTypes
  <2>3. \A t \in Stations : sta'[t].st = "bound" =>
            t # s /\ sta'[t] = sta[t] /\ box[t] = mbox[t]
    BY <1>1, <1>2, <1>4 DEF StaTypes
  <2> HIDE DEF s, i, box
  <2>4. HoldersKnown'
    BY <1>1, <2>3 DEF PoolInv, HoldersKnown, Bound
  <2>5. \A t \in Stations : sta'[t].st = "bound" /\ box[t].type = "request" =>
                                box[t].ip = sta'[t].ip
    BY <2>3 DEF PoolInv, Requests, Bound
  <2> QED
    BY <1>1, <1>2, <1>4, <2>1, <2>2, <2>4, <2>5, AgainStep
<1> QED
  BY <1>3, <1>4 DEF ReplyOffer

\* An acknowledgement reaches a station whose item is allocted in its name.
LEMMA ReplyAckInv ==
    ASSUME PoolInv, ReplyAck, early' = early, nif'.apLink = nif.apLink
    PROVE  PoolInv'
<1> DEFINE s == srv.sta
           i == srv.item
<1>1. /\ srv.pc = "reply" /\ s \in Stations /\ i \in Items
      /\ flag' = flag /\ pool' = pool /\ Again(mbox)
      /\ srv.msg.type = "request" /\ srv.msg.ip = i
  BY DEF ReplyAck, PoolInv, InWork
<1>2. /\ mbox \in [Stations -> Message] /\ i \in 0 .. NumItems /\ sta \in StaTypes
      /\ pool' \in Pools /\ OneItem'
  BY <1>1 DEF PoolInv, DhcpdTypeOK, StaTypes, Pools, OneItem
<1>3. CASE UNCHANGED sta
  BY <1>1, <1>2, <1>3, PoolKept, AgainStep
<1>4. CASE Heard(s) /\ sta' = [sta EXCEPT ![s] = [st |-> "bound", ip |-> i]]
  <2>1. srv.msg.live
    BY <1>4 DEF Heard
  <2>2. mbox[s] = NoMsg /\ NoMsg.type # "request"
    BY <1>1, <2>1 DEF PoolInv, Requests, NoMsg
  <2>3. sta' \in StaTypes /\ sta'[s].ip = i
    BY <1>1, <1>2, <1>4 DEF StaTypes
  <2>4. \A t \in Stations \ {s} : sta'[t] = sta[t]
    BY <1>1, <1>2, <1>4 DEF StaTypes
  <2>5. ~early => pool[i] = [mac |-> s, allocted |-> TRUE]
    <3>1. pool[i] \in [mac : Stations \cup {NoMac}, allocted : BOOLEAN]
      BY <1>1 DEF PoolInv, DhcpdTypeOK
    <3>2. ~early => pool[i].mac = s /\ pool[i].allocted
      BY <1>1, <2>1 DEF PoolInv, Chosen, AckedKnown
    <3> QED
      BY <3>1, <3>2
  <2> HIDE DEF s, i
  <2>6. HoldersKnown'
    BY <1>1, <2>3, <2>4, <2>5 DEF PoolInv, HoldersKnown, Bound
  <2>7. \A t \in Stations : sta'[t].st = "bound" /\ mbox[t].type = "request" =>
                                mbox[t].ip = sta'[t].ip
    BY <2>2, <2>4 DEF PoolInv, Requests, Bound
  <2> QED
    BY <1>1, <1>2, <2>3, <2>6, <2>7, AgainStep
<1> QED
  BY <1>3, <1>4 DEF ReplyAck

\* A NAK sets free the station's own item, which the station does not use: a bound
\* station asks for nothing else than what it has.
LEMMA ReplyNakInv ==
    ASSUME PoolInv, ReplyNak, early' = early, nif'.apLink = nif.apLink
    PROVE  PoolInv'
<1> DEFINE s == srv.sta
           i == srv.item
<1>1. /\ srv.pc = "reply" /\ s \in Stations /\ i \in Items /\ s # NoMac
      /\ flag' = flag /\ pool' = set_ip_item_status(get_ip_item(s), FALSE)
      /\ Again(mbox) /\ srv.msg.type = "request" /\ srv.msg.ip # i
  BY DhcpdAssumption DEF ReplyNak, PoolInv, InWork
<1>2. mbox \in [Stations -> Message] /\ sta \in StaTypes /\ pool[i].mac = s
  BY <1>1 DEF PoolInv, DhcpdTypeOK, StaTypes, Chosen
<1>3. get_ip_item(s) = i
  <2>1. ItemsOf(s) # {}
    BY <1>1, <1>2 DEF ItemsOf
  <2>2. get_ip_item(s) \in Items /\ pool[get_ip_item(s)].mac = s
    BY <1>1, <2>1, Searches DEF PoolInv
  <2> QED
    BY <1>1, <1>2, <2>2 DEF PoolInv, OneItem
<1>4. /\ pool' \in Pools
      /\ \A j \in Items : pool'[j].mac = pool[j].mac
      /\ \A j \in Items \ {i} : pool'[j] = pool[j]
  BY <1>1, <1>3, SetStatus DEF PoolInv
<1>5. OneItem'
  BY <1>4 DEF PoolInv, OneItem
<1>6. /\ sta' \in StaTypes
      /\ \A t \in Stations : sta'[t].st = "bound" => sta'[t] = sta[t]
  <2>1. CASE sta' = sta
    BY <1>2, <2>1
  <2>2. CASE sta' = [sta EXCEPT ![s] = [st |-> "ask", ip |-> 0]]
    BY <1>1, <1>2, <2>2, DhcpdAssumption DEF StaTypes
  <2> QED
    BY <2>1, <2>2 DEF ReplyNak
<1> HIDE DEF s, i
<1>7. HoldersKnown'
  <2> SUFFICES ASSUME ~early, NEW t \in Stations, sta[t].st = "bound", sta[t].ip \in Items
               PROVE  pool'[sta[t].ip] = [mac |-> t, allocted |-> TRUE]
    BY <1>6 DEF HoldersKnown, Bound
  <2>1. pool[sta[t].ip] = [mac |-> t, allocted |-> TRUE]
    BY DEF PoolInv, HoldersKnown, Bound
  <2>2. sta[t].ip # i
    <3> SUFFICES ASSUME sta[t].ip = i PROVE FALSE
      OBVIOUS
    <3>1. t = s
      BY <1>2, <2>1
    <3> QED
      BY <1>1, <3>1 DEF PoolInv, Requests, Bound, s
  <2> QED
    BY <1>4, <2>1, <2>2
<1>8. \A t \in Stations : sta'[t].st = "bound" /\ mbox[t].type = "request" =>
                              mbox[t].ip = sta'[t].ip
  BY <1>6 DEF PoolInv, Requests, Bound
<1> QED
  BY <1>1, <1>2, <1>4, <1>5, <1>6, <1>7, <1>8, AgainStep

\* All steps of the server
LEMMA ServerInv ==
    ASSUME PoolInv, dhcpd_task, early' = early, nif'.apLink = nif.apLink
    PROVE  PoolInv'
  BY SelectTimeoutInv, RecvInv, MarkItemInv, AllocItemInv, ReplyOfferInv, ReplyAckInv,
     ReplyNakInv DEF dhcpd_task, Reply

-----------------------------------------------------------------------------
(* Start, stop, release and the stations                                     *)

\* A stop changes the flag only; the task goes on until it looks at it.
LEMMA StopInv ==
    ASSUME PoolInv, dhcpd_stop, early' = early, nif'.apLink = nif.apLink
    PROVE  PoolInv'
<1>1. flag' = FALSE /\ pool' = pool /\ srv' = srv /\ mbox' = mbox /\ sta' = sta
  BY DEF dhcpd_stop
<1> QED
  BY <1>1, ZenonT(40) DEF PoolInv, DhcpdTypeOK, InWork, OneItem, Chosen, Requests, Bound, Cold,
              HoldersKnown, AckedKnown, ChosenFree

\* dhcpd_start resets the status of all items, when no station has an address yet.
LEMMA StartInv ==
    ASSUME PoolInv, ~nif.apLink, nif'.apLink, nif'.apLink \in BOOLEAN, dhcpd_start,
           mbox' = mbox, sta' = sta, early' = early
    PROVE  PoolInv'
<1>1. ~flag /\ flag' = TRUE /\ \A s \in Stations : sta[s].st = "out"
  BY DEF PoolInv, Cold, dhcpd_start
<1>2. CASE pool' = pool /\ srv' = srv
  BY <1>1, <1>2 DEF PoolInv, DhcpdTypeOK, InWork, OneItem, Chosen, Requests, Bound, Cold,
                    HoldersKnown, AckedKnown, ChosenFree
<1>3. CASE /\ pool' = [i \in Items |-> [pool[i] EXCEPT !.allocted = FALSE]]
           /\ srv' = SrvAt("select")
  <2>1. NoMac \notin Stations /\ 0 \in 0 .. NumItems
    BY DhcpdAssumption
  <2>2. NoMsg \in Message
    BY <2>1 DEF NoMsg, Message
  <2>3. /\ srv' \in [pc : {"off", "select", "mark", "alloc", "reply"},
                     sta : Stations \cup {NoMac}, item : 0 .. NumItems, msg : Message]
        /\ srv'.pc = "select" /\ srv'.sta \notin Stations
    BY <1>3, <2>1, <2>2 DEF SrvAt
  <2>4. /\ \A i \in Items : pool'[i] = [pool[i] EXCEPT !.allocted = FALSE]
        /\ \A i \in Items : pool[i] \in [mac : Stations \cup {NoMac}, allocted : BOOLEAN]
    BY <1>3 DEF PoolInv, DhcpdTypeOK
  <2>5. \A i \in Items : /\ pool'[i] \in [mac : Stations \cup {NoMac}, allocted : BOOLEAN]
                         /\ pool'[i].mac = pool[i].mac
    BY <2>4, ZenonT(40)
  <2>6. pool' \in Pools
    BY <1>3, <2>5 DEF Pools
  <2>7. DhcpdTypeOK'
    BY <1>1, <2>3, <2>6 DEF PoolInv, DhcpdTypeOK, Pools
  <2>8. InWork' /\ Chosen' /\ AckedKnown' /\ ChosenFree' /\ Cold'
    BY <2>3 DEF InWork, Chosen, AckedKnown, ChosenFree, Cold
  <2>9. OneItem'
    BY <2>5 DEF PoolInv, OneItem
  <2>10. HoldersKnown' /\ Requests'
    BY <1>1, <2>3 DEF HoldersKnown, Requests, Bound
  <2> QED
    BY <2>7, <2>8, <2>9, <2>10 DEF PoolInv
<1> QED
  BY <1>1, <1>2, <1>3 DEF dhcpd_start

\* dhcpd_ip_release: an address in use that is set free makes early true.
LEMMA ReleaseInv ==
    ASSUME PoolInv, NEW i \in Items, pool' = set_ip_item_status(i, FALSE),
           early' = (early \/ Users(i) # {}), nif'.apLink = nif.apLink,
           flag' = flag, srv' = srv, mbox' = mbox, sta' = sta
    PROVE  PoolInv'
<1>1. /\ pool' \in Pools
      /\ \A j \in Items : pool'[j].mac = pool[j].mac
      /\ \A j \in Items \ {i} : pool'[j] = pool[j]
  BY SetStatus DEF PoolInv
<1>2. early' \in BOOLEAN /\ (~early' => ~early /\ Users(i) = {})
  BY Zenon DEF PoolInv
<1>3. DhcpdTypeOK'
  BY <1>1 DEF PoolInv, DhcpdTypeOK, Pools
<1>4. InWork' /\ Cold' /\ Requests'
  BY DEF PoolInv, InWork, Cold, Requests, Bound
<1>5. OneItem'
  BY <1>1, ZenonT(40) DEF PoolInv, OneItem
<1>6. Chosen'
  BY <1>1 DEF PoolInv, InWork, Chosen
<1>7. ChosenFree'
  BY <1>2 DEF PoolInv, ChosenFree, Bound
<1>8. HoldersKnown'
  <2> SUFFICES ASSUME ~early', NEW t \in Stations, sta[t].st = "bound", sta[t].ip \in Items
               PROVE  pool'[sta[t].ip] = [mac |-> t, allocted |-> TRUE]
    BY DEF HoldersKnown, Bound
  <2>1. sta[t].ip # i
    BY <1>2 DEF Users, Holders
  <2> QED
    BY <1>1, <1>2, <2>1 DEF PoolInv, HoldersKnown, Bound
<1>9. AckedKnown'
  <2> SUFFICES ASSUME ~early', srv.pc = "reply", srv.msg.type = "request",
                      srv.msg.ip = srv.item, srv.msg.live
               PROVE  pool'[srv.item].allocted
    BY DEF AckedKnown
  <2>1. srv.item \in Items /\ srv.item # i
    BY <1>2 DEF PoolInv, InWork, Users, Acked
  <2>2. pool[srv.item].allocted
    BY <1>2 DEF PoolInv, AckedKnown
  <2> QED
    BY <1>1, <2>1, <2>2
<1> QED
  BY <1>2, <1>3, <1>4, <1>5, <1>6, <1>7, <1>8, <1>9 DEF PoolInv

\* A station that joins or leaves is not bound afterwards, the others are as before.
LEMMA StaMoves ==
    ASSUME PoolInv, NEW s \in Stations, NEW v \in {"out", "ask"},
           sta' = [sta EXCEPT ![s].st = v]
    PROVE  /\ sta' \in StaTypes
           /\ \A t \in Stations : sta'[t].st = "bound" => sta'[t] = sta[t]
           /\ sta'[s].st = v /\ \A t \in Stations \ {s} : sta'[t] = sta[t]
<1>1. sta \in StaTypes
  BY DEF PoolInv, DhcpdTypeOK, StaTypes
<1>2. [sta[s] EXCEPT !.st = v] = [st |-> v, ip |-> sta[s].ip] /\ sta[s].ip \in 0 .. NumItems
  <2>1. sta[s] \in [st : {"out", "ask", "bound"}, ip : 0 .. NumItems]
    BY <1>1 DEF StaTypes
  <2> QED
    BY <2>1
<1>3. sta' = [sta EXCEPT ![s] = [st |-> v, ip |-> sta[s].ip]]
  BY <1>2, Zenon
<1> QED
  BY <1>1, <1>2, <1>3 DEF StaTypes

\* A station that joins has no address yet, whatever it remembers.
LEMMA JoinInv ==
    ASSUME PoolInv, NEW s \in Stations, Join(s), nif.apLink, early' = early,
           nif'.apLink = nif.apLink
    PROVE  PoolInv'
<1>1. /\ sta' = [sta EXCEPT ![s].st = "ask"]
      /\ pool' = pool /\ flag' = flag /\ srv' = srv /\ mbox' = mbox
  BY DEF Join
<1>2. sta' \in StaTypes /\ \A t \in Stations : sta'[t].st = "bound" => sta'[t] = sta[t]
  BY <1>1, StaMoves
<1>3. DhcpdTypeOK'
  BY <1>1, <1>2 DEF PoolInv, DhcpdTypeOK, StaTypes
<1>4. InWork' /\ OneItem' /\ Chosen' /\ AckedKnown' /\ Cold'
  BY <1>1 DEF PoolInv, InWork, OneItem, Chosen, AckedKnown, Cold
<1>5. Requests' /\ HoldersKnown' /\ ChosenFree'
  BY <1>1, <1>2 DEF PoolInv, Requests, HoldersKnown, ChosenFree, Bound
<1> QED
  BY <1>3, <1>4, <1>5 DEF PoolInv

\* What a station that leaves had sent is answered to nobody.
LEMMA LeaveInv ==
    ASSUME PoolInv, NEW s \in Stations, Leave(s), early' = early, nif'.apLink = nif.apLink
    PROVE  PoolInv'
<1>1. /\ sta' = [sta EXCEPT ![s].st = "out"] /\ pool' = pool /\ flag' = flag
      /\ mbox' = [mbox EXCEPT ![s].live = FALSE]
      /\ srv' = IF srv.sta = s THEN [srv EXCEPT !.msg.live = FALSE] ELSE srv
      /\ mbox \in [Stations -> Message]
      /\ srv \in [pc : {"off", "select", "mark", "alloc", "reply"},
                  sta : Stations \cup {NoMac}, item : 0 .. NumItems, msg : Message]
  BY DEF Leave, PoolInv, DhcpdTypeOK
<1>2. /\ sta' \in StaTypes
      /\ \A t \in Stations : sta'[t].st = "bound" => sta'[t] = sta[t]
      /\ sta'[s].st = "out" /\ \A t \in Stations \ {s} : sta'[t] = sta[t]
  BY <1>1, StaMoves
<1>3. \A m \in Message : /\ [m EXCEPT !.live = FALSE] \in Message
                         /\ [m EXCEPT !.live = FALSE].live = FALSE
                         /\ [m EXCEPT !.live = FALSE].type = m.type
                         /\ [m EXCEPT !.live = FALSE].ip = m.ip
  BY DEF Message
<1>4. /\ mbox' \in [Stations -> Message]
      /\ \A t \in Stations \ {s} : mbox'[t] = mbox[t]
  <2>1. mbox' = [mbox EXCEPT ![s] = [mbox[s] EXCEPT !.live = FALSE]]
    BY <1>1, Zenon
  <2> QED
    BY <1>1, <1>3, <2>1
<1>5. /\ srv' \in [pc : {"off", "select", "mark", "alloc", "reply"},
                   sta : Stations \cup {NoMac}, item : 0 .. NumItems, msg : Message]
      /\ srv'.pc = srv.pc /\ srv'.sta = srv.sta /\ srv'.item = srv.item
      /\ srv'.msg.type = srv.msg.type /\ srv'.msg.ip = srv.msg.ip
      /\ srv.sta = s => ~srv'.msg.live
      /\ srv.sta # s => srv' = srv
      /\ srv'.msg.live => srv.msg.live
  <2>1. CASE srv.sta = s
    <3>1. srv' = [srv EXCEPT !.msg = [srv.msg EXCEPT !.live = FALSE]]
      BY <1>1, <2>1, Zenon
    <3>2. srv.msg \in Message
      BY <1>1
    <3> DEFINE m == [srv.msg EXCEPT !.live = FALSE]
    <3>3. m \in Message /\ m.live = FALSE /\ m.type = srv.msg.type /\ m.ip = srv.msg.ip
      BY <1>3, <3>2
    <3> HIDE DEF m
    <3>4. srv' = [srv EXCEPT !.msg = m]
      BY <3>1 DEF m
    <3> QED
      BY <1>1, <2>1, <3>3, <3>4
  <2>2. CASE srv.sta # s
    BY <1>1, <2>2
  <2> QED
    BY <2>1, <2>2
<1>6. DhcpdTypeOK'
  BY <1>1, <1>2, <1>4, <1>5 DEF PoolInv, DhcpdTypeOK, StaTypes
<1>7. InWork' /\ OneItem' /\ Chosen' /\ AckedKnown'
  BY <1>1, <1>5 DEF PoolInv, InWork, OneItem, Chosen, AckedKnown
<1>8. HoldersKnown' /\ ChosenFree'
  BY <1>1, <1>2, <1>5 DEF PoolInv, HoldersKnown, ChosenFree, Bound
<1>9. Cold'
  BY <1>1, <1>2, <1>5 DEF PoolInv, Cold
<1>10. Requests'
  <2> SUFFICES ASSUME NEW t \in Stations
               PROVE  /\ Bound(t)' /\ mbox'[t].type = "request" => mbox'[t].ip = sta'[t].ip
                      /\ srv'.sta = t =>
                             /\ Bound(t)' /\ srv'.msg.type = "request" =>
                                    srv'.msg.ip = sta'[t].ip
                             /\ srv'.msg.live => mbox'[t] = NoMsg
    BY DEF Requests
  <2>1. CASE t = s
    BY <1>2, <1>5, <2>1 DEF Bound
  <2>2. CASE t # s
    BY <1>2, <1>4, <1>5, <2>2 DEF PoolInv, Requests, Bound
  <2> QED
    BY <2>1, <2>2
<1> QED
  BY <1>6, <1>7, <1>8, <1>9, <1>10 DEF PoolInv

\* A station sends one message at a time, and asks for what it has when it is bound.
LEMMA SendInv ==
    ASSUME PoolInv, NEW s \in Stations, Send(s), early' = early, nif'.apLink = nif.apLink
    PROVE  PoolInv'
<1>1. /\ ~InFlight(s) /\ pool' = pool /\ flag' = flag /\ srv' = srv /\ sta' = sta
  BY DEF Send
<1>2. PICK type \in {"discover", "request", "inform"} :
          mbox' = [mbox EXCEPT ![s] = Msg(type, IF type = "request" THEN sta[s].ip ELSE 0)]
  BY DEF Send
<1> DEFINE m == Msg(type, IF type = "request" THEN sta[s].ip ELSE 0)
<1>3. m \in Message /\ (m.type = "request" => m.ip = sta[s].ip)
  <2>1. sta[s].ip \in 0 .. NumItems /\ 0 \in 0 .. NumItems
    BY DhcpdAssumption DEF PoolInv, DhcpdTypeOK
  <2> QED
    BY <2>1 DEF Msg, Message
<1> HIDE DEF m
<1>4. /\ mbox' \in [Stations -> Message] /\ mbox'[s] = m
      /\ \A t \in Stations \ {s} : mbox'[t] = mbox[t]
  BY <1>2, <1>3 DEF PoolInv, DhcpdTypeOK, m
<1>5. DhcpdTypeOK'
  BY <1>1, <1>4 DEF PoolInv, DhcpdTypeOK
<1>6. /\ InWork' /\ OneItem' /\ Chosen' /\ AckedKnown' /\ HoldersKnown' /\ ChosenFree'
      /\ Cold'
  BY <1>1 DEF PoolInv, InWork, OneItem, Chosen, AckedKnown, HoldersKnown, ChosenFree, Bound,
              Cold
<1>7. srv.sta = s => ~srv.msg.live
  BY <1>1 DEF InFlight
<1>8. Requests'
  BY <1>1, <1>3, <1>4, <1>7 DEF PoolInv, Requests, Bound
<1> QED
  BY <1>5, <1>6, <1>8 DEF PoolInv

-----------------------------------------------------------------------------
(* The manager and its neighbours                                            *)

Notes == [id : {"sta_connected", "sta_disconnected", "got_ip", "ap_ready",
                "ap_stadisconnected", "other"}, arg : Stations \cup {NoMac}]
NifTypes == [static : BOOLEAN, link : BOOLEAN, ip : BOOLEAN, cb : BOOLEAN,
             dhcp : {"off", "running", "bound"}, apLink : BOOLEAN]

Places == {"idle", "up", "setcb", "selfpost", "status0", "nocb", "dhcpstop", "linkdown",
           "got_ip", "ap_ready", "find", "free"}

\* The types of what the pool does not depend on
MgrInv == /\ queue \in Seq(Notes) /\ Len(queue) <= QueueDepth
          /\ lib \in Notes \cup {None}
          /\ mgr \in [pc : Places, msg : Notes \cup {None}, item : 0 .. NumItems]
          /\ conn \in BOOLEAN /\ nif \in NifTypes
          /\ dhcpStatus \in {0, 1} /\ tcpip \in {"idle", "post"}

Inv == PoolInv /\ MgrInv

\* The invariant has the properties in it.
LEMMA InvImplies == Inv => TypeOK /\ OneItemPerStation /\ Leased
<1> SUFFICES ASSUME Inv PROVE TypeOK /\ OneItemPerStation /\ Leased
  OBVIOUS
<1>1. TypeOK
  <2>1. mgr.item \in 0 .. NumItems
    BY DEF Inv, MgrInv
  <2> QED
    BY <2>1 DEF Inv, PoolInv, MgrInv, TypeOK, Notes, NifTypes
<1> QED
  BY <1>1, PoolImplies DEF Inv

\* Everything is down in the beginning.
LEMMA InitInv == Init => Inv
<1> SUFFICES ASSUME Init PROVE Inv
  OBVIOUS
<1>1. 0 \in 0 .. NumItems /\ NoMac \notin Stations /\ QueueDepth \in Nat
  BY DhcpdAssumption, ManagerAssumption
<1>2. NoMsg \in Message
  BY <1>1 DEF NoMsg, Message
<1>3. /\ srv \in [pc : {"off", "select", "mark", "alloc", "reply"},
                  sta : Stations \cup {NoMac}, item : 0 .. NumItems, msg : Message]
      /\ srv.pc = "off" /\ srv.sta = NoMac
  BY <1>1, <1>2 DEF Init, DhcpdInit, SrvAt
<1>4. DhcpdTypeOK
  BY <1>1, <1>2, <1>3 DEF Init, DhcpdInit, DhcpdTypeOK
<1>5. /\ InWork /\ Chosen /\ Requests /\ Cold /\ HoldersKnown /\ AckedKnown /\ ChosenFree
      /\ OneItem
  BY <1>1, <1>3 DEF Init, DhcpdInit, InWork, Chosen, Requests, Cold, HoldersKnown, AckedKnown,
                    ChosenFree, OneItem, Bound
<1>6. PoolInv
  BY <1>4, <1>5 DEF PoolInv, Init
<1>7. MgrInv
  <2>1. /\ queue \in Seq(Notes) /\ Len(queue) = 0 /\ lib = None
    BY DEF Init
  <2>2. mgr \in [pc : Places, msg : Notes \cup {None}, item : 0 .. NumItems]
    BY <1>1 DEF Init, Idle, Places
  <2>3. nif \in NifTypes
    BY DEF Init, NifTypes
  <2>4. Len(queue) <= QueueDepth
    BY <1>1, <2>1
  <2>5. conn \in BOOLEAN /\ dhcpStatus \in {0, 1} /\ tcpip \in {"idle", "post"}
    BY DEF Init
  <2> QED
    BY <2>1, <2>2, <2>3, <2>4, <2>5 DEF MgrInv
<1> QED
  BY <1>6, <1>7 DEF Inv

\* Posting and receiving keep the queue a queue.
LEMMA Posting ==
    ASSUME MgrInv, NEW n \in Notes
    PROVE  /\ Append(queue, n) \in Seq(Notes)
           /\ Len(queue) < QueueDepth => Len(Append(queue, n)) <= QueueDepth
           /\ queue # <<>> => /\ Tail(queue) \in Seq(Notes) /\ Head(queue) \in Notes
                              /\ Len(Tail(queue)) <= QueueDepth
  BY ManagerAssumption DEF MgrInv

\* Where the pool is left alone, its invariant holds on.
PoolAside == UNCHANGED <<dhcpdVars, early, nif.apLink>>

\* The library
LEMMA LibraryInv ==
    ASSUME Inv, Connect \/ Disconnect \/ ApReady \/ Other \/ LibPost
    PROVE  Inv'
<1>1. /\ Note("sta_connected", NoMac) \in Notes /\ Note("sta_disconnected", NoMac) \in Notes
      /\ Note("ap_ready", NoMac) \in Notes /\ Note("other", NoMac) \in Notes
  BY DEF Note, Notes
<1>2. CASE Connect
  <2>1. PICK static \in BOOLEAN : nif' = [nif EXCEPT !.static = static]
    BY <1>2 DEF Connect
  <2>2. PoolAside
    BY <1>2, <2>1 DEF PoolAside, Connect, Event, Inv, MgrInv, NifTypes
  <2>3. MgrInv'
    BY <1>1, <1>2, <2>1 DEF Inv, MgrInv, Connect, Event, NifTypes
  <2> QED
    BY <2>2, <2>3, PoolUnchanged DEF Inv, PoolAside
<1>3. CASE Disconnect \/ ApReady \/ Other
  <2>1. PoolAside
    BY <1>3 DEF PoolAside, Disconnect, ApReady, Other, Event
  <2>2. MgrInv'
    BY <1>1, <1>3 DEF Inv, MgrInv, Disconnect, ApReady, Other, Event
  <2> QED
    BY <2>1, <2>2, PoolUnchanged DEF Inv, PoolAside
<1>4. CASE LibPost
  <2>1. PoolAside
    BY <1>4 DEF PoolAside, LibPost
  <2>2. lib \in Notes
    BY <1>4 DEF Inv, MgrInv, LibPost
  <2>3. MgrInv'
    BY <1>4, <2>2, Posting DEF Inv, MgrInv, LibPost
  <2> QED
    BY <2>1, <2>3, PoolUnchanged DEF Inv, PoolAside
<1> QED
  BY <1>2, <1>3, <1>4

\* Every step of the manager ends at a place in its code, with a typed item.
LEMMA GotoTyped ==
    ASSUME MgrInv, NEW pc \in Places, Goto(pc)
    PROVE  mgr' \in [pc : Places, msg : Notes \cup {None}, item : 0 .. NumItems]
<1>1. 0 \in 0 .. NumItems
  BY DhcpdAssumption
<1> QED
  BY <1>1 DEF Goto, MgrInv, Idle

\* The steps that touch the station's interface and the status only
LEMMA InterfaceInv ==
    ASSUME Inv, StaUp \/ SetCallback \/ ClearStatus \/ RemoveCallback \/ StopClient
                \/ LinkDown \/ GotIp
    PROVE  Inv'
<1>1. PICK pc \in Places : Goto(pc)
  BY DEF Places, StaUp, SetCallback, ClearStatus, RemoveCallback, StopClient, LinkDown, GotIp
<1>2. /\ nif' \in NifTypes /\ nif'.apLink = nif.apLink
      /\ dhcpStatus' \in {0, 1} /\ queue' = queue /\ early' = early
      /\ UNCHANGED <<lib, conn, tcpip>> /\ UNCHANGED dhcpdVars
  BY ZenonT(40) DEF Inv, MgrInv, NifTypes, StaUp, SetCallback, ClearStatus, RemoveCallback, StopClient,
         LinkDown, GotIp, Elsewhere
<1>3. MgrInv'
  BY <1>1, <1>2, GotoTyped DEF Inv, MgrInv
<1> QED
  BY <1>2, <1>3, PoolUnchanged DEF Inv

\* Receiving a message, and the two posts that are not the library's
LEMMA QueueInv ==
    ASSUME Inv, QueueReceive \/ SelfPost \/ TcpipPost
    PROVE  Inv'
<1>0. Note("other", NoMac) \in Notes /\ Note("got_ip", NoMac) \in Notes
  BY DEF Note, Notes
<1>1. CASE QueueReceive
  <2>1. queue' \in Seq(Notes) /\ Len(queue') <= QueueDepth /\ Head(queue) \in Notes
    BY <1>0, <1>1, Posting DEF Inv, QueueReceive
  <2>2. Handler(Head(queue)) \in Places /\ 0 \in 0 .. NumItems
    BY DhcpdAssumption DEF Handler, Places
  <2>3. mgr' \in [pc : Places, msg : Notes \cup {None}, item : 0 .. NumItems]
    BY <1>1, <2>1, <2>2 DEF QueueReceive, Idle
  <2>4. MgrInv'
    BY <1>1, <2>1, <2>3 DEF Inv, MgrInv, QueueReceive
  <2> QED
    BY <1>1, <2>4, PoolUnchanged DEF Inv, QueueReceive
<1>2. CASE SelfPost
  <2>1. MgrInv'
    <3>1. mgr' \in [pc : Places, msg : Notes \cup {None}, item : 0 .. NumItems]
      BY <1>2, GotoTyped DEF Inv, SelfPost, Places
    <3>2. queue' \in Seq(Notes) /\ Len(queue') <= QueueDepth
      BY <1>0, <1>2, Posting DEF Inv, SelfPost
    <3> QED
      BY <1>2, <3>1, <3>2 DEF Inv, MgrInv, SelfPost, Elsewhere
  <2> QED
    BY <1>2, <2>1, PoolUnchanged DEF Inv, SelfPost
<1>3. CASE TcpipPost
  <2>1. MgrInv'
    BY <1>0, <1>3, Posting DEF Inv, MgrInv, TcpipPost
  <2> QED
    BY <1>3, <2>1, PoolUnchanged DEF Inv, TcpipPost
<1> QED
  BY <1>1, <1>2, <1>3

\* The callback of lwIP's DHCP client
LEMMA BindInv == Inv /\ Bind => Inv'
<1> SUFFICES ASSUME Inv, Bind PROVE Inv'
  OBVIOUS
<1>1. /\ nif' \in NifTypes /\ nif'.apLink = nif.apLink /\ tcpip' \in {"idle", "post"}
      /\ UNCHANGED <<queue, mgr, lib, conn, dhcpStatus, early>> /\ UNCHANGED dhcpdVars
  BY DEF Inv, MgrInv, NifTypes, Bind
<1>2. MgrInv'
  BY <1>1 DEF Inv, MgrInv
<1> QED
  BY <1>1, <1>2, PoolUnchanged DEF Inv

\* AP_READY starts the server at most once, before any station is there.
LEMMA ApUpInv == Inv /\ ApUp => Inv'
<1> SUFFICES ASSUME Inv, ApUp PROVE Inv'
  OBVIOUS
<1>1. /\ Goto("idle") /\ dhcpStatus' = 1 /\ UNCHANGED <<lib, conn, tcpip>> /\ early' = early
      /\ queue' = queue /\ mbox' = mbox /\ sta' = sta
      /\ \/ ~nif.apLink /\ nif' = [nif EXCEPT !.apLink = TRUE] /\ dhcpd_start
         \/ UNCHANGED <<nif, pool, flag, srv>>
  BY DEF ApUp, Elsewhere
<1>2. nif' \in NifTypes
  BY <1>1 DEF Inv, MgrInv, NifTypes
<1>3. MgrInv'
  <2>1. mgr' \in [pc : Places, msg : Notes \cup {None}, item : 0 .. NumItems]
    BY <1>1, GotoTyped DEF Inv, Places
  <2> QED
    BY <1>1, <1>2, <2>1 DEF Inv, MgrInv
<1>4. CASE UNCHANGED <<nif, pool, flag, srv>>
  BY <1>1, <1>3, <1>4, PoolUnchanged DEF Inv, dhcpdVars
<1>5. CASE ~nif.apLink /\ nif' = [nif EXCEPT !.apLink = TRUE] /\ dhcpd_start
  <2>1. nif'.apLink = TRUE
    BY <1>5 DEF Inv, MgrInv, NifTypes
  <2>2. nif'.apLink /\ nif'.apLink \in BOOLEAN
    BY <2>1, Zenon
  <2> QED
    BY <1>1, <1>3, <1>5, <2>2, StartInv DEF Inv
<1> QED
  BY <1>1, <1>4, <1>5

\* The two halves of a release
LEMMA ReleasingInv ==
    ASSUME Inv, ReleaseFind \/ ReleaseSet
    PROVE  Inv'
<1>1. CASE ReleaseFind
  <2>1. get_ip_item(mgr.msg.arg) \in 0 .. NumItems
    BY Searches DEF Inv, PoolInv
  <2>2. mgr' \in [pc : Places, msg : Notes \cup {None}, item : 0 .. NumItems]
    BY <1>1, <2>1 DEF Inv, MgrInv, ReleaseFind, Places
  <2>3. MgrInv'
    BY <1>1, <2>2 DEF Inv, MgrInv, ReleaseFind, Elsewhere
  <2> QED
    BY <1>1, <2>3, PoolUnchanged DEF Inv, ReleaseFind
<1>2. CASE ReleaseSet
  <2>1. MgrInv'
    <3>1. mgr' \in [pc : Places, msg : Notes \cup {None}, item : 0 .. NumItems]
      BY <1>2, GotoTyped DEF Inv, ReleaseSet, Places
    <3> QED
      BY <1>2, <3>1 DEF Inv, MgrInv, ReleaseSet, Elsewhere
  <2>2. /\ nif' = nif /\ flag' = flag /\ srv' = srv /\ mbox' = mbox /\ sta' = sta
        /\ \/ /\ mgr.item # 0 /\ pool' = set_ip_item_status(mgr.item, FALSE)
              /\ early' = (early \/ Users(mgr.item) # {})
           \/ pool' = pool /\ early' = early
    BY <1>2 DEF ReleaseSet
  <2>3. mgr.item # 0 => mgr.item \in Items
    BY DhcpdAssumption DEF Inv, MgrInv, Items
  <2>4. PoolInv'
    BY <2>2, <2>3, ReleaseInv, PoolUnchanged DEF Inv, dhcpdVars
  <2> QED
    BY <2>1, <2>4 DEF Inv
<1> QED
  BY <1>1, <1>2

\* Server, stop and stations do not touch the manager.
LEMMA OthersInv ==
    ASSUME Inv, \/ Server \/ AtStop
                \/ \E s \in Stations : StaJoins(s) \/ StaLeaves(s) \/ StaSends(s)
    PROVE  Inv'
<1>1. CASE Server \/ AtStop \/ \E s \in Stations : StaSends(s)
  <2>1. UNCHANGED managerVars
    BY <1>1 DEF Server, AtStop, StaSends
  <2>2. MgrInv'
    BY <2>1 DEF Inv, MgrInv, managerVars
  <2>3. early' = early /\ nif'.apLink = nif.apLink
    BY <2>1 DEF managerVars
  <2>4. PoolInv'
    BY <1>1, <2>3, ServerInv, StopInv, SendInv DEF Inv, Server, AtStop, StaSends
  <2> QED
    BY <2>2, <2>4 DEF Inv
<1>2. ASSUME NEW s \in Stations, StaJoins(s) PROVE Inv'
  <2>1. MgrInv'
    BY <1>2 DEF Inv, MgrInv, StaJoins
  <2> QED
    BY <1>2, <2>1, JoinInv DEF Inv, StaJoins
<1>3. ASSUME NEW s \in Stations, StaLeaves(s) PROVE Inv'
  <2>1. MgrInv'
    BY <1>3 DEF Inv, MgrInv, StaLeaves, Event, Note, Notes
  <2> QED
    BY <1>3, <2>1, LeaveInv DEF Inv, StaLeaves, Event
<1> QED
  BY <1>1, <1>2, <1>3

\* Every step keeps the invariant.
LEMMA StepInv == Inv /\ [Next]_vars => Inv'
<1> SUFFICES ASSUME Inv, [Next]_vars PROVE Inv'
  OBVIOUS
<1>1. CASE UNCHANGED vars
  <2>1. MgrInv'
    BY <1>1 DEF Inv, MgrInv, vars
  <2> QED
    BY <1>1, <2>1, PoolUnchanged DEF Inv, vars, dhcpdVars
<1>2. CASE Manager
  BY <1>2, InterfaceInv, QueueInv, ApUpInv, ReleasingInv DEF Manager
<1> QED
  BY <1>1, <1>2, LibraryInv, QueueInv, BindInv, OthersInv DEF Next

-----------------------------------------------------------------------------
(* The theorems                                                              *)

\* The inductive invariant
THEOREM Invariance == Spec => []Inv
  BY InitInv, StepInv, PTL DEF Spec

\* The types: the queue never holds more than its depth, whoever posts to it, and no
\* index leaves the pool.
THEOREM Types == Spec => []TypeOK
  BY Invariance, InvImplies, PTL

\* The server never writes one station into two items of the pool.
THEOREM OneItemEach == Spec => []OneItemPerStation
  BY Invariance, InvImplies, PTL

\* An address in use is allocted and in the name of its user, until a release comes
\* too early.
THEOREM LeasedToUser == Spec => []Leased
  BY Invariance, InvImplies, PTL

\* A release comes too early in two ways only: the departed station is back, or the
\* server gave the item away between the search and the write.
THEOREM ReleasesRight == Spec => ReleaseRight
<1> DEFINE Right ==
        /\ ~early /\ mgr.pc = "find" /\ mgr'.pc = "free" /\ mgr'.item # 0 =>
               Users(mgr'.item) \subseteq {mgr.msg.arg}
        /\ early' # early =>
               \A s \in Users(mgr.item) :
                   s = mgr.msg.arg \/ pool[mgr.item].mac # mgr.msg.arg
<1>1. Inv /\ [Next]_vars => [Right]_vars
  <2> SUFFICES ASSUME Inv, Next PROVE Right
    OBVIOUS
  <2>0. Leased /\ DhcpdTypeOK
    BY InvImplies DEF Inv, PoolInv
  <2>1. ASSUME ~early, mgr.pc = "find", mgr'.pc = "free", mgr'.item # 0
        PROVE  Users(mgr'.item) \subseteq {mgr.msg.arg}
    <3>1. ReleaseFind \/ mgr' = mgr
      BY <2>1 DEF Next, Manager, QueueReceive, StaUp, SetCallback, SelfPost, ClearStatus,
                  RemoveCallback, StopClient, LinkDown, GotIp, ApUp, ReleaseSet, At,
                  Connect, Disconnect, ApReady, Other, Event, LibPost, Bind, TcpipPost,
                  Server, AtStop, StaSends, StaJoins, StaLeaves, managerVars
    <3>2. mgr'.item = get_ip_item(mgr.msg.arg)
      BY <2>1, <3>1 DEF ReleaseFind, Inv, MgrInv
    <3>3. mgr'.item \in Items /\ pool[mgr'.item].mac = mgr.msg.arg
      BY <2>0, <2>1, <3>2, Searches
    <3> SUFFICES ASSUME NEW s \in Users(mgr'.item) PROVE s = mgr.msg.arg
      OBVIOUS
    <3>4. pool[mgr'.item] = [mac |-> s, allocted |-> TRUE]
      BY <2>0, <2>1, <3>3, Zenon DEF Leased
    <3> QED
      BY <3>3, <3>4
  <2>2. ASSUME early' # early, NEW s \in Users(mgr.item)
        PROVE  s = mgr.msg.arg \/ pool[mgr.item].mac # mgr.msg.arg
    <3>1. ReleaseSet
      BY <2>2 DEF Next, Manager, QueueReceive, StaUp, SetCallback, SelfPost, ClearStatus,
                  RemoveCallback, StopClient, LinkDown, GotIp, ApUp, ReleaseFind,
                  Connect, Disconnect, ApReady, Other, Event, LibPost, Bind, TcpipPost,
                  Server, AtStop, StaSends, StaJoins, StaLeaves, managerVars
    <3>2. ~early /\ mgr.item # 0
      BY <2>2, <3>1, Zenon DEF ReleaseSet, Inv, PoolInv
    <3>3. mgr.item \in Items
      BY <3>2, DhcpdAssumption DEF Inv, MgrInv, Items
    <3>4. pool[mgr.item] = [mac |-> s, allocted |-> TRUE]
      BY <2>0, <2>2, <3>2, <3>3, Zenon DEF Leased
    <3> QED
      BY <3>4
  <2> QED
    BY <2>1, <2>2
<1> QED
  BY <1>1, Invariance, PTL DEF Spec, ReleaseRight
=============================================================================
