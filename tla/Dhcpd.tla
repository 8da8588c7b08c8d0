------------------------------- MODULE Dhcpd --------------------------------
(* The DHCP server of the soft access point (components/net/dhcpd): its task,*)
(* which answers one message at a time, and its pool of addresses, which the *)
(* thread of the Wi-Fi manager changes too (dhcpd_ip_release) without a      *)
(* lock.  Stations are the environment: they join and leave, lose messages,  *)
(* ask again, renew, and after a rejoin may ask for the address they had.    *)
(*                                                                           *)
(* Address i is the one of pool item i.  A station has at most one message   *)
(* in the socket of the server; an answer reaches the station at once or     *)
(* not at all, and only an answer to its present exchange counts (live).     *)
EXTENDS Integers, FiniteSets, FiniteSetsExt

CONSTANTS Stations,      \* hardware addresses
          NoMac,         \* the address of six zero bytes
          NumItems,      \* MIN(DHCPD_IP_POOL_SIZE, client_max)
          ConfigOk       \* the stored server_config passes dhcpd_start's test

ASSUME DhcpdAssumption == /\ NumItems \in Nat \ {0}
                          /\ NoMac \notin Stations
                          /\ ConfigOk \in BOOLEAN

VARIABLES pool,          \* ip_pool
          flag,          \* dhcpd->flag
          srv,           \* the server task, with the message it works on
          mbox,          \* the message of each station in the socket
          sta            \* each station and the address it has or remembers

dhcpdVars == <<pool, flag, srv, mbox, sta>>

Items == 1 .. NumItems

Msg(type, ip) == [type |-> type, ip |-> ip, live |-> TRUE]
NoMsg == [type |-> "none", ip |-> 0, live |-> FALSE]
SrvAt(pc) == [pc |-> pc, sta |-> NoMac, item |-> 0, msg |-> NoMsg]

DhcpdInit == /\ pool = [i \in Items |-> [mac |-> NoMac, allocted |-> FALSE]]
             /\ flag = FALSE
             /\ srv = SrvAt("off")
             /\ mbox = [s \in Stations |-> NoMsg]
             /\ sta = [s \in Stations |-> [st |-> "out", ip |-> 0]]

-----------------------------------------------------------------------------
(* The pool: ip_allocator.c                                                  *)

ItemsOf(mac) == {i \in Items : pool[i].mac = mac}
Unallocted == {i \in Items : ~pool[i].allocted}

\* Fault: a station that has an item is not recognised.
get_next_usable_ip_item_Any(mac) ==
    IF Unallocted # {} THEN Min(Unallocted) ELSE 0

\* The item of the station, or the first one that was never given out, or the
\* first one that is not allocted, although it may be on offer; 0 for NULL.
get_next_usable_ip_item(mac) ==
    IF ItemsOf(mac) # {} THEN Min(ItemsOf(mac))
        ELSE IF Unallocted \cap ItemsOf(NoMac) # {}
             THEN Min(Unallocted \cap ItemsOf(NoMac))
        ELSE IF Unallocted # {} THEN Min(Unallocted)
        ELSE 0

\* Fault: the comparison of the hardware addresses is the wrong way round.
get_ip_item_Other(mac) ==
    LET other == {i \in Items : pool[i].mac # mac}
    IN  IF other # {} THEN Min(other) ELSE 0

get_ip_item(mac) == IF ItemsOf(mac) # {} THEN Min(ItemsOf(mac)) ELSE 0

set_ip_item_status(i, b) == [pool EXCEPT ![i].allocted = b]

-----------------------------------------------------------------------------
(* Start and stop                                                            *)

\* dhcpd_start, called by the manager: the flag is set before the
\* configuration is looked at.
dhcpd_start ==
    IF flag THEN UNCHANGED <<pool, flag, srv>>
    ELSE /\ flag' = TRUE
         /\ IF ConfigOk
            THEN /\ pool' = [i \in Items |-> [pool[i] EXCEPT !.allocted = FALSE]]
                 /\ srv' = SrvAt("select")
            ELSE UNCHANGED <<pool, srv>>

\* dhcpd_stop, called by an AT command or by the Wi-Fi library
dhcpd_stop == /\ flag
              /\ flag' = FALSE
              /\ UNCHANGED <<pool, srv, mbox, sta>>

-----------------------------------------------------------------------------
(* dhcpd_task                                                                *)

\* The loop tests the flag and waits in select for at most 50 ms, so that a
\* message may still be taken after a stop.
\* With the task gone the socket is closed.
Again(box) == /\ srv' = SrvAt(IF flag THEN "select" ELSE "off")
              /\ mbox' = IF flag THEN box ELSE [s \in Stations |-> NoMsg]

SelectTimeout == /\ srv.pc = "select"
                 /\ ~flag
                 /\ Again(mbox)
                 /\ UNCHANGED <<pool, flag, sta>>

\* recvfrom, dhcpd_dispatch and the scan of the pool.  RELEASE and DECLINE
\* and a REQUEST without an address do nothing; no usable item, no answer.
Recv(s) ==
    LET i == get_next_usable_ip_item(s)
    IN  /\ srv.pc = "select"
        /\ mbox[s] # NoMsg
        /\ LET box == [mbox EXCEPT ![s] = NoMsg]
           IN  IF i = 0 THEN Again(box)
               ELSE /\ mbox' = box
                    /\ srv' = [pc |-> "mark", sta |-> s, item |-> i,
                               msg |-> mbox[s]]
        /\ UNCHANGED <<pool, flag, sta>>

\* dhcpd_ip_allocate writes the hardware address and then, for a REQUEST,
\* sets the item allocted.  The answer to an INFORM changes nothing.
MarkItem ==
    /\ srv.pc = "mark"
    /\ pool' = [pool EXCEPT ![srv.item].mac = srv.sta]
    /\ IF srv.msg.type = "inform" THEN Again(mbox)
       ELSE /\ srv' = [srv EXCEPT !.pc = IF srv.msg.type = "request"
                                         THEN "alloc" ELSE "reply"]
            /\ UNCHANGED mbox
    /\ UNCHANGED <<flag, sta>>

\* Fault: a REQUEST does not set the item allocted either.
AllocItem_Never ==
    /\ srv.pc = "alloc"
    /\ srv' = [srv EXCEPT !.pc = "reply"]
    /\ UNCHANGED <<pool, flag, mbox, sta>>

AllocItem ==
    /\ srv.pc = "alloc"
    /\ pool' = set_ip_item_status(srv.item, TRUE)
    /\ srv' = [srv EXCEPT !.pc = "reply"]
    /\ UNCHANGED <<flag, mbox, sta>>

\* What the station makes of an answer that reaches it (external): it asks
\* for the address on offer; it is bound; it starts over.
Heard(s) == srv.msg.live /\ sta[s].st # "out"

ReplyOffer ==
    LET s == srv.sta
    IN  /\ srv.pc = "reply"
        /\ srv.msg.type = "discover"
        /\ \/ /\ Heard(s)
              /\ sta' = [sta EXCEPT ![s] = [st |-> "ask", ip |-> srv.item]]
              /\ Again([mbox EXCEPT ![s] = Msg("request", srv.item)])
           \/ Again(mbox) /\ UNCHANGED sta
        /\ UNCHANGED <<pool, flag>>

ReplyAck ==
    LET s == srv.sta
    IN  /\ srv.pc = "reply"
        /\ srv.msg.type = "request"
        /\ srv.msg.ip = srv.item
        /\ \/ /\ Heard(s)
              /\ sta' = [sta EXCEPT ![s] = [st |-> "bound", ip |-> srv.item]]
           \/ UNCHANGED sta
        /\ Again(mbox)
        /\ UNCHANGED <<pool, flag>>

\* The item is set free again before the NAK is sent.
ReplyNak ==
    LET s == srv.sta
    IN  /\ srv.pc = "reply"
        /\ srv.msg.type = "request"
        /\ srv.msg.ip # srv.item
        /\ pool' = set_ip_item_status(get_ip_item(s), FALSE)
        /\ \/ /\ Heard(s)
              /\ sta' = [sta EXCEPT ![s] = [st |-> "ask", ip |-> 0]]
           \/ UNCHANGED sta
        /\ Again(mbox)
        /\ UNCHANGED flag

Reply == ReplyOffer \/ ReplyAck \/ ReplyNak
dhcpd_task == \/ SelectTimeout \/ MarkItem \/ AllocItem \/ Reply
              \/ \E s \in Stations : Recv(s)

-----------------------------------------------------------------------------
(* Stations (external)                                                       *)

InFlight(s) == \/ mbox[s].live
               \/ srv.sta = s /\ srv.msg.live

Join(s) == /\ sta[s].st = "out"
           /\ sta' = [sta EXCEPT ![s].st = "ask"]
           /\ UNCHANGED <<pool, flag, srv, mbox>>

\* A station without an address sends a DISCOVER, or a REQUEST for the
\* address it was offered or had before; one that is bound renews or informs.
\* Without a server nobody gets the message.
Send(s) ==
    /\ sta[s].st # "out"
    /\ srv.pc # "off"
    /\ ~InFlight(s)
    /\ \E type \in {"discover", "request", "inform"} :
           /\ type = "discover" => sta[s].st = "ask"
           /\ type = "inform" => sta[s].st = "bound"
           /\ type = "request" => sta[s].ip # 0
           /\ mbox' = [mbox EXCEPT ![s] =
                          Msg(type, IF type = "request" THEN sta[s].ip ELSE 0)]
    /\ UNCHANGED <<pool, flag, srv, sta>>

\* The station is gone; what it sent may still be in the socket.
Leave(s) ==
    /\ sta[s].st # "out"
    /\ sta' = [sta EXCEPT ![s].st = "out"]
    /\ mbox' = [mbox EXCEPT ![s].live = FALSE]
    /\ srv' = IF srv.sta = s THEN [srv EXCEPT !.msg.live = FALSE] ELSE srv
    /\ UNCHANGED <<pool, flag>>

-----------------------------------------------------------------------------
(* Properties                                                                *)

Message == [type : {"discover", "request", "inform", "none"},
            ip : 0 .. NumItems, live : BOOLEAN]

\* The values the variables range over.
DhcpdTypeOK ==
    /\ pool \in [Items -> [mac : Stations \cup {NoMac}, allocted : BOOLEAN]]
    /\ flag \in BOOLEAN
    /\ srv \in [pc : {"off", "select", "mark", "alloc", "reply"},
                sta : Stations \cup {NoMac}, item : 0 .. NumItems,
                msg : Message]
    /\ mbox \in [Stations -> Message]
    /\ sta \in [Stations -> [st : {"out", "ask", "bound"}, ip : 0 .. NumItems]]

\* No station is written into two items, also while the server is between
\* its scan of the pool and its writes.
OneItemPerStation == \A s \in Stations : Cardinality(ItemsOf(s)) <= 1

\* The stations that have an address, or are just being told so
Holders(i) == {s \in Stations : sta[s].st = "bound" /\ sta[s].ip = i}
Acked(i) == IF /\ srv.pc = "reply" /\ srv.msg.type = "request"
               /\ srv.msg.live /\ srv.item = i /\ srv.msg.ip = i
            THEN {srv.sta} ELSE {}
Users(i) == Holders(i) \cup Acked(i)
=============================================================================
