---------------------------- MODULE WifiManager -----------------------------
(* The Wi-Fi manager task (components/wifi/wifi_manager) between the Wi-Fi   *)
(* library, the network interfaces (ethernetif.c), the thread of lwIP, and   *)
(* the DHCP server of Dhcpd.                                                 *)
(*                                                                           *)
(* The library and the lwIP thread post messages to one queue and wait when  *)
(* it is full.  The manager handles them one by one; on the way it is        *)
(* preempted by the other threads at any point.                              *)
EXTENDS Dhcpd, Sequences

CONSTANTS QueueDepth,    \* WIFI_MSG_QUEUE_DEPTH
          MaxEvents,     \* bound on the events of the library
          MaxJoin        \* bound on the joins of all stations

ASSUME ManagerAssumption == /\ QueueDepth \in Nat \ {0}
                            /\ MaxEvents \in Nat /\ MaxJoin \in Nat

VARIABLES queue,         \* wifi_manager_msgq
          mgr,           \* the manager: where it is, its message, its item
          lib,           \* the message that the library is about to post
          conn,          \* the library's station is connected
          nif,           \* the station interface: static (dhcp_mode is not
                         \* CLIENT), link, ip_info, the status callback,
                         \* lwIP's DHCP client; and the AP's link, apLink
          dhcpStatus,    \* wifi_set_dhcp_status
          tcpip,         \* the lwIP thread
          early,         \* a release freed an address in use
          events, joins

managerVars == <<queue, mgr, lib, conn, nif, dhcpStatus, tcpip, early,
                 events, joins>>
vars == <<pool, flag, srv, mbox, sta, queue, mgr, lib, conn, nif, dhcpStatus,
          tcpip, early, events, joins>>

Note(id, arg) == [id |-> id, arg |-> arg]
None == Note("none", NoMac)
Idle == [pc |-> "idle", msg |-> None, item |-> 0]

Init == /\ DhcpdInit
        /\ queue = <<>>
        /\ mgr = Idle
        /\ lib = None
        /\ conn = FALSE
        /\ nif = [static |-> FALSE, link |-> FALSE, ip |-> FALSE, cb |-> FALSE,
                  dhcp |-> "off", apLink |-> FALSE]
        /\ dhcpStatus = 0
        /\ tcpip = "idle"
        /\ early = FALSE
        /\ events = 0 /\ joins = 0

-----------------------------------------------------------------------------
(* The library (external): it connects and disconnects the station, reports  *)
(* the access point ready, a station gone, or anything that the manager has  *)
(* nothing to do for.                                                        *)

Event(note) == /\ lib = None
               /\ events < MaxEvents
               /\ events' = events + 1
               /\ lib' = note
               /\ UNCHANGED <<queue, mgr, dhcpStatus, tcpip, early, joins>>

\* The application chooses the mode of the interface before it connects, and
\* static is the mode it connected with.  The AT commands that set dhcp_mode
\* of STATION_IF later take effect with the next connection; that its test by
\* ethernetif_set_state may see a mode set in between is left out.
Connect == /\ ~conn
           /\ conn' = TRUE
           /\ \E static \in BOOLEAN : nif' = [nif EXCEPT !.static = static]
           /\ Event(Note("sta_connected", NoMac))
           /\ UNCHANGED dhcpdVars

Disconnect == /\ conn
              /\ conn' = FALSE
              /\ Event(Note("sta_disconnected", NoMac))
              /\ UNCHANGED <<nif, dhcpdVars>>

ApReady == /\ ~nif.apLink
           /\ Event(Note("ap_ready", NoMac))
           /\ UNCHANGED <<nif, conn, dhcpdVars>>

StaLeaves(s) == /\ Leave(s)
                /\ Event(Note("ap_stadisconnected", s))
                /\ UNCHANGED <<nif, conn>>

Other == /\ Event(Note("other", NoMac))
         /\ UNCHANGED <<nif, conn, dhcpdVars>>

\* notify_wifi_manager_task
LibPost == /\ lib # None
           /\ Len(queue) < QueueDepth
           /\ queue' = Append(queue, lib)
           /\ lib' = None
           /\ UNCHANGED <<mgr, conn, nif, dhcpStatus, tcpip, early, events,
                          joins, dhcpdVars>>

StaJoins(s) == /\ nif.apLink
               /\ joins < MaxJoin
               /\ joins' = joins + 1
               /\ Join(s)
               /\ UNCHANGED <<queue, mgr, lib, conn, nif, dhcpStatus, tcpip,
                              early, events>>

-----------------------------------------------------------------------------
(* wifi_manager_task_entry                                                   *)

\* What a message makes the manager do first; the ids that only end in the
\* registered callback are one.
Handler(m) == CASE m.id = "sta_connected"      -> "up"
                [] m.id = "sta_disconnected"   -> "nocb"
                [] m.id = "got_ip"             -> "got_ip"
                [] m.id = "ap_ready"           -> "ap_ready"
                [] m.id = "ap_stadisconnected" -> "find"
                [] OTHER                       -> "idle"

QueueReceive ==
    /\ mgr.pc = "idle"
    /\ queue # <<>>
    /\ queue' = Tail(queue)
    /\ mgr' = [Idle EXCEPT !.pc = Handler(Head(queue)),
                           !.msg = IF Handler(Head(queue)) = "idle" THEN None
                                   ELSE Head(queue)]
    /\ UNCHANGED <<lib, conn, nif, dhcpStatus, tcpip, early, events, joins,
                   dhcpdVars>>

At(pc) == mgr.pc = pc
Goto(pc) == mgr' = IF pc = "idle" THEN Idle ELSE [mgr EXCEPT !.pc = pc]
Elsewhere == UNCHANGED <<lib, conn, tcpip, events, joins>>

\* ethernetif_set_state(STATION_IF, NETIF_UP)
StaUp ==
    /\ At("up")
    /\ \/ /\ ~nif.static
          /\ nif' = [nif EXCEPT !.ip = FALSE, !.dhcp = "running"]
          /\ Goto("setcb")
       \/ /\ nif.static
          /\ nif' = [nif EXCEPT !.link = TRUE]
          /\ Goto("selfpost")
    /\ Elsewhere
    /\ UNCHANGED <<queue, dhcpStatus, early, dhcpdVars>>

\* tcpip_dhcpc_start registers the callback after dhcp_start.
SetCallback ==
    /\ At("setcb")
    /\ nif' = [nif EXCEPT !.cb = TRUE]
    /\ Goto("status0")
    /\ Elsewhere
    /\ UNCHANGED <<queue, dhcpStatus, early, dhcpdVars>>

\* The manager posts STA_USE_STATIC_IP to itself.
SelfPost ==
    /\ At("selfpost")
    /\ Len(queue) < QueueDepth
    /\ queue' = Append(queue, Note("other", NoMac))
    /\ Goto("status0")
    /\ Elsewhere
    /\ UNCHANGED <<nif, dhcpStatus, early, dhcpdVars>>

ClearStatus ==
    /\ At("status0")
    /\ dhcpStatus' = 0
    /\ Goto("idle")
    /\ Elsewhere
    /\ UNCHANGED <<queue, nif, early, dhcpdVars>>

\* ethernetif_set_state(STATION_IF, NETIF_DOWN): the callback, the client,
\* and the link last.  Left out: before that netif_set_down runs the callback
\* in this thread, which with an address that ip_info does not have sets the
\* link up, to go down here, and posts got_ip to the manager's own queue.
RemoveCallback ==
    /\ At("nocb")
    /\ nif' = [nif EXCEPT !.cb = FALSE]
    /\ Goto("dhcpstop")
    /\ Elsewhere
    /\ UNCHANGED <<queue, dhcpStatus, early, dhcpdVars>>

StopClient ==
    /\ At("dhcpstop")
    /\ nif' = [nif EXCEPT !.dhcp = "off"]
    /\ Goto("linkdown")
    /\ Elsewhere
    /\ UNCHANGED <<queue, dhcpStatus, early, dhcpdVars>>

\* Fault: the link state is not reset.
LinkDown_Keeps ==
    /\ At("linkdown")
    /\ Goto("status0")
    /\ Elsewhere
    /\ UNCHANGED <<queue, nif, dhcpStatus, early, dhcpdVars>>

LinkDown ==
    /\ At("linkdown")
    /\ nif' = [nif EXCEPT !.link = FALSE]
    /\ Goto("status0")
    /\ Elsewhere
    /\ UNCHANGED <<queue, dhcpStatus, early, dhcpdVars>>

GotIp ==
    /\ At("got_ip")
    /\ dhcpStatus' = 1
    /\ Goto("idle")
    /\ Elsewhere
    /\ UNCHANGED <<queue, nif, early, dhcpdVars>>

\* AP_READY with msg[0] set brings the interface up, unless it is up, and
\* starts the server (dhcpd_stop, called before, finds it not running);
\* without, it only sets the status.
ApUp ==
    /\ At("ap_ready")
    /\ \/ /\ ~nif.apLink
          /\ nif' = [nif EXCEPT !.apLink = TRUE]
          /\ dhcpd_start
       \/ UNCHANGED <<nif, pool, flag, srv>>
    /\ dhcpStatus' = 1
    /\ Goto("idle")
    /\ Elsewhere
    /\ UNCHANGED <<queue, early, mbox, sta>>

\* ethernetif_remove_station, dhcpd_ip_release: first the item, then its
\* status; a station without an item makes the code write through NULL.
ReleaseFind ==
    /\ At("find")
    /\ mgr' = [mgr EXCEPT !.pc = "free", !.item = get_ip_item(mgr.msg.arg)]
    /\ Elsewhere
    /\ UNCHANGED <<queue, nif, dhcpStatus, early, dhcpdVars>>

ReleaseSet ==
    /\ At("free")
    /\ \/ /\ mgr.item # 0
          /\ pool' = set_ip_item_status(mgr.item, FALSE)
          /\ early' = (early \/ Users(mgr.item) # {})
       \/ /\ mgr.item = 0
          /\ UNCHANGED <<pool, early>>
    /\ Goto("idle")
    /\ Elsewhere
    /\ UNCHANGED <<queue, nif, dhcpStatus, flag, srv, mbox, sta>>

Manager == \/ QueueReceive \/ StaUp \/ SetCallback \/ SelfPost \/ ClearStatus
           \/ RemoveCallback \/ StopClient \/ LinkDown \/ GotIp \/ ApUp
           \/ ReleaseFind \/ ReleaseSet

-----------------------------------------------------------------------------
(* The lwIP thread: its DHCP client binds (external) and calls               *)
(* tcpip_dhcpc_cb when it is registered.                                     *)

Bind ==
    /\ nif.dhcp = "running"
    /\ tcpip = "idle"
    /\ IF nif.cb /\ ~nif.ip
       THEN /\ nif' = [nif EXCEPT !.dhcp = "bound", !.ip = TRUE, !.link = TRUE]
            /\ tcpip' = "post"
       ELSE /\ nif' = [nif EXCEPT !.dhcp = "bound"]
            /\ UNCHANGED tcpip
    /\ UNCHANGED <<queue, mgr, lib, conn, dhcpStatus, early, events, joins,
                   dhcpdVars>>

TcpipPost ==
    /\ tcpip = "post"
    /\ Len(queue) < QueueDepth
    /\ queue' = Append(queue, Note("got_ip", NoMac))
    /\ tcpip' = "idle"
    /\ UNCHANGED <<mgr, lib, conn, nif, dhcpStatus, early, events, joins,
                   dhcpdVars>>

-----------------------------------------------------------------------------
Server == dhcpd_task /\ UNCHANGED managerVars
StaSends(s) == Send(s) /\ UNCHANGED managerVars
AtStop == dhcpd_stop /\ UNCHANGED managerVars

Next == \/ Connect \/ Disconnect \/ ApReady \/ Other \/ LibPost
        \/ Manager \/ Bind \/ TcpipPost \/ Server \/ AtStop
        \/ \E s \in Stations : StaJoins(s) \/ StaLeaves(s) \/ StaSends(s)

Spec == Init /\ [][Next]_vars

-----------------------------------------------------------------------------
(* Properties                                                                *)

\* The values the variables range over.
TypeOK ==
    /\ DhcpdTypeOK
    /\ queue \in Seq([id : {"sta_connected", "sta_disconnected", "got_ip",
                            "ap_ready", "ap_stadisconnected", "other"},
                      arg : Stations \cup {NoMac}])
    /\ Len(queue) <= QueueDepth
    /\ mgr.item \in 0 .. NumItems
    /\ conn \in BOOLEAN /\ early \in BOOLEAN
    /\ nif \in [static : BOOLEAN, link : BOOLEAN, ip : BOOLEAN, cb : BOOLEAN,
                dhcp : {"off", "running", "bound"}, apLink : BOOLEAN]
    /\ dhcpStatus \in {0, 1}
    /\ tcpip \in {"idle", "post"}

\* The item of an address in use is allocted and in the name of its user, so
\* that two stations never have one address; unless a release freed an
\* address in use.
Leased == ~early => \A i \in Items : \A s \in Users(i) :
                        pool[i] = [mac |-> s, allocted |-> TRUE]

\* The manager searches out an item that at most the departed station uses.
\* It frees an address in use only because that station is back already, or
\* because the server gave the item to another station between the search and
\* the write.
ReleaseRight ==
    [][/\ ~early /\ mgr.pc = "find" /\ mgr'.pc = "free" /\ mgr'.item # 0 =>
              Users(mgr'.item) \subseteq {mgr.msg.arg}
       /\ early' # early =>
              \A s \in Users(mgr.item) :
                  s = mgr.msg.arg \/ pool[mgr.item].mac # mgr.msg.arg]_vars

\* When every message has been handled the link state tells the truth: it is
\* up only with a connection, and with the DHCP status set unless the
\* interface was given a static address.
Quiet == queue = <<>> /\ lib = None /\ mgr = Idle /\ tcpip = "idle"
LinkTruth == Quiet /\ nif.link => conn /\ (dhcpStatus = 1 \/ nif.static)
=============================================================================
