----------------------------- MODULE LinkProofs -----------------------------
(* The proof that the link state of the station's interface tells the truth  *)
(* once the manager has handled every message (WifiManager's LinkTruth).     *)
(*                                                                           *)
(* The messages about the connection alternate, from the side of the         *)
(* interface to the state of the library, wherever they wait: in the         *)
(* manager's hands, in the queue, or in the library's (InOrder).  The rest   *)
(* says where the manager is with its message and what the interface is      *)
(* then, and how the lease of a link comes to the status.                    *)
EXTENDS NetworkProofs

\* A message about the station's connection
About(n) == n.id \in {"sta_connected", "sta_disconnected"}

\* The side on which a message finds the connection, and on which it leaves it
Turns(n, before, after) ==
    /\ n.id = "sta_connected" => before = "down" /\ after = "up"
    /\ n.id = "sta_disconnected" => before = "up" /\ after = "down"
    /\ ~About(n) => after = before

\* The side that the interface is on, or that the manager is taking it to
Side == IF \/ mgr.msg.id = "sta_connected"
           \/ mgr.msg.id # "sta_disconnected" /\ (nif.dhcp # "off" \/ nif.link = TRUE)
        THEN "up" ELSE "down"

\* From the interface's side, the queued messages and then the library's lead to the
\* state of the connection.
Leads(side) ==
    /\ side \in [0 .. Len(queue) -> {"up", "down"}]
    /\ side[0] = Side
    /\ \A i \in 1 .. Len(queue) : Turns(queue[i], side[i - 1], side[i])
    /\ Turns(lib, side[Len(queue)], IF conn = TRUE THEN "up" ELSE "down")
InOrder == \E side \in [0 .. Len(queue) -> {"up", "down"}] : Leads(side)

\* Where the manager is, with what message
Handles ==
    /\ mgr.pc \in {"up", "setcb", "selfpost"} => mgr.msg.id = "sta_connected"
    /\ mgr.pc \in {"nocb", "dhcpstop", "linkdown"} => mgr.msg.id = "sta_disconnected"
    /\ mgr.pc = "status0" => About(mgr.msg)
    /\ About(mgr.msg) => mgr.pc \in {"up", "setcb", "selfpost", "nocb", "dhcpstop",
                                     "linkdown", "status0"}

\* The interface at each of these places
Interface ==
    /\ nif.cb = TRUE => nif.dhcp # "off"
    /\ mgr.pc = "up" => nif.dhcp = "off" /\ nif.link = FALSE
    /\ mgr.pc = "setcb" => nif.dhcp # "off" /\ nif.link = FALSE /\ nif.cb = FALSE
    /\ mgr.pc = "selfpost" => nif.dhcp = "off" /\ nif.link = TRUE
    /\ mgr.pc = "dhcpstop" => nif.cb = FALSE
    /\ mgr.pc = "linkdown" => nif.dhcp = "off"
    /\ mgr.pc = "status0" =>
           IF mgr.msg.id = "sta_connected" THEN nif.dhcp # "off" \/ nif.link = TRUE
           ELSE nif.dhcp = "off" /\ nif.link = FALSE

\* A link that came with a lease is on its way to the status, or in it; one that came
\* without is a static one, until the next message about the connection.
GotIpComes == tcpip = "post" \/ \E i \in 1 .. Len(queue) : queue[i].id = "got_ip"
Settled == ~About(lib) /\ \A i \in 1 .. Len(queue) : ~About(queue[i])
Announced ==
    nif.link = TRUE /\ mgr.msg.id # "sta_disconnected" =>
        IF nif.dhcp = "off" THEN Settled => nif.static = TRUE
        ELSE \/ GotIpComes \/ mgr.pc = "got_ip"
             \/ mgr.pc # "status0" /\ dhcpStatus = 1

LinkInv == InOrder /\ Handles /\ Interface /\ Announced

\* What the invariant is for
LEMMA LinkImplies == LinkInv /\ Inv => LinkTruth
<1> SUFFICES ASSUME LinkInv, Inv, Quiet, nif.link PROVE conn /\ (dhcpStatus = 1 \/ nif.static)
  BY DEF LinkTruth
<1>0. /\ queue = <<>> /\ Len(queue) = 0 /\ lib.id = "none" /\ mgr.msg.id = "none"
      /\ mgr.pc = "idle" /\ tcpip = "idle"
  BY DEF Quiet, None, Note, Idle
<1>1. nif.link = TRUE
  BY Zenon DEF Inv, MgrInv, NifTypes
<1>2. PICK side : Leads(side)
  BY DEF LinkInv, InOrder
<1>3. side[0] = "up"
  BY <1>0, <1>1, <1>2 DEF Leads, Side
<1>4. conn = TRUE
  BY <1>0, <1>2, <1>3 DEF Leads, Turns, About
<1>5. ~GotIpComes /\ Settled
  BY <1>0 DEF GotIpComes, Settled, About
<1>6. dhcpStatus = 1 \/ nif.static = TRUE
  BY <1>0, <1>1, <1>5 DEF LinkInv, Announced
<1> QED
  BY <1>4, <1>6, Zenon

\* Everything is down in the beginning.
LEMMA InitLink == Init => LinkInv
<1> SUFFICES ASSUME Init PROVE LinkInv
  OBVIOUS
<1>1. /\ queue = <<>> /\ Len(queue) = 0 /\ lib.id = "none" /\ mgr.msg.id = "none"
      /\ mgr.pc = "idle" /\ conn = FALSE
      /\ nif.link = FALSE /\ nif.dhcp = "off" /\ nif.cb = FALSE
  BY DEF Init, None, Note, Idle
<1>2. InOrder
  <2> DEFINE side == [i \in 0 .. Len(queue) |-> "down"]
  <2>1. Leads(side)
    BY <1>1 DEF Leads, Side, Turns, About
  <2> QED
    BY <2>1 DEF InOrder, Leads
<1>3. Handles /\ Interface /\ Announced
  BY <1>1 DEF Handles, Interface, Announced, About
<1> QED
  BY <1>2, <1>3 DEF LinkInv

-----------------------------------------------------------------------------
(* The order of the messages                                                 *)

\* Nothing moves.
LEMMA SameOrder ==
    ASSUME InOrder, UNCHANGED <<queue, lib, conn>>, Side' = Side
    PROVE  InOrder'
  BY DEF InOrder, Leads

\* The library takes up a message: one about the connection with its change.
LEMMA EventOrder ==
    ASSUME InOrder, queue' = queue, Side' = Side, ~About(lib),
           Turns(lib', IF conn = TRUE THEN "up" ELSE "down",
                       IF conn' = TRUE THEN "up" ELSE "down")
    PROVE  InOrder'
  BY DEF InOrder, Leads, Turns

\* A post that is not about the connection
LEMMA PostOrder ==
    ASSUME InOrder, MgrInv, NEW n \in Notes, ~About(n), queue' = Append(queue, n),
           UNCHANGED <<lib, conn>>, Side' = Side
    PROVE  InOrder'
<1>0. queue \in Seq(Notes) /\ Len(queue) \in Nat
  BY DEF MgrInv
<1>1. PICK side \in [0 .. Len(queue) -> {"up", "down"}] : Leads(side)
  BY DEF InOrder
<1>a. PICK longer : longer = [i \in 0 .. Len(queue) + 1 |->
                                  IF i = Len(queue) + 1 THEN side[Len(queue)] ELSE side[i]]
  OBVIOUS
<1>2. /\ Len(queue') = Len(queue) + 1 /\ queue'[Len(queue) + 1] = n
      /\ \A i \in 1 .. Len(queue) : queue'[i] = queue[i]
  BY <1>0
<1>3. longer \in [0 .. Len(queue') -> {"up", "down"}] /\ longer[0] = Side'
  BY <1>a, <1>0, <1>1, <1>2 DEF Leads
<1>4. ASSUME NEW i \in 1 .. Len(queue') PROVE Turns(queue'[i], longer[i - 1], longer[i])
  <2>1. CASE i = Len(queue) + 1
    BY <1>a, <1>0, <1>2, <2>1 DEF Turns, About
  <2>2. CASE i \in 1 .. Len(queue)
    BY <1>a, <1>0, <1>1, <1>2, <2>2 DEF Leads
  <2> QED
    BY <1>0, <1>2, <2>1, <2>2
<1>5. Turns(lib', longer[Len(queue')], IF conn' = TRUE THEN "up" ELSE "down")
  <2>1. longer[Len(queue')] = side[Len(queue)]
    BY <1>a, <1>0, <1>2
  <2> QED
    BY <1>1, <2>1 DEF Leads
<1>6. Leads(longer)'
  BY <1>3, <1>4, <1>5 DEF Leads
<1> QED
  BY <1>3, <1>6 DEF InOrder

\* The library's own post
LEMMA LibPostOrder ==
    ASSUME InOrder, MgrInv, LibPost, Side' = Side
    PROVE  InOrder'
<1>0. /\ queue \in Seq(Notes) /\ Len(queue) \in Nat /\ lib \in Notes /\ queue' = Append(queue, lib)
      /\ lib'.id = "none" /\ conn' = conn
  BY DEF MgrInv, LibPost, None, Note
<1>1. PICK side \in [0 .. Len(queue) -> {"up", "down"}] : Leads(side)
  BY DEF InOrder
<1>b. PICK last \in {"up", "down"} : last = IF conn = TRUE THEN "up" ELSE "down"
  OBVIOUS
<1>a. PICK longer : longer = [i \in 0 .. Len(queue) + 1 |->
                                  IF i = Len(queue) + 1 THEN last ELSE side[i]]
  OBVIOUS
<1>2. /\ Len(queue') = Len(queue) + 1 /\ queue'[Len(queue) + 1] = lib
      /\ \A i \in 1 .. Len(queue) : queue'[i] = queue[i]
  BY <1>0
<1>3. longer \in [0 .. Len(queue') -> {"up", "down"}] /\ longer[0] = Side'
  BY <1>a, <1>0, <1>1, <1>2 DEF Leads
<1>4. ASSUME NEW i \in 1 .. Len(queue') PROVE Turns(queue'[i], longer[i - 1], longer[i])
  <2>1. CASE i = Len(queue) + 1
    <3>1. longer[i - 1] = side[Len(queue)] /\ longer[i] = last
      BY <1>a, <1>0, <2>1
    <3> QED
      BY <1>b, <1>1, <1>2, <2>1, <3>1 DEF Leads
  <2>2. CASE i \in 1 .. Len(queue)
    BY <1>a, <1>0, <1>1, <1>2, <2>2 DEF Leads
  <2> QED
    BY <1>0, <1>2, <2>1, <2>2
<1>5. Turns(lib', longer[Len(queue')], IF conn' = TRUE THEN "up" ELSE "down")
  BY <1>a, <1>b, <1>0, <1>2 DEF Turns, About
<1>6. Leads(longer)'
  BY <1>3, <1>4, <1>5 DEF Leads
<1> QED
  BY <1>3, <1>6 DEF InOrder

\* The manager receives a message, which turns the interface's side.
LEMMA ReceiveOrder ==
    ASSUME InOrder, MgrInv, QueueReceive,
           Head(queue).id = "sta_connected" => Side' = "up",
           Head(queue).id = "sta_disconnected" => Side' = "down",
           ~About(Head(queue)) => Side' = Side
    PROVE  InOrder'
<1>0. /\ queue \in Seq(Notes) /\ queue # <<>> /\ queue' = Tail(queue)
      /\ lib' = lib /\ conn' = conn
  BY DEF MgrInv, QueueReceive
<1>1. PICK side \in [0 .. Len(queue) -> {"up", "down"}] : Leads(side)
  BY DEF InOrder
<1>2. /\ Len(queue) \in Nat \ {0} /\ Len(queue') = Len(queue) - 1 /\ Head(queue) = queue[1]
      /\ \A i \in 1 .. Len(queue') : queue'[i] = queue[i + 1]
  BY <1>0
<1>a. PICK shorter : shorter = [i \in 0 .. Len(queue') |-> side[i + 1]]
  OBVIOUS
<1>3. shorter \in [0 .. Len(queue') -> {"up", "down"}]
  BY <1>a, <1>1, <1>2
<1>4. shorter[0] = Side'
  <2>1. Turns(Head(queue), Side, side[1]) /\ side[1] \in {"up", "down"} /\ shorter[0] = side[1]
    BY <1>a, <1>1, <1>2 DEF Leads
  <2> QED
    BY <2>1 DEF Turns, About, Side
<1>5. ASSUME NEW i \in 1 .. Len(queue') PROVE Turns(queue'[i], shorter[i - 1], shorter[i])
  <2>1. i + 1 \in 1 .. Len(queue) /\ (i + 1) - 1 = i /\ shorter[i - 1] = side[i]
        /\ shorter[i] = side[i + 1] /\ queue'[i] = queue[i + 1]
    BY <1>a, <1>2
  <2> QED
    BY <1>1, <2>1 DEF Leads
<1>6. Turns(lib', shorter[Len(queue')], IF conn' = TRUE THEN "up" ELSE "down")
  <2>1. shorter[Len(queue')] = side[Len(queue)]
    BY <1>a, <1>2
  <2> QED
    BY <1>0, <1>1, <2>1 DEF Leads
<1>7. Leads(shorter)'
  BY <1>3, <1>4, <1>5, <1>6 DEF Leads
<1> QED
  BY <1>3, <1>7 DEF InOrder

-----------------------------------------------------------------------------
(* The steps                                                                 *)

\* The library takes up a message.
LEMMA EventLink ==
    ASSUME Inv, LinkInv,
           \/ Connect \/ Disconnect \/ ApReady \/ Other
           \/ \E s \in Stations : StaLeaves(s)
    PROVE  LinkInv'
<1>1. /\ lib.id = "none" /\ UNCHANGED <<queue, mgr, dhcpStatus, tcpip>>
      /\ nif'.link = nif.link /\ nif'.dhcp = nif.dhcp /\ nif'.cb = nif.cb
      /\ \/ lib'.id = "sta_connected" /\ conn # TRUE /\ conn' = TRUE
         \/ lib'.id = "sta_disconnected" /\ conn = TRUE /\ conn' = FALSE /\ nif' = nif
         \/ ~About(lib') /\ conn' = conn /\ nif' = nif
  <2>0. lib.id = "none" /\ UNCHANGED <<queue, mgr, dhcpStatus, tcpip>>
    <3>1. lib = None /\ UNCHANGED <<queue, mgr, dhcpStatus, tcpip>>
      BY DEF Connect, Disconnect, ApReady, Other, StaLeaves, Event
    <3> QED
      BY <3>1 DEF None, Note
  <2>1. CASE Connect
    <3>1. PICK static \in BOOLEAN : nif' = [nif EXCEPT !.static = static]
      BY <2>1 DEF Connect
    <3>2. nif'.link = nif.link /\ nif'.dhcp = nif.dhcp /\ nif'.cb = nif.cb
      BY <3>1 DEF Inv, MgrInv, NifTypes
    <3>3. conn # TRUE /\ conn' = TRUE
      BY <2>1, Zenon DEF Connect
    <3>4. lib' = Note("sta_connected", NoMac)
      BY <2>1, Zenon DEF Connect, Event
    <3>5. lib'.id = "sta_connected"
      BY <3>4 DEF Note
    <3> QED
      BY <2>0, <3>2, <3>3, <3>5
  <2>2. CASE Disconnect
    <3>1. conn = TRUE /\ conn' = FALSE
      BY <2>2, Zenon DEF Disconnect, Inv, MgrInv
    <3>2. lib' = Note("sta_disconnected", NoMac) /\ nif' = nif
      BY <2>2, Zenon DEF Disconnect, Event
    <3>3. lib'.id = "sta_disconnected"
      BY <3>2 DEF Note
    <3> QED
      BY <2>0, <3>1, <3>2, <3>3
  <2>3. CASE ApReady \/ Other \/ \E s \in Stations : StaLeaves(s)
    <3>1. /\ conn' = conn /\ nif' = nif
          /\ \E s \in Stations \cup {NoMac}, id \in {"ap_ready", "other", "ap_stadisconnected"} :
                 lib' = Note(id, s)
      <4>1. CASE ApReady
        BY <4>1, Zenon DEF ApReady, Event
      <4>2. CASE Other
        BY <4>2, Zenon DEF Other, Event
      <4>3. CASE \E s \in Stations : StaLeaves(s)
        BY <4>3, Zenon DEF StaLeaves, Event
      <4> QED
        BY <2>3, <4>1, <4>2, <4>3
    <3>2. ~About(lib')
      BY <3>1 DEF Note, About
    <3> QED
      BY <2>0, <3>1, <3>2
  <2> QED
    BY <2>1, <2>2, <2>3
<1>2. Side' = Side
  BY <1>1 DEF Side
<1>3. InOrder'
  BY <1>1, <1>2, EventOrder DEF LinkInv, Turns, About
<1>4. Handles' /\ Interface'
  BY <1>1 DEF LinkInv, Handles, Interface, About
<1>5. Announced'
  BY <1>1 DEF LinkInv, Announced, GotIpComes, Settled, About
<1> QED
  BY <1>3, <1>4, <1>5 DEF LinkInv

\* The library posts its message.
LEMMA LibPostLink ==
    ASSUME Inv, LinkInv, LibPost
    PROVE  LinkInv'
<1>1. /\ queue \in Seq(Notes) /\ lib \in Notes /\ queue' = Append(queue, lib)
      /\ UNCHANGED <<mgr, conn, nif, dhcpStatus, tcpip>>
  BY DEF Inv, MgrInv, LibPost
<1>2. /\ Len(queue) \in Nat /\ Len(queue') = Len(queue) + 1 /\ queue'[Len(queue) + 1] = lib
      /\ \A i \in 1 .. Len(queue) : queue'[i] = queue[i]
  BY <1>1
<1>3. InOrder'
  BY <1>1, LibPostOrder DEF LinkInv, Inv, Side
<1>4. Handles' /\ Interface'
  BY <1>1 DEF LinkInv, Handles, Interface
<1>5. (GotIpComes => GotIpComes') /\ (Settled' => Settled)
  BY <1>1, <1>2 DEF GotIpComes, Settled
<1>6. Announced'
  BY <1>1, <1>5 DEF LinkInv, Announced
<1> QED
  BY <1>3, <1>4, <1>6 DEF LinkInv

\* The posts of lwIP's thread and of the manager to itself
LEMMA PostLink ==
    ASSUME Inv, LinkInv, SelfPost \/ TcpipPost
    PROVE  LinkInv'
<1>1. PICK n \in Notes :
      /\ queue' = Append(queue, n) /\ n.id \in {"other", "got_ip"}
      /\ tcpip' = "post" => tcpip = "post"
      /\ tcpip = "post" /\ tcpip' # "post" => n.id = "got_ip"
      /\ mgr'.msg = mgr.msg
      /\ mgr'.pc = mgr.pc \/ (mgr.pc = "selfpost" /\ mgr'.pc = "status0")
      /\ UNCHANGED <<lib, conn, nif, dhcpStatus>>
  <2>1. Note("other", NoMac) \in Notes /\ Note("got_ip", NoMac) \in Notes
    BY DEF Note, Notes
  <2> QED
    BY <2>1 DEF SelfPost, TcpipPost, Goto, At, Elsewhere, Inv, MgrInv, Note
<1>2. /\ queue \in Seq(Notes) /\ Len(queue) \in Nat /\ Len(queue') = Len(queue) + 1
      /\ queue'[Len(queue) + 1] = n /\ \A i \in 1 .. Len(queue) : queue'[i] = queue[i]
  BY <1>1 DEF Inv, MgrInv
<1>3. InOrder'
  <2>1. ~About(n) /\ Side' = Side
    BY <1>1 DEF About, Side
  <2> QED
    BY <1>1, <2>1, PostOrder DEF LinkInv, Inv
<1>4. Handles' /\ Interface'
  BY <1>1 DEF LinkInv, Handles, Interface, About
<1>5. (GotIpComes => GotIpComes') /\ (Settled' => Settled)
  BY <1>1, <1>2 DEF GotIpComes, Settled
<1>6. Announced'
  BY <1>1, <1>4, <1>5 DEF LinkInv, Announced, Interface
<1> QED
  BY <1>3, <1>4, <1>6 DEF LinkInv

\* The manager receives a message: a got_ip is in its hands then, and one about the
\* connection finds the interface on the other side.
LEMMA ReceiveLink ==
    ASSUME Inv, LinkInv, QueueReceive
    PROVE  LinkInv'
<1>1. /\ queue \in Seq(Notes) /\ queue # <<>> /\ queue' = Tail(queue)
      /\ mgr.pc = "idle" /\ mgr'.pc = Handler(Head(queue))
      /\ mgr'.msg = IF Handler(Head(queue)) = "idle" THEN None ELSE Head(queue)
      /\ UNCHANGED <<lib, conn, nif, dhcpStatus, tcpip>>
  BY DEF Inv, MgrInv, QueueReceive, Idle
<1>2. /\ Len(queue) \in Nat \ {0} /\ Len(queue') = Len(queue) - 1 /\ Head(queue) = queue[1]
      /\ Head(queue) \in Notes /\ \A i \in 1 .. Len(queue') : queue'[i] = queue[i + 1]
  BY <1>1
<1>3. /\ ~About(mgr.msg)
      /\ mgr'.msg.id = "sta_connected" <=> Head(queue).id = "sta_connected"
      /\ mgr'.msg.id = "sta_disconnected" <=> Head(queue).id = "sta_disconnected"
      /\ mgr'.pc = CASE Head(queue).id = "sta_connected" -> "up"
                     [] Head(queue).id = "sta_disconnected" -> "nocb"
                     [] Head(queue).id = "got_ip" -> "got_ip"
                     [] Head(queue).id = "ap_ready" -> "ap_ready"
                     [] Head(queue).id = "ap_stadisconnected" -> "find"
                     [] OTHER -> "idle"
  BY <1>1, <1>2 DEF LinkInv, Handles, Handler, Notes, None, Note, About
<1>4. InOrder'
  BY <1>1, <1>3, ReceiveOrder DEF LinkInv, Inv, Side, About
<1>5. Head(queue).id = "sta_connected" => nif.dhcp = "off" /\ nif.link = FALSE
  <2>1. PICK side : Leads(side)
    BY DEF LinkInv, InOrder
  <2>2. Turns(Head(queue), Side, side[1])
    BY <1>2, <2>1 DEF Leads
  <2> QED
    BY <1>3, <2>2 DEF Turns, Side, About, Inv, MgrInv, NifTypes
<1>6. Handles' /\ Interface'
  <2>1. Handles'
    BY <1>3 DEF Handles, About
  <2>2. Interface'
    BY <1>1, <1>3, <1>5 DEF LinkInv, Interface
  <2> QED
    BY <2>1, <2>2
<1>7. Announced'
  <2> SUFFICES ASSUME nif'.link = TRUE, mgr'.msg.id # "sta_disconnected"
               PROVE  IF nif'.dhcp = "off" THEN Settled' => nif'.static = TRUE
                      ELSE \/ GotIpComes' \/ mgr'.pc = "got_ip"
                           \/ mgr'.pc # "status0" /\ dhcpStatus' = 1
    BY DEF Announced
  <2>1. ~About(Head(queue)) /\ mgr'.pc # "status0"
    BY <1>1, <1>3, <1>5 DEF About
  <2>2. Settled' => Settled
    <3> SUFFICES ASSUME Settled', NEW i \in 1 .. Len(queue) PROVE ~About(queue[i])
      BY <1>1 DEF Settled
    <3>1. CASE i = 1
      BY <1>2, <2>1, <3>1
    <3>2. CASE i # 1
      <4>1. i - 1 \in 1 .. Len(queue') /\ (i - 1) + 1 = i
        BY <1>2, <3>2
      <4>2. queue'[i - 1] = queue[i]
        BY <1>2, <4>1
      <4> QED
        BY <4>1, <4>2 DEF Settled, About
    <3> QED
      BY <3>1, <3>2
  <2>3. GotIpComes => GotIpComes' \/ mgr'.pc = "got_ip"
    <3> SUFFICES ASSUME NEW i \in 1 .. Len(queue), queue[i].id = "got_ip"
                 PROVE  GotIpComes' \/ mgr'.pc = "got_ip"
      BY <1>1 DEF GotIpComes
    <3>1. CASE i = 1
      BY <1>2, <1>3, <3>1
    <3>2. CASE i # 1
      <4>1. i - 1 \in 1 .. Len(queue') /\ (i - 1) + 1 = i
        BY <1>2, <3>2
      <4>2. queue'[i - 1] = queue[i]
        BY <1>2, <4>1
      <4> QED
        BY <4>1, <4>2 DEF GotIpComes
    <3> QED
      BY <3>1, <3>2
  <2> QED
    BY <1>1, <1>3, <2>1, <2>2, <2>3 DEF LinkInv, Announced, About
<1> QED
  BY <1>4, <1>6, <1>7 DEF LinkInv

\* The manager takes the interface up.  It was down, so that no lease is older than this.
LEMMA UpLink ==
    ASSUME Inv, LinkInv, StaUp \/ SetCallback
    PROVE  LinkInv'
<1>1. /\ UNCHANGED <<queue, lib, conn, dhcpStatus, tcpip>> /\ mgr'.msg = mgr.msg
      /\ mgr.pc \in {"up", "setcb"} /\ mgr'.pc \in {"setcb", "selfpost", "status0"}
  BY DEF StaUp, SetCallback, At, Goto, Elsewhere, Inv, MgrInv
<1>2. mgr.msg.id = "sta_connected" /\ mgr'.msg.id = "sta_connected"
  BY <1>1 DEF LinkInv, Handles
<1>3. InOrder'
  BY <1>1, <1>2, SameOrder DEF LinkInv, Side
<1>4. Handles'
  BY <1>1, <1>2 DEF Handles, About
<1>5. CASE SetCallback
  <2>1. /\ mgr.pc = "setcb" /\ mgr'.pc = "status0" /\ nif'.link = nif.link
        /\ nif'.dhcp = nif.dhcp
    BY <1>5 DEF SetCallback, At, Goto, Inv, MgrInv, NifTypes
  <2>2. Interface' /\ Announced'
    BY <1>1, <1>2, <2>1 DEF LinkInv, Interface, Announced
  <2> QED
    BY <1>3, <1>4, <2>2 DEF LinkInv
<1>6. CASE StaUp
  <2>1. mgr.pc = "up" /\ nif.dhcp = "off" /\ nif.link = FALSE /\ nif.cb # TRUE
    BY <1>6 DEF StaUp, At, LinkInv, Interface
  <2>2. CASE nif' = [nif EXCEPT !.ip = FALSE, !.dhcp = "running"] /\ Goto("setcb")
    <3>1. nif'.dhcp = "running" /\ nif'.link = FALSE /\ nif'.cb = FALSE /\ mgr'.pc = "setcb"
      BY <2>1, <2>2 DEF Inv, MgrInv, NifTypes, Goto
    <3>2. Interface' /\ Announced'
      BY <1>2, <3>1 DEF Interface, Announced
    <3> QED
      BY <1>3, <1>4, <3>2 DEF LinkInv
  <2>3. CASE nif.static /\ nif' = [nif EXCEPT !.link = TRUE] /\ Goto("selfpost")
    <3>0. nif.static = TRUE
      BY <2>3, Zenon DEF Inv, MgrInv, NifTypes
    <3>1. /\ nif'.dhcp = "off" /\ nif'.link = TRUE /\ nif'.cb # TRUE /\ nif'.static = TRUE
          /\ mgr'.pc = "selfpost"
      BY <2>1, <2>3, <3>0 DEF Inv, MgrInv, NifTypes, Goto
    <3>2. Interface' /\ Announced'
      BY <1>2, <3>1 DEF Interface, Announced
    <3> QED
      BY <1>3, <1>4, <3>2 DEF LinkInv
  <2> QED
    BY <1>6, <2>2, <2>3 DEF StaUp
<1> QED
  BY <1>5, <1>6

\* The manager takes the interface down, the callback first.
LEMMA DownLink ==
    ASSUME Inv, LinkInv, RemoveCallback \/ StopClient \/ LinkDown
    PROVE  LinkInv'
<1>1. /\ UNCHANGED <<queue, lib, conn, dhcpStatus, tcpip>> /\ mgr'.msg = mgr.msg
      /\ mgr.pc \in {"nocb", "dhcpstop", "linkdown"}
      /\ mgr'.pc \in {"dhcpstop", "linkdown", "status0"}
  BY DEF RemoveCallback, StopClient, LinkDown, At, Goto, Elsewhere, Inv, MgrInv
<1>2. mgr.msg.id = "sta_disconnected" /\ mgr'.msg.id = "sta_disconnected"
  BY <1>1 DEF LinkInv, Handles
<1>3. InOrder'
  BY <1>1, <1>2, SameOrder DEF LinkInv, Side
<1>4. Handles' /\ Announced'
  BY <1>1, <1>2 DEF Handles, Announced, About
<1>5. Interface'
  <2>1. CASE RemoveCallback
    <3>1. mgr'.pc = "dhcpstop" /\ nif'.cb = FALSE
      BY <2>1 DEF RemoveCallback, Goto, Inv, MgrInv, NifTypes
    <3> QED
      BY <3>1 DEF Interface
  <2>2. CASE StopClient
    <3>1. /\ mgr.pc = "dhcpstop" /\ mgr'.pc = "linkdown" /\ nif'.dhcp = "off"
          /\ nif'.cb = nif.cb
      BY <2>2 DEF StopClient, At, Goto, Inv, MgrInv, NifTypes
    <3> QED
      BY <3>1 DEF LinkInv, Interface
  <2>3. CASE LinkDown
    <3>1. /\ mgr.pc = "linkdown" /\ mgr'.pc = "status0" /\ nif'.link = FALSE
          /\ nif'.cb = nif.cb /\ nif'.dhcp = nif.dhcp
      BY <2>3 DEF LinkDown, At, Goto, Inv, MgrInv, NifTypes
    <3> QED
      BY <1>2, <3>1 DEF LinkInv, Interface
  <2> QED
    BY <2>1, <2>2, <2>3
<1> QED
  BY <1>3, <1>4, <1>5 DEF LinkInv

\* The status of the client: it is cleared before a lease of this connection can be
\* handled, and set when one is.
LEMMA StatusLink ==
    ASSUME Inv, LinkInv, ClearStatus \/ GotIp
    PROVE  LinkInv'
<1>1. /\ UNCHANGED <<queue, lib, conn, tcpip, nif>> /\ mgr'.msg.id = "none" /\ mgr'.pc = "idle"
      /\ mgr.pc \in {"status0", "got_ip"}
      /\ mgr.pc = "got_ip" => dhcpStatus' = 1
  BY DEF ClearStatus, GotIp, At, Goto, Elsewhere, Idle, None, Note
<1>2. mgr.pc = "got_ip" => ~About(mgr.msg)
  BY DEF LinkInv, Handles
<1>3. Side' = Side
  BY <1>1, <1>2 DEF LinkInv, Handles, Interface, Side, About
<1>4. InOrder'
  BY <1>1, <1>3, SameOrder DEF LinkInv
<1>5. Handles' /\ Interface'
  BY <1>1 DEF LinkInv, Handles, Interface, About
<1>6. (GotIpComes <=> GotIpComes') /\ (Settled' <=> Settled)
  BY <1>1 DEF GotIpComes, Settled
<1>7. Announced'
  BY <1>1, <1>2, <1>6 DEF LinkInv, Announced, Interface, About
<1> QED
  BY <1>4, <1>5, <1>7 DEF LinkInv

\* lwIP's client binds: only with the callback in place does the link come up.
LEMMA BindLink ==
    ASSUME Inv, LinkInv, Bind
    PROVE  LinkInv'
<1>1. /\ UNCHANGED <<queue, mgr, lib, conn, dhcpStatus>>
      /\ nif.dhcp = "running" /\ nif'.dhcp = "bound" /\ nif'.cb = nif.cb
  BY DEF Bind, Inv, MgrInv, NifTypes
<1>2. \/ nif.cb = TRUE /\ nif'.link = TRUE /\ tcpip' = "post"
      \/ nif'.link = nif.link /\ tcpip' = tcpip
  <2>1. CASE nif.cb /\ ~nif.ip
    <3>1. nif.cb = TRUE
      BY <2>1, Zenon DEF Inv, MgrInv, NifTypes
    <3>2. nif' = [nif EXCEPT !.dhcp = "bound", !.ip = TRUE, !.link = TRUE] /\ tcpip' = "post"
      BY <2>1, Zenon DEF Bind
    <3> QED
      BY <3>1, <3>2 DEF Inv, MgrInv, NifTypes
  <2>2. CASE ~(nif.cb /\ ~nif.ip)
    <3>1. nif' = [nif EXCEPT !.dhcp = "bound"] /\ tcpip' = tcpip
      BY <2>2, Zenon DEF Bind
    <3> QED
      BY <3>1 DEF Inv, MgrInv, NifTypes
  <2> QED
    BY <2>1, <2>2
<1>3. Side' = Side
  BY <1>1 DEF Side
<1>4. InOrder'
  BY <1>1, <1>3, SameOrder DEF LinkInv
<1>5. Handles'
  BY <1>1 DEF LinkInv, Handles
<1>6. Interface'
  BY <1>1, <1>2 DEF LinkInv, Interface, Handles
<1>7. Announced'
  BY <1>1, <1>2 DEF LinkInv, Announced, GotIpComes
<1> QED
  BY <1>4, <1>5, <1>6, <1>7 DEF LinkInv

\* The steps of the access point's side: at most they set the status.
LEMMA ApLink ==
    ASSUME Inv, LinkInv,
           \/ ApUp \/ ReleaseFind \/ ReleaseSet \/ Server \/ AtStop \/ UNCHANGED vars
           \/ \E s \in Stations : StaJoins(s) \/ StaSends(s)
    PROVE  LinkInv'
<1>1. /\ UNCHANGED <<queue, lib, conn, tcpip>>
      /\ nif'.link = nif.link /\ nif'.dhcp = nif.dhcp /\ nif'.cb = nif.cb
      /\ nif'.static = nif.static
      /\ dhcpStatus' = dhcpStatus \/ dhcpStatus' = 1
      /\ \/ mgr' = mgr
         \/ /\ mgr.pc \in {"ap_ready", "find", "free"} /\ mgr'.pc \in {"idle", "free"}
            /\ mgr'.msg = mgr.msg \/ mgr'.msg.id = "none"
  <2>1. CASE ApUp
    <3>1. nif' = nif \/ nif' = [nif EXCEPT !.apLink = TRUE]
      BY <2>1 DEF ApUp
    <3>2. /\ nif'.link = nif.link /\ nif'.dhcp = nif.dhcp /\ nif'.cb = nif.cb
          /\ nif'.static = nif.static
      BY <3>1 DEF Inv, MgrInv, NifTypes
    <3> QED
      BY <2>1, <3>2 DEF ApUp, At, Goto, Elsewhere, Idle, None, Note
  <2>2. CASE ReleaseFind \/ ReleaseSet
    <3>1. /\ UNCHANGED <<queue, lib, conn, tcpip, nif, dhcpStatus>>
          /\ mgr.pc \in {"find", "free"}
      <4>1. CASE ReleaseFind
        BY <4>1 DEF ReleaseFind, Elsewhere, At
      <4>2. CASE ReleaseSet
        BY <4>2 DEF ReleaseSet, Elsewhere, At
      <4> QED
        BY <2>2, <4>1, <4>2
    <3>2. \/ mgr' = [mgr EXCEPT !.pc = "free", !.item = get_ip_item(mgr.msg.arg)]
          \/ mgr' = Idle
      BY <2>2 DEF ReleaseFind, ReleaseSet, Goto
    <3>3. /\ mgr'.pc \in {"idle", "free"}
          /\ mgr'.msg = mgr.msg \/ mgr'.msg.id = "none"
      <4>1. CASE mgr' = Idle
        BY <4>1 DEF Idle, None, Note
      <4>2. ASSUME NEW k, mgr' = [mgr EXCEPT !.pc = "free", !.item = k]
            PROVE  mgr'.pc = "free" /\ mgr'.msg = mgr.msg
        BY <4>2 DEF Inv, MgrInv
      <4> QED
        BY <3>2, <4>1, <4>2
    <3> QED
      BY <3>1, <3>3
  <2>3. CASE \/ Server \/ AtStop \/ UNCHANGED vars
             \/ \E s \in Stations : StaJoins(s) \/ StaSends(s)
    BY <2>3 DEF Server, AtStop, StaJoins, StaSends, managerVars, vars
  <2> QED
    BY <2>1, <2>2, <2>3
<1>2. mgr' = mgr \/ (~About(mgr.msg) /\ ~About(mgr'.msg))
  BY <1>1 DEF LinkInv, Handles, About
<1>3. Side' = Side
  BY <1>1, <1>2 DEF Side, About
<1>4. InOrder'
  BY <1>1, <1>3, SameOrder DEF LinkInv
<1>5. Handles' /\ Interface'
  BY <1>1, <1>2 DEF LinkInv, Handles, Interface, About
<1>6. (GotIpComes <=> GotIpComes') /\ (Settled' <=> Settled)
  BY <1>1 DEF GotIpComes, Settled
<1>7. Announced'
  BY <1>1, <1>2, <1>6 DEF LinkInv, Announced, About
<1> QED
  BY <1>4, <1>5, <1>7 DEF LinkInv

\* Every step keeps the invariant.
LEMMA StepLink == Inv /\ LinkInv /\ [Next]_vars => LinkInv'
<1> SUFFICES ASSUME Inv, LinkInv, [Next]_vars PROVE LinkInv'
  OBVIOUS
<1>1. CASE Manager
  BY <1>1, ReceiveLink, PostLink, UpLink, DownLink, StatusLink, ApLink DEF Manager
<1> QED
  BY <1>1, EventLink, LibPostLink, PostLink, BindLink, ApLink DEF Next

-----------------------------------------------------------------------------
\* Once every message has been handled, the interface's link is up only with a
\* connection, and with the DHCP status set or a static address: however the messages of
\* the library, of lwIP's thread and of the manager itself interleave, and whatever the
\* depth of the queue.
THEOREM LinkTells == Spec => []LinkTruth
<1>1. Spec => []LinkInv
  BY Invariance, InitLink, StepLink, PTL DEF Spec
<1> QED
  BY <1>1, Invariance, LinkImplies, PTL
=============================================================================
