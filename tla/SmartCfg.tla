------------------------------ MODULE SmartCfg ------------------------------
(* Provisioning over the air (components/smartlink/smartcfg/ln_smartcfg.c    *)
(* and the application's loop around it).  A phone on one channel repeats    *)
(* multicast frames whose third address carries a packet number and two      *)
(* bytes: four lead frames with the sizes of what follows, then the data,    *)
(* one half word to a frame, the last one the checksums.  The device hops    *)
(* from channel to channel on a timer until it has a lead code.              *)
(*                                                                           *)
(* Three contexts interleave: the Wi-Fi task that runs the sniffer callback, *)
(* the timer task (of the highest priority, so that its callback is one      *)
(* step) and the application.  Every other sender of multicast frames (an    *)
(* earlier session of the phone, or traffic that only looks like a session)  *)
(* is a stray: it may be heard anywhere, at any time, MaxStray times.        *)
(*                                                                           *)
(* A byte string is named after the session it belongs to.  The two CRC-8    *)
(* are idealised: they tell any two strings of different origin apart, so    *)
(* that no property here says what they are good for.  That a length which   *)
(* a frame has overwritten makes ln_sc_decode copy past sc_ssid is left out. *)
EXTENDS Naturals, FiniteSets

CONSTANTS Phone,         \* the session that is going on
          Sessions,      \* it and earlier ones, whose frames are strays
          Noise,         \* frames with the magic address that belong to none
          Total,         \* size of SSID and password of each session
          Pwd,           \* size of the password of each session
          Nil,           \* zero bytes
          MaxPwd,        \* 63
          MaxSsid,       \* 32
          HalfWords,     \* SC_MAX_SSIDPWD_LEN / 2, the size of recvbuff
          NumChan,       \* channels in ch_map
          Home,          \* the phone's channel
          SsidBit,       \* bit 7 of the address of sc_ssid
          MaxStray       \* bound on the stray frames

\* How many half words carry len bytes and the checksums
Expect(len) == (len \div 2) + (len % 2) + 1

ASSUME SmartCfgAssumption ==
    /\ Phone \in Sessions /\ Noise \notin Sessions /\ Nil \notin Sessions \cup {Noise}
    /\ Total \in [Sessions -> Nat] /\ Pwd \in [Sessions -> Nat]
    /\ MaxPwd \in Nat /\ MaxSsid \in Nat /\ HalfWords \in 1 .. 64 /\ MaxStray \in Nat
    /\ NumChan \in Nat /\ Home \in 0 .. NumChan - 1 /\ SsidBit \in BOOLEAN
    /\ \A s \in Sessions : /\ Pwd[s] <= MaxPwd
                           /\ Pwd[s] <= Total[s] /\ Total[s] <= Pwd[s] + MaxSsid
                           /\ Expect(Total[s]) \in 1 .. HalfWords - 1

VARIABLES sc,            \* *sc_ctl
          result,        \* sc_ssid and sc_pwd, as the sessions whose SSID and whose
                         \* password they hold, and sc_random
          chan,          \* the radio's channel
          timer,         \* whether channel_hop_timer runs
          sniffer,       \* whether promiscuous mode is on
          rx,            \* the frame on its way to the sniffer callback, or Nil
          cb,            \* where the sniffer callback is
          app,           \* where the application is
          strays         \* stray frames heard

vars == <<sc, result, chan, timer, sniffer, rx, cb, app, strays>>

IDLE == 0
SEARCH_CHAN == 1
LOCKED_CHAN == 2
COMPLETE == 4

\* LEAD_CODE_SEQ_SSIDPWD_SIZE, LEAD_CODE_SEQ_PWD_SIZE, LEAD_CODE_SEQ_RANDOM
Seqs == 1 .. 4
SSIDPWD_SIZE == 2
PWD_SIZE == 3
RANDOM == 4
PACKET_NUM_MAX == 127
First == 5

\* The index one past recvbuff and pkt_mark, which the range check lets pass
Over == HalfWords
Index == 0 .. Over - 1

Sizes == {Total[s] : s \in Sessions}

\* hi is the high byte of the half word, which matters in one place only.
Frame(n, s, g, h) == [n |-> n, from |-> s, good |-> g, hi |-> h]
FramesOf(s) == {Frame(n, s, TRUE, 0) : n \in Seqs \cup First .. First + Expect(Total[s]) - 1}
LooksLike == {Frame(n, Noise, FALSE, 0) :
                 n \in {0, PACKET_NUM_MAX + 1} \cup Seqs \cup First .. First + Over - 1}
             \cup {Frame(First + Over, Noise, FALSE, h) : h \in Sizes \cup {0}}
Strays == LooksLike \cup UNION {FramesOf(s) : s \in Sessions \ {Phone}}

Empty == [i \in Index |-> Nil]
NoLead == [total |-> 0, pwd |-> 0, random |-> Nil, mark |-> {}, complete |-> FALSE]
Fresh == [mem |-> "live", state |-> SEARCH_CHAN, hopping |-> TRUE, lead |-> NoLead,
          expect |-> 0, count |-> 0, marks |-> {}, buf |-> Empty]
NoResult == [ssid |-> {}, pwd |-> {}, random |-> Nil]

Init == /\ sc = [Fresh EXCEPT !.mem = "null", !.state = IDLE, !.hopping = FALSE]
        /\ result = NoResult
        /\ chan \in 0 .. NumChan - 1
        /\ timer = FALSE
        /\ sniffer = FALSE
        /\ rx = Nil
        /\ cb = "idle"
        /\ app = "start"
        /\ strays = 0

-----------------------------------------------------------------------------
(* ln_sc_recv_frame_proc, as a function of *sc_ctl and the frame             *)

\* uint8_t ssidlen
SsidLen(l) == (256 + l.total - l.pwd) % 256
SizesOk(l) == l.pwd <= MaxPwd /\ SsidLen(l) <= MaxSsid

\* The field that a lead frame carries
Field(l, f) == [l EXCEPT !.mark = @ \cup {f.n},
                         !.total = IF f.n = SSIDPWD_SIZE THEN Total[f.from] ELSE @,
                         !.pwd = IF f.n = PWD_SIZE THEN Pwd[f.from] ELSE @,
                         !.random = IF f.n = RANDOM THEN f.from ELSE @]
TakeField(c, f) ==
    [c EXCEPT !.lead = Field(@, f),
              !.expect = IF f.n = SSIDPWD_SIZE THEN Expect(Total[f.from]) ELSE @]

\* Fault: sizes out of range are refused, but their marks stay.
ln_sc_lead_code_proc_Refuses(c, f) ==
    IF c.lead.mark = Seqs
    THEN IF SizesOk(c.lead) THEN [c EXCEPT !.lead.complete = TRUE] ELSE c
    ELSE IF f.good THEN TakeField(c, f) ELSE c

\* ln_sc_lead_code_proc: the lead code is judged when one more lead frame comes.
ln_sc_lead_code_proc(c, f) ==
    LET full == c.lead.mark = Seqs
        kept == IF full THEN [c EXCEPT !.lead.mark = @ \ {SSIDPWD_SIZE, PWD_SIZE}] ELSE c
    IN  IF full /\ SizesOk(c.lead) THEN [c EXCEPT !.lead.complete = TRUE]
        ELSE IF f.good THEN TakeField(kept, f)
        ELSE kept

\* uint8_t data_index = packet_num - 5
DataIndex(f) == (256 + f.n - First) % 256

\* Fault: the index is not limited.
ln_sc_is_packet_valid_NoRange(c, i) == i \notin c.marks

\* ln_sc_is_packet_valid: bit Over of pkt_mark is bit 7 of the pointer result.ssid.
ln_sc_is_packet_valid(c, i) ==
    2 * i <= 2 * HalfWords /\ i \notin c.marks /\ ~(i = Over /\ SsidBit)

\* ln_sc_push_data: half word Over of recvbuff is channel and ssidpwd_len.
ln_sc_push_data(c, f) ==
    LET i == DataIndex(f)
    IN  IF ~ln_sc_is_packet_valid(c, i) THEN c
        ELSE [c EXCEPT !.marks = @ \cup {i},
                       !.count = @ + 1,
                       !.lead.total = IF i = Over THEN f.hi ELSE @,
                       !.buf = [j \in Index |-> IF j = i THEN f.from ELSE @[j]]]

\* The bytes of recvbuff that ln_sc_decode takes for the password, for the SSID and
\* for the checksums are those of session s.
PwdIs(c, s) == c.lead.pwd = Pwd[s] /\ \A b \in 0 .. Pwd[s] - 1 : c.buf[b \div 2] = s
SsidIs(c, s) == /\ c.lead.pwd = Pwd[s] /\ c.lead.total = Total[s]
                /\ \A b \in Pwd[s] .. Total[s] - 1 : c.buf[b \div 2] = s
CrcIs(c, s) == Expect(c.lead.total) = Expect(Total[s]) /\ c.buf[Expect(Total[s]) - 1] = s

\* ln_sc_decode compares both checksums (idealised).
Decodes(c) == \E s \in Sessions : CrcIs(c, s) /\ PwdIs(c, s) /\ SsidIs(c, s)

\* Fault: the marks survive a decoding that fails.
Again_KeepsMarks(c) == [c EXCEPT !.count = 0, !.buf = Empty]

\* After a decoding that fails, the data is received once more.
Again(c) == [c EXCEPT !.count = 0, !.marks = {}, !.buf = Empty]

\* What the last half word of a run leads to; Over in marks moved result.ssid.
Decode(c) ==
    /\ sc' = IF Decodes(c) THEN [c EXCEPT !.buf = Empty, !.state = COMPLETE] ELSE Again(c)
    /\ result' = IF Decodes(c)
                 THEN [ssid |-> {s \in Sessions : Over \notin c.marks /\ SsidIs(c, s)},
                       pwd |-> {s \in Sessions : PwdIs(c, s)},
                       random |-> c.lead.random]
                 ELSE [NoResult EXCEPT !.random = result.random]

-----------------------------------------------------------------------------
(* The Wi-Fi task                                                            *)

\* The radio receives a frame of the phone, on its channel.
Hear(f) == /\ sniffer /\ cb = "idle" /\ chan = Home
           /\ rx' = f
           /\ cb' = "recv"
           /\ UNCHANGED <<sc, result, chan, timer, sniffer, app, strays>>

\* It receives one of another sender.
HearStray(f) == /\ sniffer /\ cb = "idle" /\ strays < MaxStray
                /\ strays' = strays + 1
                /\ rx' = f
                /\ cb' = "recv"
                /\ UNCHANGED <<sc, result, chan, timer, sniffer, app>>

\* ln_sc_sniffer_callback returns early without a session or when the result is there.
Listening == sc.mem # "null" /\ sc.state # COMPLETE

\* The callback has nothing to do with the frame: that, or lead frames are repeated, or
\* data comes before the lead code.
Ignore == /\ cb = "recv"
          /\ Listening => (rx.n \in Seqs) = sc.lead.complete
          /\ rx' = Nil /\ cb' = "idle"
          /\ UNCHANGED <<sc, result, chan, timer, sniffer, app, strays>>

\* A lead frame, with LOCKED_CHAN set once the lead code is complete
RecvLead ==
    /\ cb = "recv" /\ Listening /\ rx.n \in Seqs /\ ~sc.lead.complete
    /\ LET c == ln_sc_lead_code_proc(sc, rx)
       IN  /\ sc' = IF c.lead.complete THEN [c EXCEPT !.state = LOCKED_CHAN] ELSE c
           /\ cb' = IF c.lead.complete THEN "stop" ELSE "idle"
    /\ rx' = Nil
    /\ UNCHANGED <<result, chan, timer, sniffer, app, strays>>

\* A data frame; a packet number out of range skips ln_sc_push_data.
RecvData ==
    /\ cb = "recv" /\ Listening /\ rx.n \notin Seqs /\ sc.lead.complete
    /\ LET c == IF rx.n <= PACKET_NUM_MAX THEN ln_sc_push_data(sc, rx) ELSE sc
       IN  IF c.count = c.expect THEN Decode(c) ELSE sc' = c /\ UNCHANGED result
    /\ rx' = Nil /\ cb' = "idle"
    /\ UNCHANGED <<chan, timer, sniffer, app, strays>>

\* Fault: the hop timer goes on.
HopStop_Skipped == /\ cb = "stop"
                   /\ sc' = [sc EXCEPT !.hopping = FALSE]
                   /\ cb' = "idle"
                   /\ UNCHANGED <<result, chan, timer, sniffer, rx, app, strays>>

\* The callback ends with ln_sc_wifi_channel_hop_stop when it has locked the channel.
HopStop == /\ cb = "stop"
           /\ timer' = FALSE
           /\ sc' = [sc EXCEPT !.hopping = FALSE]
           /\ cb' = "idle"
           /\ UNCHANGED <<result, chan, sniffer, rx, app, strays>>

-----------------------------------------------------------------------------
(* The timer task: ln_sc_wifi_channel_hopping                                *)

Hop == /\ timer
       /\ chan' = (chan + 1) % NumChan
       /\ UNCHANGED <<sc, result, timer, sniffer, rx, cb, app, strays>>

-----------------------------------------------------------------------------
(* The application                                                           *)

\* ln_smartconfig_start up to the sniffer
Start == /\ app = "start"
         /\ sc' = Fresh /\ result' = [NoResult EXCEPT !.random = result.random]
         /\ timer' = TRUE
         /\ app' = "sniff"
         /\ UNCHANGED <<chan, sniffer, rx, cb, strays>>

\* No memory: the application reports it and waits for the result all the same.
StartFails == /\ app = "start"
              /\ app' = "poll"
              /\ UNCHANGED <<sc, result, chan, timer, sniffer, rx, cb, strays>>

Sniff == /\ app = "sniff"
         /\ sniffer' = TRUE
         /\ app' = "poll"
         /\ UNCHANGED <<sc, result, chan, timer, rx, cb, strays>>

\* ln_smartconfig_is_complete, and the first half of ln_smartconfig_stop
Poll == /\ app = "poll"
        /\ sc.mem = "live" /\ sc.state = COMPLETE
        /\ app' = "disable"
        /\ UNCHANGED <<sc, result, chan, timer, sniffer, rx, cb, strays>>

Disable == /\ app = "disable"
           /\ sniffer' = FALSE /\ rx' = Nil /\ cb' = "idle"
           /\ app' = "stop"
           /\ UNCHANGED <<sc, result, chan, timer, strays>>

\* The timer is stopped if it still hops, and *sc_ctl is freed (the pointer stays).
Stop == /\ app = "stop"
        /\ timer' = (timer /\ ~sc.hopping)
        /\ sc' = [sc EXCEPT !.mem = "freed"]
        /\ app' = "connect"
        /\ UNCHANGED <<result, chan, sniffer, rx, cb, strays>>

\* The link comes up with the SSID and the password, and the random byte is sent back.
Ack == /\ app = "connect"
       /\ app' = "done"
       /\ UNCHANGED <<sc, result, chan, timer, sniffer, rx, cb, strays>>

-----------------------------------------------------------------------------
WifiTask == Ignore \/ RecvLead \/ RecvData \/ HopStop
App == Start \/ StartFails \/ Sniff \/ Poll \/ Disable \/ Stop \/ Ack

Next == \/ \E f \in FramesOf(Phone) : Hear(f)
        \/ \E f \in Strays : HearStray(f)
        \/ WifiTask \/ Hop \/ App

Spec == Init /\ [][Next]_vars

\* The tasks run; the timer expires; the phone repeats each of its frames, and a
\* frame that could be received time and again is received in the end.
FairSpec == /\ Spec
            /\ WF_vars(WifiTask) /\ WF_vars(Hop) /\ WF_vars(App)
            /\ \A f \in FramesOf(Phone) : SF_vars(Hear(f))

-----------------------------------------------------------------------------
AllFrames == Strays \cup FramesOf(Phone)
Origin == Sessions \cup {Noise, Nil}

Lead == [total : Nat, pwd : Nat, random : Origin, mark : SUBSET Seqs, complete : BOOLEAN]
Control == [mem : {"null", "live", "freed"}, state : {IDLE, SEARCH_CHAN, LOCKED_CHAN, COMPLETE},
            hopping : BOOLEAN, lead : Lead, expect : Nat, count : Nat,
            marks : SUBSET (0 .. Over), buf : [Index -> Origin]]

\* The values the variables range over.  A mark is the index of a half word of recvbuff,
\* or Over, the one behind them, which the range check of ln_sc_is_packet_valid lets
\* pass, so that the code writes beyond pkt_mark and recvbuff; none is larger.
TypeOK ==
    /\ sc \in Control
    /\ result \in [ssid : SUBSET Sessions, pwd : SUBSET Sessions, random : Origin]
    /\ chan \in 0 .. NumChan - 1 /\ timer \in BOOLEAN /\ sniffer \in BOOLEAN
    /\ rx \in AllFrames \cup {Nil} /\ cb \in {"idle", "recv", "stop"}
    /\ cb = "recv" => rx \in AllFrames
    /\ app \in {"start", "sniff", "poll", "disable", "stop", "connect", "done"}
    /\ strays \in 0 .. MaxStray

\* Once the callback has returned with the lead code complete, the radio stays on its
\* channel: no expiry of the hop timer is left over, and no later frame, failed decoding
\* or step of the application starts the timer again.  Only before the callback has
\* called ln_sc_wifi_channel_hop_stop can the timer still take the device off the channel
\* on which it heard the lead code.
StaysTuned == [][sc.lead.complete /\ cb # "stop" => chan' = chan]_vars

\* Between two frames pkt_count is the number of the marked half words, a half word is
\* in the buffer if and only if it is marked, and the count has not reached the total:
\* it can never step past the value at which the data is decoded.
MarksCounted ==
    sc.lead.complete /\ sc.state # COMPLETE =>
        /\ sc.count = Cardinality(sc.marks)
        /\ sc.marks \cap Index = {i \in Index : sc.buf[i] # Nil}
        /\ sc.count < sc.expect

\* The hop timer's argument points into *sc_ctl: once that is freed, and before it
\* is allocated, the timer does not run.
TimerSafe == timer => sc.mem = "live"

\* The channel that the lead code locked is the phone's, and so are the sizes.
OnTrack == /\ chan = Home
           /\ sc.lead.total = Total[Phone] /\ sc.lead.pwd = Pwd[Phone]

\* When memory was there for the session, and as long as no stray lead frame, late hop
\* or overwritten size got it off the track when the channel was locked, the phone's
\* repetitions end in a connection: stray data only costs another round.
Converges == []( /\ app # "start" => sc.mem # "null"
                 /\ sc.lead.complete => OnTrack )
             => <>(app = "done" /\ Phone \in result.ssid \cap result.pwd)

=============================================================================
