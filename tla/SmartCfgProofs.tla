--------------------------- MODULE SmartCfgProofs ---------------------------
(* Proofs about SmartCfg, for any sessions, sizes, buffer and channels: what *)
(* the callback keeps true of the buffer it collects, that the radio stays   *)
(* where the lead code was completed, and that the hop timer never outlives  *)
(* *sc_ctl.                                                                  *)
EXTENDS SmartCfg, FiniteSetTheorems, TLAPS

\* Nothing is collected before the lead code is complete.
BeforeLead == ~sc.lead.complete => /\ sc.count = 0 /\ sc.marks = {} /\ sc.buf = Empty
                                   /\ sc.state \in {IDLE, SEARCH_CHAN}

\* The size has come with a number of half words that is not zero.
ExpectSome == SSIDPWD_SIZE \in sc.lead.mark \/ sc.lead.complete => sc.expect >= 1

\* The flag that ln_smartconfig_stop goes by is set while the timer runs.
TimerKnown == timer => sc.mem = "live" /\ sc.hopping

\* With the lead code complete, the timer runs only until the callback has stopped it, and
\* what could cut the callback short (the application's end of the session, or a new
\* start) does not come before.
Tuned == /\ sc.lead.complete /\ timer => cb = "stop"
         /\ cb = "stop" => sc.state = LOCKED_CHAN
         /\ app = "disable" => sc.state = COMPLETE
         /\ app = "start" => sc.mem = "null" /\ cb # "stop"

\* What one step needs to know of the step before
Inv == TypeOK /\ BeforeLead /\ ExpectSome /\ MarksCounted /\ TimerKnown /\ Tuned

-----------------------------------------------------------------------------
\* Every frame has a packet number and a high byte; a lead frame with a right
\* checksum, as far as ln_sc_lead_code_proc hears one, is a session's.
LEMMA FrameFacts ==
    ASSUME NEW f \in AllFrames
    PROVE  /\ f.n \in 0 .. 255 /\ f.hi \in Nat /\ f.from \in Origin /\ f.from # Nil
           /\ f.good \in BOOLEAN
           /\ f.good => f.from \in Sessions
<1>1. CASE \E s \in Sessions : f \in FramesOf(s)
  <2>1. PICK s \in Sessions : f \in FramesOf(s)
    BY <1>1
  <2>2. PICK n \in Seqs \cup First .. First + Expect(Total[s]) - 1 : f = Frame(n, s, TRUE, 0)
    BY <2>1 DEF FramesOf
  <2>3. Expect(Total[s]) \in 1 .. HalfWords - 1 /\ HalfWords \in 1 .. 64
    BY SmartCfgAssumption
  <2>4. n \in 0 .. 255
    BY <2>2, <2>3 DEF Seqs, First
  <2> QED
    BY <2>2, <2>4, SmartCfgAssumption DEF Frame, Origin
<1>2. CASE f \in LooksLike
  <2>0. HalfWords \in 1 .. 64
    BY SmartCfgAssumption
  <2>1. Sizes \cup {0} \subseteq Nat
    BY SmartCfgAssumption DEF Sizes
  <2>2. CASE \E n \in {0, PACKET_NUM_MAX + 1} \cup Seqs \cup First .. First + Over - 1 :
                 f = Frame(n, Noise, FALSE, 0)
    <3>1. PICK n \in {0, PACKET_NUM_MAX + 1} \cup Seqs \cup First .. First + Over - 1 :
                 f = Frame(n, Noise, FALSE, 0)
      BY <2>2
    <3>2. n \in 0 .. 255
      BY <3>1, <2>0 DEF Seqs, First, Over, PACKET_NUM_MAX
    <3> QED
      BY <3>1, <3>2, SmartCfgAssumption DEF Frame, Origin
  <2>3. CASE \E h \in Sizes \cup {0} : f = Frame(First + Over, Noise, FALSE, h)
    <3>1. PICK h \in Sizes \cup {0} : f = Frame(First + Over, Noise, FALSE, h)
      BY <2>3
    <3>2. First + Over \in 0 .. 255 /\ h \in Nat
      BY <2>0, <2>1, <3>1 DEF First, Over
    <3> QED
      BY <3>1, <3>2, SmartCfgAssumption DEF Frame, Origin
  <2> QED
    BY <1>2, <2>2, <2>3 DEF LooksLike
<1> QED
  BY <1>1, <1>2, SmartCfgAssumption DEF AllFrames, Strays

\* What a lead frame leaves of *sc_ctl: nothing but the lead code and the number of
\* half words changes, and that is not zero once the size has come.
LEMMA LeadFacts ==
    ASSUME NEW c \in Control, NEW f \in AllFrames, f.n \in Seqs,
           SSIDPWD_SIZE \in c.lead.mark => c.expect >= 1
    PROVE  LET d == ln_sc_lead_code_proc(c, f)
           IN  /\ d \in Control
               /\ d.mem = c.mem /\ d.state = c.state /\ d.hopping = c.hopping
               /\ d.count = c.count /\ d.marks = c.marks /\ d.buf = c.buf
               /\ SSIDPWD_SIZE \in d.lead.mark \/ (d.lead.complete /\ ~c.lead.complete) => d.expect >= 1
<1> DEFINE full == c.lead.mark = Seqs
           kept == IF full THEN [c EXCEPT !.lead.mark = @ \ {SSIDPWD_SIZE, PWD_SIZE}] ELSE c
           took == TakeField(kept, f)
<1>1. f.good => f.from \in Sessions /\ f.from \in Origin
  BY FrameFacts
<1>2. \A s \in Sessions : Total[s] \in Nat /\ Pwd[s] \in Nat /\ Expect(Total[s]) \in Nat
                          /\ Expect(Total[s]) >= 1
  BY SmartCfgAssumption
<1>3. /\ kept \in Control
      /\ kept.mem = c.mem /\ kept.state = c.state /\ kept.hopping = c.hopping
      /\ kept.count = c.count /\ kept.marks = c.marks /\ kept.buf = c.buf
      /\ kept.expect = c.expect /\ kept.lead.complete = c.lead.complete
      /\ kept.lead.mark \subseteq c.lead.mark
  BY DEF Control, Lead
<1>4. ASSUME f.good
      PROVE  /\ took \in Control
             /\ took.mem = c.mem /\ took.state = c.state /\ took.hopping = c.hopping
             /\ took.count = c.count /\ took.marks = c.marks /\ took.buf = c.buf
             /\ took.lead.complete = c.lead.complete
             /\ SSIDPWD_SIZE \in took.lead.mark => took.expect >= 1
  <2> DEFINE l == Field(kept.lead, f)
  <2> HIDE DEF kept
  <2>1. kept.lead \in Lead /\ f.from \in Sessions /\ f.from \in Origin
    BY <1>1, <1>3, <1>4 DEF Control
  <2>2. /\ l \in Lead /\ l.complete = kept.lead.complete
        /\ SSIDPWD_SIZE \in l.mark => SSIDPWD_SIZE \in kept.lead.mark \/ f.n = SSIDPWD_SIZE
    BY <1>2, <2>1 DEF Field, Lead
  <2> HIDE DEF l
  <2>3. took = [kept EXCEPT !.lead = l,
                   !.expect = IF f.n = SSIDPWD_SIZE THEN Expect(Total[f.from]) ELSE @]
    BY DEF TakeField, l
  <2>4. took.expect = IF f.n = SSIDPWD_SIZE THEN Expect(Total[f.from]) ELSE kept.expect
    BY <1>3, <2>3 DEF Control
  <2>5. took \in Control /\ took.lead = l
    BY <1>2, <1>3, <2>1, <2>2, <2>3 DEF Control
  <2>6. /\ took.mem = kept.mem /\ took.state = kept.state /\ took.hopping = kept.hopping
        /\ took.count = kept.count /\ took.marks = kept.marks /\ took.buf = kept.buf
    BY <1>3, <2>3 DEF Control
  <2> HIDE DEF took
  <2>7. SSIDPWD_SIZE \in took.lead.mark => took.expect >= 1
    BY <1>2, <1>3, <2>1, <2>2, <2>4, <2>5
  <2> QED
    BY <1>3, <2>2, <2>5, <2>6, <2>7
<1>5. ln_sc_lead_code_proc(c, f) =
          IF full /\ SizesOk(c.lead) THEN [c EXCEPT !.lead.complete = TRUE]
          ELSE IF f.good THEN took ELSE kept
  BY DEF ln_sc_lead_code_proc
<1>6. CASE full /\ SizesOk(c.lead)
  <2>1. c.expect >= 1
    BY <1>6 DEF Seqs, SSIDPWD_SIZE
  <2> DEFINE l == [c.lead EXCEPT !.complete = TRUE]
             d == [c EXCEPT !.lead = l]
  <2>2. l \in Lead /\ l.mark = c.lead.mark
    BY DEF Control, Lead
  <2>3. ln_sc_lead_code_proc(c, f) = d
    BY <1>5, <1>6
  <2> HIDE DEF l
  <2>4. /\ d \in Control /\ d.expect = c.expect
        /\ d.mem = c.mem /\ d.state = c.state /\ d.hopping = c.hopping
        /\ d.count = c.count /\ d.marks = c.marks /\ d.buf = c.buf
    BY <2>2 DEF Control
  <2> HIDE DEF d
  <2> QED
    BY <2>1, <2>3, <2>4
<1>7. CASE ~(full /\ SizesOk(c.lead)) /\ f.good
  <2> HIDE DEF kept, took, full
  <2> QED
    BY <1>4, <1>5, <1>7
<1>8. CASE ~(full /\ SizesOk(c.lead)) /\ ~f.good
  <2> HIDE DEF kept, took, full
  <2> QED
    BY <1>3, <1>5, <1>8
<1> QED
  BY <1>6, <1>7, <1>8

\* What a data frame leaves: one more mark, one more in the count and the half word in
\* the buffer, or nothing.
LEMMA PushFacts ==
    ASSUME NEW c \in Control, NEW f \in AllFrames,
           c.count = Cardinality(c.marks),
           c.marks \cap Index = {i \in Index : c.buf[i] # Nil}
    PROVE  LET d == ln_sc_push_data(c, f)
           IN  /\ d \in Control
               /\ d.mem = c.mem /\ d.state = c.state /\ d.hopping = c.hopping
               /\ d.expect = c.expect /\ d.lead.complete = c.lead.complete
               /\ d.lead.mark = c.lead.mark
               /\ d.count = Cardinality(d.marks)
               /\ d.marks \cap Index = {i \in Index : d.buf[i] # Nil}
               /\ d.count \in {c.count, c.count + 1}
<1> DEFINE i == DataIndex(f)
           d == ln_sc_push_data(c, f)
<1>1. f.n \in 0 .. 255 /\ f.hi \in Nat /\ f.from \in Origin /\ f.from # Nil
  BY FrameFacts
<1>2. i \in Nat
  BY <1>1 DEF DataIndex, First
<1>3. CASE ~ln_sc_is_packet_valid(c, i)
  BY <1>3 DEF ln_sc_push_data, Control
<1>4. CASE ln_sc_is_packet_valid(c, i)
  <2>1. i \in 0 .. Over /\ i \notin c.marks
    BY <1>2, <1>4, SmartCfgAssumption DEF ln_sc_is_packet_valid, Over
  <2>2. d = [c EXCEPT !.marks = @ \cup {i},
                      !.count = @ + 1,
                      !.lead.total = IF i = Over THEN f.hi ELSE @,
                      !.buf = [j \in Index |-> IF j = i THEN f.from ELSE @[j]]]
    BY <1>4 DEF ln_sc_push_data
  <2>3. /\ d \in Control
        /\ d.mem = c.mem /\ d.state = c.state /\ d.hopping = c.hopping
        /\ d.expect = c.expect /\ d.lead.complete = c.lead.complete
        /\ d.lead.mark = c.lead.mark
        /\ d.marks = c.marks \cup {i} /\ d.count = c.count + 1
        /\ d.buf = [j \in Index |-> IF j = i THEN f.from ELSE c.buf[j]]
    <3> DEFINE l == [c.lead EXCEPT !.total = IF i = Over THEN f.hi ELSE @]
               b == [j \in Index |-> IF j = i THEN f.from ELSE c.buf[j]]
    <3> HIDE DEF i
    <3>1. l \in Lead /\ l.complete = c.lead.complete /\ l.mark = c.lead.mark
      BY <1>1 DEF Control, Lead
    <3>2. b \in [Index -> Origin]
      BY <1>1 DEF Control
    <3>3. d = [c EXCEPT !.marks = @ \cup {i}, !.count = @ + 1, !.lead = l, !.buf = b]
      BY <2>2
    <3> HIDE DEF l, b, d
    <3>4. /\ d.mem = c.mem /\ d.state = c.state /\ d.hopping = c.hopping
          /\ d.expect = c.expect /\ d.lead = l
          /\ d.marks = c.marks \cup {i} /\ d.count = c.count + 1 /\ d.buf = b
      BY <3>3 DEF Control
    <3>5. d \in Control
      <4> DEFINE k == c.marks \cup {i}
                 n == c.count + 1
      <4>1. k \in SUBSET (0 .. Over) /\ n \in Nat
        BY <2>1 DEF Control
      <4>2. d = [c EXCEPT !.marks = k, !.count = n, !.lead = l, !.buf = b]
        BY <3>3
      <4> HIDE DEF k, n
      <4> QED
        BY <3>1, <3>2, <4>1, <4>2 DEF Control
    <3> QED
      BY <3>1, <3>4, <3>5 DEF b
  <2>4. IsFiniteSet(c.marks)
    <3>1. 0 \in Int /\ Over \in Int
      BY SmartCfgAssumption DEF Over
    <3>2. IsFiniteSet(0 .. Over)
      BY <3>1, FS_Interval
    <3>3. c.marks \subseteq 0 .. Over
      BY DEF Control
    <3> QED
      BY <3>2, <3>3, FS_Subset
  <2>5. Cardinality(d.marks) = c.count + 1
    BY <2>1, <2>3, <2>4, FS_AddElement
  <2>6. d.marks \cap Index = {j \in Index : d.buf[j] # Nil}
    <3> HIDE DEF i, d
    <3> QED
      BY <1>1, <2>3
  <2> QED
    BY <2>3, <2>5, <2>6
<1> QED
  BY <1>3, <1>4

\* An empty buffer has no marks and no count.
LEMMA EmptyFacts == /\ Empty \in [Index -> Origin]
                    /\ {} \cap Index = {i \in Index : Empty[i] # Nil}
                    /\ Cardinality({}) = 0
  BY FS_EmptySet DEF Empty, Origin

\* The start of the program
LEMMA InitInv == Init => Inv
<1> SUFFICES ASSUME Init PROVE Inv
  OBVIOUS
<1>1. NoLead \in Lead /\ ~NoLead.complete /\ NoLead.mark = {}
  BY DEF NoLead, Lead, Origin
<1>2. /\ sc = [Fresh EXCEPT !.mem = "null", !.state = IDLE, !.hopping = FALSE]
      /\ result = NoResult /\ chan \in 0 .. NumChan - 1 /\ timer = FALSE /\ sniffer = FALSE
      /\ rx = Nil /\ cb = "idle" /\ app = "start" /\ strays = 0
  BY DEF Init
<1>3. /\ sc \in Control /\ sc.mem = "null" /\ sc.lead = NoLead /\ sc.count = 0
      /\ sc.marks = {} /\ sc.buf = Empty /\ sc.state = IDLE
  BY <1>1, <1>2, EmptyFacts DEF Fresh, Control
<1>4. TypeOK
  <2>1. result \in [ssid : SUBSET Sessions, pwd : SUBSET Sessions, random : Origin]
    BY <1>2 DEF NoResult, Origin
  <2>2. strays \in 0 .. MaxStray
    BY <1>2, SmartCfgAssumption
  <2> QED
    BY <1>2, <1>3, <2>1, <2>2 DEF TypeOK
<1>5. BeforeLead /\ ExpectSome /\ MarksCounted /\ TimerKnown /\ Tuned
  BY <1>1, <1>2, <1>3
  DEF BeforeLead, ExpectSome, MarksCounted, TimerKnown, Tuned, IDLE, COMPLETE
<1> QED
  BY <1>4, <1>5 DEF Inv

\* A step that leaves *sc_ctl and the timer alone keeps all but the types and Tuned.
LEMMA Aside ==
    ASSUME Inv, UNCHANGED <<sc, timer>>, TypeOK', Tuned'
    PROVE  Inv'
<1>1. BeforeLead' /\ ExpectSome' /\ MarksCounted' /\ TimerKnown'
  BY DEF Inv, BeforeLead, ExpectSome, MarksCounted, TimerKnown
<1> QED
  BY <1>1 DEF Inv

\* ln_sc_recv_frame_proc with a lead frame: what comes with the completion holds of an
\* empty buffer.
LEMMA RecvLeadInv == Inv /\ RecvLead => Inv'
<1> SUFFICES ASSUME Inv, RecvLead PROVE Inv'
  OBVIOUS
<1> DEFINE d == ln_sc_lead_code_proc(sc, rx)
<1>1. /\ sc \in Control /\ rx \in AllFrames /\ rx.n \in Seqs /\ ~sc.lead.complete
      /\ SSIDPWD_SIZE \in sc.lead.mark => sc.expect >= 1
  BY DEF Inv, TypeOK, RecvLead, ExpectSome
<1>2. /\ d \in Control
      /\ d.mem = sc.mem /\ d.state = sc.state /\ d.hopping = sc.hopping
      /\ d.count = sc.count /\ d.marks = sc.marks /\ d.buf = sc.buf
      /\ SSIDPWD_SIZE \in d.lead.mark \/ d.lead.complete => d.expect >= 1
  BY <1>1, LeadFacts
<1>3. /\ sc' = IF d.lead.complete THEN [d EXCEPT !.state = LOCKED_CHAN] ELSE d
      /\ cb' = IF d.lead.complete THEN "stop" ELSE "idle"
      /\ rx' = Nil
      /\ UNCHANGED <<result, chan, timer, sniffer, app, strays>>
  BY DEF RecvLead
<1> HIDE DEF d
<1>4. /\ sc' \in Control
      /\ sc'.mem = sc.mem /\ sc'.hopping = sc.hopping /\ sc'.lead = d.lead
      /\ sc'.expect = d.expect
      /\ sc'.count = sc.count /\ sc'.marks = sc.marks /\ sc'.buf = sc.buf
      /\ sc'.state = IF d.lead.complete THEN LOCKED_CHAN ELSE sc.state
  BY <1>2, <1>3 DEF Control
<1>5. /\ sc.count = 0 /\ sc.marks = {} /\ sc.buf = Empty /\ sc.state \in {IDLE, SEARCH_CHAN}
  BY <1>1 DEF Inv, BeforeLead
<1>6. TypeOK'
  BY <1>3, <1>4 DEF Inv, TypeOK
<1>7. BeforeLead' /\ ExpectSome'
  BY <1>2, <1>4, <1>5 DEF BeforeLead, ExpectSome
<1>8. MarksCounted'
  BY <1>2, <1>4, <1>5, EmptyFacts DEF MarksCounted, Control
<1>9. Tuned'
  <2>1. /\ app # "start" /\ cb = "recv" /\ sc.state # COMPLETE
        /\ app # "disable"
    BY DEF Inv, Tuned, RecvLead, Listening
  <2> QED
    BY <1>3, <1>4, <2>1 DEF Tuned
<1>10. TimerKnown'
  BY <1>3, <1>4 DEF Inv, TimerKnown
<1> QED
  BY <1>6, <1>7, <1>8, <1>9, <1>10 DEF Inv

\* ln_sc_recv_frame_proc with a data frame, by the outcome: more to come, decoded, failed
LEMMA RecvDataInv == Inv /\ RecvData => Inv'
<1> SUFFICES ASSUME Inv, RecvData PROVE Inv'
  OBVIOUS
<1> DEFINE c == IF rx.n <= PACKET_NUM_MAX THEN ln_sc_push_data(sc, rx) ELSE sc
<1>1. /\ sc \in Control /\ rx \in AllFrames /\ sc.lead.complete /\ sc.state # COMPLETE
      /\ sc.count = Cardinality(sc.marks)
      /\ sc.marks \cap Index = {i \in Index : sc.buf[i] # Nil}
      /\ sc.count < sc.expect /\ sc.expect >= 1
  BY DEF Inv, TypeOK, RecvData, Listening, MarksCounted, ExpectSome
<1>2. /\ c \in Control
      /\ c.mem = sc.mem /\ c.state = sc.state /\ c.hopping = sc.hopping
      /\ c.expect = sc.expect /\ c.lead.complete /\ c.lead.mark = sc.lead.mark
      /\ c.count = Cardinality(c.marks)
      /\ c.marks \cap Index = {i \in Index : c.buf[i] # Nil}
      /\ c.count \in {sc.count, sc.count + 1}
  BY <1>1, PushFacts
<1>3. /\ IF c.count = c.expect THEN Decode(c) ELSE sc' = c /\ UNCHANGED result
      /\ rx' = Nil /\ cb' = "idle"
      /\ UNCHANGED <<chan, timer, sniffer, app, strays>>
  BY DEF RecvData
<1> HIDE DEF c
<1>a. ~timer /\ app # "disable" /\ app # "start"
  BY <1>1 DEF Inv, Tuned, RecvData, Listening
<1>4. CASE c.count # c.expect
  <2>1. sc' = c /\ UNCHANGED result
    BY <1>3, <1>4
  <2>2. TypeOK'
    BY <1>2, <1>3, <2>1 DEF Inv, TypeOK
  <2>3. c.count < c.expect
    BY <1>1, <1>2, <1>4 DEF Control
  <2>4. BeforeLead' /\ ExpectSome' /\ MarksCounted' /\ TimerKnown' /\ Tuned'
    BY <1>1, <1>2, <1>3, <1>a, <2>1, <2>3
    DEF Inv, BeforeLead, ExpectSome, MarksCounted, TimerKnown, Tuned
  <2> QED
    BY <2>2, <2>4 DEF Inv
<1>5. CASE c.count = c.expect /\ Decodes(c)
  <2>1. /\ sc' = [c EXCEPT !.buf = Empty, !.state = COMPLETE]
        /\ result' = [ssid |-> {s \in Sessions : Over \notin c.marks /\ SsidIs(c, s)},
                      pwd |-> {s \in Sessions : PwdIs(c, s)}, random |-> c.lead.random]
    BY <1>3, <1>5 DEF Decode
  <2>2. /\ sc' \in Control /\ sc'.state = COMPLETE /\ sc'.mem = c.mem /\ sc'.hopping = c.hopping
        /\ sc'.lead = c.lead /\ sc'.expect = c.expect /\ sc'.marks = c.marks
    BY <1>2, <2>1, EmptyFacts DEF Control
  <2>3. TypeOK'
    BY <1>2, <1>3, <2>1, <2>2 DEF Inv, TypeOK, Control, Lead
  <2>4. BeforeLead' /\ ExpectSome' /\ MarksCounted' /\ TimerKnown'
    BY <1>1, <1>2, <1>3, <2>2 DEF Inv, BeforeLead, ExpectSome, MarksCounted, TimerKnown
  <2>5. Tuned'
    BY <1>3, <1>a DEF Tuned
  <2> QED
    BY <2>3, <2>4, <2>5 DEF Inv
<1>6. CASE c.count = c.expect /\ ~Decodes(c)
  <2>1. /\ sc' = [c EXCEPT !.count = 0, !.marks = {}, !.buf = Empty]
        /\ result' = [NoResult EXCEPT !.random = result.random]
    BY <1>3, <1>6 DEF Decode, Again
  <2>2. /\ sc' \in Control /\ sc'.state = c.state /\ sc'.mem = c.mem /\ sc'.hopping = c.hopping
        /\ sc'.lead = c.lead /\ sc'.expect = c.expect
        /\ sc'.marks = {} /\ sc'.count = 0 /\ sc'.buf = Empty
    BY <1>2, <2>1, EmptyFacts DEF Control
  <2>3. result' \in [ssid : SUBSET Sessions, pwd : SUBSET Sessions, random : Origin]
    BY <2>1 DEF Inv, TypeOK, NoResult
  <2>4. TypeOK'
    BY <1>3, <2>2, <2>3 DEF Inv, TypeOK
  <2>5. MarksCounted'
    BY <1>1, <1>2, <2>2, EmptyFacts DEF MarksCounted, Control
  <2>6. BeforeLead' /\ ExpectSome' /\ TimerKnown' /\ Tuned'
    BY <1>1, <1>2, <1>3, <1>a, <2>2 DEF Inv, BeforeLead, ExpectSome, TimerKnown, Tuned
  <2> QED
    BY <2>4, <2>5, <2>6 DEF Inv
<1> QED
  BY <1>4, <1>5, <1>6

\* Every step keeps the invariant; the two receptions have lemmas of their own.
LEMMA StepInv == Inv /\ [Next]_vars => Inv'
<1> SUFFICES ASSUME Inv, [Next]_vars PROVE Inv'
  OBVIOUS
<1> USE DEF Inv
<1>1. ASSUME NEW f \in FramesOf(Phone), Hear(f) PROVE Inv'
  <2>1. f \in AllFrames
    BY DEF AllFrames
  <2>2. TypeOK' /\ Tuned' /\ UNCHANGED <<sc, timer>>
    BY <1>1, <2>1 DEF Hear, TypeOK, Tuned
  <2> QED
    BY <2>2, Aside
<1>2. ASSUME NEW f \in Strays, HearStray(f) PROVE Inv'
  <2>1. f \in AllFrames
    BY DEF AllFrames
  <2>2. strays + 1 \in 0 .. MaxStray
    BY <1>2, SmartCfgAssumption DEF HearStray, TypeOK
  <2>3. TypeOK' /\ Tuned' /\ UNCHANGED <<sc, timer>>
    BY <1>2, <2>1, <2>2 DEF HearStray, TypeOK, Tuned
  <2> QED
    BY <2>3, Aside
<1>3. ASSUME Ignore PROVE Inv'
  <2>1. TypeOK' /\ Tuned' /\ UNCHANGED <<sc, timer>>
    BY <1>3 DEF Ignore, TypeOK, Tuned
  <2> QED
    BY <2>1, Aside
<1>4. ASSUME HopStop PROVE Inv'
  <2>1. /\ sc' = [sc EXCEPT !.hopping = FALSE] /\ timer' = FALSE /\ cb' = "idle"
        /\ UNCHANGED <<result, chan, sniffer, rx, app, strays>>
    BY <1>4 DEF HopStop
  <2>2. /\ sc' \in Control /\ sc'.state = sc.state /\ sc'.lead = sc.lead /\ sc'.expect = sc.expect
        /\ sc'.count = sc.count /\ sc'.marks = sc.marks /\ sc'.buf = sc.buf
    BY <2>1 DEF TypeOK, Control
  <2>3. TypeOK'
    BY <2>1, <2>2 DEF TypeOK
  <2>4. BeforeLead' /\ ExpectSome' /\ MarksCounted' /\ TimerKnown' /\ Tuned'
    BY <2>1, <2>2 DEF BeforeLead, ExpectSome, MarksCounted, TimerKnown, Tuned
  <2> QED
    BY <2>3, <2>4
<1>5. ASSUME Hop PROVE Inv'
  <2>1. (chan + 1) % NumChan \in 0 .. NumChan - 1
    BY SmartCfgAssumption DEF TypeOK
  <2>2. TypeOK' /\ Tuned' /\ UNCHANGED <<sc, timer>>
    BY <1>5, <2>1 DEF Hop, TypeOK, Tuned
  <2> QED
    BY <2>2, Aside
<1>6. ASSUME Start PROVE Inv'
  <2>1. /\ sc' = Fresh /\ result' = [NoResult EXCEPT !.random = result.random]
        /\ timer' = TRUE /\ app' = "sniff"
        /\ UNCHANGED <<chan, sniffer, rx, cb, strays>>
    BY <1>6 DEF Start
  <2>2. NoLead \in Lead /\ ~NoLead.complete /\ NoLead.mark = {}
    BY DEF NoLead, Lead, Origin
  <2>3. /\ Fresh \in Control /\ Fresh.mem = "live" /\ Fresh.hopping /\ Fresh.lead = NoLead
        /\ Fresh.count = 0 /\ Fresh.marks = {} /\ Fresh.buf = Empty /\ Fresh.state = SEARCH_CHAN
    BY <2>2, EmptyFacts DEF Fresh, Control
  <2>4. result' \in [ssid : SUBSET Sessions, pwd : SUBSET Sessions, random : Origin]
    BY <2>1 DEF TypeOK, NoResult
  <2>5. TypeOK'
    BY <2>1, <2>3, <2>4 DEF TypeOK
  <2>6. BeforeLead' /\ ExpectSome' /\ MarksCounted' /\ TimerKnown'
    BY <2>1, <2>2, <2>3
    DEF BeforeLead, ExpectSome, MarksCounted, TimerKnown, SEARCH_CHAN, COMPLETE
  <2>7. cb # "stop"
    BY <1>6 DEF Start, Tuned
  <2>8. Tuned'
    BY <2>1, <2>2, <2>3, <2>7 DEF Tuned
  <2> QED
    BY <2>5, <2>6, <2>8
<1>7. ASSUME StartFails \/ Sniff \/ Poll \/ Disable \/ Ack PROVE Inv'
  <2>1. TypeOK' /\ UNCHANGED <<sc, timer>>
    BY <1>7 DEF StartFails, Sniff, Poll, Disable, Ack, TypeOK
  <2>2. ASSUME StartFails \/ Sniff \/ Poll \/ Ack PROVE Tuned'
    BY <2>2 DEF StartFails, Sniff, Poll, Ack, Tuned
  <2>3. ASSUME Disable PROVE Tuned'
    <3>1. sc.state = COMPLETE /\ cb' = "idle" /\ app' = "stop" /\ UNCHANGED <<sc, timer>>
      BY <2>3 DEF Disable, Tuned
    <3>2. ~(sc.lead.complete /\ timer)
      BY <3>1 DEF Tuned, COMPLETE, LOCKED_CHAN
    <3> QED
      BY <3>1, <3>2 DEF Tuned
  <2> QED
    BY <1>7, <2>1, <2>2, <2>3, Aside
<1>8. ASSUME Stop PROVE Inv'
  <2>1. /\ sc' = [sc EXCEPT !.mem = "freed"] /\ timer' = (timer /\ ~sc.hopping)
        /\ app' = "connect" /\ UNCHANGED <<result, chan, sniffer, rx, cb, strays>>
    BY <1>8 DEF Stop
  <2>2. ~timer'
    BY <2>1 DEF TimerKnown
  <2>3. timer' \in BOOLEAN
    BY <2>1
  <2>4. /\ sc' \in Control /\ sc'.state = sc.state /\ sc'.lead = sc.lead /\ sc'.expect = sc.expect
        /\ sc'.count = sc.count /\ sc'.marks = sc.marks /\ sc'.buf = sc.buf
    BY <2>1 DEF TypeOK, Control
  <2>5. TypeOK'
    BY <2>1, <2>3, <2>4 DEF TypeOK
  <2>6. BeforeLead' /\ ExpectSome' /\ MarksCounted'
    BY <2>1, <2>4 DEF BeforeLead, ExpectSome, MarksCounted
  <2>7. TimerKnown' /\ Tuned'
    BY <2>1, <2>2, <2>4 DEF TimerKnown, Tuned
  <2> QED
    BY <2>5, <2>6, <2>7
<1>9. ASSUME UNCHANGED vars PROVE Inv'
  <2>1. TypeOK' /\ Tuned' /\ UNCHANGED <<sc, timer>>
    BY <1>9 DEF vars, TypeOK, Tuned
  <2> QED
    BY <2>1, Aside
<1> QED
  BY <1>1, <1>2, <1>3, <1>4, <1>5, <1>6, <1>7, <1>8, <1>9, RecvLeadInv, RecvDataInv
  DEF Next, WifiTask, App

\* All that the callback, the timer and the application keep true together
THEOREM Invariance == Spec => []Inv
  BY InitInv, StepInv, PTL DEF Spec

\* The types hold: no index that ln_sc_is_packet_valid lets pass is larger than Over, the
\* one behind recvbuff, so that the write beyond the buffer is of one half word.
THEOREM Types == Spec => []TypeOK
<1>1. Inv => TypeOK
  BY DEF Inv
<1> QED
  BY <1>1, Invariance, PTL

\* The count, the marks and the buffer of ln_sc_push_data agree after every frame and
\* every decoding that fails, and the count cannot step past the total.
THEOREM Marks == Spec => []MarksCounted
<1>1. Inv => MarksCounted
  BY DEF Inv
<1> QED
  BY <1>1, Invariance, PTL

\* After the callback that has completed the lead code has returned, the radio stays on
\* its channel, for any channels and frames, and whenever the timer expires.
THEOREM Channel == Spec => StaysTuned
<1>1. Inv /\ [Next]_vars => [sc.lead.complete /\ cb # "stop" => chan' = chan]_vars
  <2> SUFFICES ASSUME Inv, Next, sc.lead.complete, cb # "stop" PROVE chan' = chan
    OBVIOUS
  <2>1. ~timer
    BY DEF Inv, Tuned
  <2>2. CASE (\E f \in FramesOf(Phone) : Hear(f)) \/ (\E f \in Strays : HearStray(f))
    BY <2>2 DEF Hear, HearStray
  <2>3. CASE WifiTask
    BY <2>3 DEF WifiTask, Ignore, RecvLead, RecvData, HopStop
  <2>4. CASE Hop
    BY <2>1, <2>4 DEF Hop
  <2>5. CASE App
    BY <2>5 DEF App, Start, StartFails, Sniff, Poll, Disable, Stop, Ack
  <2> QED
    BY <2>2, <2>3, <2>4, <2>5 DEF Next
<1> QED
  BY <1>1, Invariance, PTL DEF Spec, StaysTuned

\* The timer of ln_sc_wifi_channel_hop_start never runs on freed memory.
THEOREM HopTimer == Spec => []TimerSafe
<1>1. Inv => TimerSafe
  BY DEF Inv, TimerKnown, TimerSafe
<1> QED
  BY <1>1, Invariance, PTL

=============================================================================
