--------------------------- MODULE ConsoleProofs ----------------------------
(* Proofs about Fifo, Serial and Console, for rings of any size and, in      *)
(* Serial, any number of tasks: what push and pop do to the queue that a     *)
(* ring stands for, that no byte is left behind in the transmit ring and     *)
(* none is lost or doubled on its way, that the console task never reads an  *)
(* empty ring, that the line which the AT task works on is not touched, and  *)
(* that the lines executed are exactly the bytes received.                   *)
EXTENDS Console, FiniteSetTheorems, TLAPS

-----------------------------------------------------------------------------
(* The ring                                                                  *)

\* A ring stays a ring, push moves the tail only and pop the head only.
LEMMA RingFacts ==
    ASSUME NEW size \in Nat, size > 1, NEW B, NEW f \in Ring(size, B), NEW c \in B
    PROVE  /\ fifo_push(f, c) \in Ring(size, B) /\ fifo_push(f, c).head = f.head
           /\ ~fifo_isfull(f) => fifo_push(f, c).tail = After(f, f.tail)
           /\ ~fifo_isempty(fifo_push(f, c))
           /\ fifo_pop(f) \in Ring(size, B) /\ fifo_pop(f).tail = f.tail
           /\ fifo_flush(f) \in Ring(size, B) /\ ~fifo_isfull(fifo_flush(f))
           /\ f.buf[f.head] \in B
<1>1. /\ f.buf \in [0 .. size - 1 -> B] /\ f.head \in 0 .. size - 1
      /\ f.tail \in 0 .. size - 1 /\ f.end = size - 1
  BY DEF Ring
<1>2. \A p \in 0 .. size - 1 : After(f, p) \in 0 .. size - 1
  BY <1>1 DEF After
<1>3. fifo_pop(f) \in Ring(size, B) /\ fifo_pop(f).tail = f.tail
  BY <1>1, <1>2 DEF Ring, fifo_pop
<1>4. fifo_flush(f) \in Ring(size, B) /\ ~fifo_isfull(fifo_flush(f))
  <2> DEFINE g == [f EXCEPT !.head = 0, !.tail = 0]
  <2>0. 0 \in 0 .. size - 1
    OBVIOUS
  <2>1. g \in Ring(size, B) /\ g.head = 0 /\ g.tail = 0 /\ g.end = size - 1
    BY <1>1, <2>0 DEF Ring
  <2> HIDE DEF g
  <2>2. ~fifo_isfull(g)
    BY <2>1 DEF fifo_isfull
  <2> QED
    BY <2>1, <2>2 DEF fifo_flush, g
<1>5. CASE fifo_isfull(f)
  <2>1. fifo_push(f, c) = f /\ f.head # f.tail
    BY <1>1, <1>5 DEF fifo_push, fifo_isfull
  <2> QED
    BY <1>1, <1>3, <1>4, <1>5, <2>1 DEF fifo_isempty
<1>6. CASE ~fifo_isfull(f)
  <2> DEFINE b == [f.buf EXCEPT ![f.tail] = c]
             n == After(f, f.tail)
  <2>1. b \in [0 .. size - 1 -> B] /\ n \in 0 .. size - 1 /\ n # f.head
    BY <1>1, <1>2, <1>6 DEF fifo_isfull, After
  <2>2. fifo_push(f, c) = [f EXCEPT !.buf = b, !.tail = n]
    BY <1>6 DEF fifo_push
  <2> HIDE DEF b, n
  <2>3. /\ fifo_push(f, c) \in Ring(size, B) /\ fifo_push(f, c).head = f.head
        /\ fifo_push(f, c).tail = n
    BY <1>1, <2>1, <2>2 DEF Ring
  <2> QED
    BY <1>1, <1>3, <1>4, <2>1, <2>3 DEF fifo_isempty, n
<1> QED
  BY <1>5, <1>6

\* The number of bytes in a ring with head h and tail t
LEMMA UsedIs ==
    ASSUME NEW size \in Nat, NEW f, NEW h \in 0 .. size - 1, NEW t \in 0 .. size - 1,
           f.head = h, f.tail = t, f.end = size - 1
    PROVE  Used(f) = IF h <= t THEN t - h ELSE t + size - h
<1>1. Used(f) = IF h <= t THEN t - h ELSE t + (size - 1) + 1 - h
  BY DEF Used
<1>2. t + (size - 1) + 1 - h = t + size - h
  OBVIOUS
<1> QED
  BY <1>1, <1>2

\* Push appends to the queue, when there is room.
THEOREM PushAppends ==
    ASSUME NEW size \in Nat, size > 1, NEW B, NEW f \in Ring(size, B), NEW c \in B,
           ~fifo_isfull(f)
    PROVE  /\ Used(fifo_push(f, c)) = Used(f) + 1
           /\ \A i \in 1 .. Used(f) : Content(fifo_push(f, c))[i] = Content(f)[i]
           /\ Content(fifo_push(f, c))[Used(f) + 1] = c
<1> DEFINE g == fifo_push(f, c)
<1>1. /\ f.buf \in [0 .. size - 1 -> B] /\ f.head \in 0 .. size - 1
      /\ f.tail \in 0 .. size - 1 /\ f.end = size - 1
  BY DEF Ring
<1>2. g = [f EXCEPT !.buf = [@ EXCEPT ![f.tail] = c], !.tail = After(f, f.tail)]
  BY DEF fifo_push
<1>3. /\ g.head = f.head /\ g.end = f.end /\ g.tail = After(f, f.tail)
      /\ g.buf = [f.buf EXCEPT ![f.tail] = c]
  BY <1>2 DEF Ring
<1> HIDE DEF g
<1>h. PICK h \in 0 .. size - 1, t \in 0 .. size - 1 : h = f.head /\ t = f.tail
  BY <1>1
<1>n. PICK n \in 0 .. size - 1 : n = g.tail /\ n = IF t = size - 1 THEN 0 ELSE t + 1
  BY <1>1, <1>3, <1>h DEF After
<1>u. /\ Used(f) = IF h <= t THEN t - h ELSE t + size - h
      /\ Used(g) = IF h <= n THEN n - h ELSE n + size - h
  BY <1>1, <1>3, <1>h, <1>n, UsedIs
<1>f. ~(h = 0 /\ t = size - 1) /\ t # h - 1
  BY <1>1, <1>h DEF fifo_isfull
<1>4. Used(g) = Used(f) + 1 /\ Used(f) \in Nat /\ Used(f) < size - 1
  BY <1>n, <1>u, <1>f
<1>5. \A i \in 1 .. Used(f) + 1 : Cell(g, i) = Cell(f, i) /\ Cell(f, i) \in 0 .. size - 1
  <2>1. SUFFICES ASSUME NEW i \in 1 .. Used(f) + 1
                 PROVE  Cell(g, i) = Cell(f, i) /\ Cell(f, i) \in 0 .. size - 1
    OBVIOUS
  <2>2. Cell(f, i) = IF h + i - 1 <= size - 1 THEN h + i - 1 ELSE h + i - 1 - size
    BY <1>1, <1>h, <1>4 DEF Cell
  <2>3. Cell(g, i) = Cell(f, i)
    BY <1>3 DEF Cell
  <2> QED
    BY <1>4, <2>2, <2>3
<1>6. Cell(f, Used(f) + 1) = f.tail
  BY <1>1, SMTT(30) DEF Used, Cell
<1>7. \A i \in 1 .. Used(f) : Cell(f, i) # f.tail
  BY <1>1 DEF Used, Cell
<1>8. \A i \in 1 .. Used(f) : Content(g)[i] = Content(f)[i]
  BY <1>1, <1>3, <1>4, <1>5, <1>7 DEF Content
<1>9. Content(g)[Used(f) + 1] = c
  BY <1>1, <1>3, <1>4, <1>5, <1>6 DEF Content
<1> QED
  BY <1>4, <1>8, <1>9 DEF g

\* Pop takes the first byte of the queue.
THEOREM PopTakesFirst ==
    ASSUME NEW size \in Nat, size > 1, NEW B, NEW f \in Ring(size, B), ~fifo_isempty(f)
    PROVE  /\ Used(f) \in Nat \ {0} /\ Used(fifo_pop(f)) = Used(f) - 1
           /\ fifo_first(f) = Content(f)[1]
           /\ \A i \in 1 .. Used(f) - 1 : Content(fifo_pop(f))[i] = Content(f)[i + 1]
<1> DEFINE g == fifo_pop(f)
<1>1. /\ f.buf \in [0 .. size - 1 -> B] /\ f.head \in 0 .. size - 1
      /\ f.tail \in 0 .. size - 1 /\ f.end = size - 1 /\ f.head # f.tail
  BY DEF Ring, fifo_isempty
<1>2. g = [f EXCEPT !.head = After(f, f.head)]
  BY DEF fifo_pop
<1>3. g.head = After(f, f.head) /\ g.end = f.end /\ g.tail = f.tail /\ g.buf = f.buf
  BY <1>2 DEF Ring
<1> HIDE DEF g
<1>h. PICK h \in 0 .. size - 1, t \in 0 .. size - 1 : h = f.head /\ t = f.tail /\ h # t
  BY <1>1
<1>n. PICK n \in 0 .. size - 1 : n = g.head /\ n = IF h = size - 1 THEN 0 ELSE h + 1
  BY <1>1, <1>3, <1>h DEF After
<1>u. /\ Used(f) = IF h <= t THEN t - h ELSE t + size - h
      /\ Used(g) = IF n <= t THEN t - n ELSE t + size - n
  BY <1>1, <1>3, <1>h, <1>n, UsedIs
<1>4. Used(f) \in Nat \ {0} /\ Used(g) = Used(f) - 1 /\ Used(f) < size
  BY <1>h, <1>n, <1>u
<1>5. Cell(f, 1) = f.head
  BY <1>1 DEF Cell
<1>6. \A i \in 1 .. Used(f) - 1 : Cell(g, i) = Cell(f, i + 1)
  <2>1. SUFFICES ASSUME NEW i \in 1 .. Used(f) - 1 PROVE Cell(g, i) = Cell(f, i + 1)
    OBVIOUS
  <2>2. Cell(f, i + 1) = IF h + i <= size - 1 THEN h + i ELSE h + i - size
    BY <1>1, <1>h, <1>4 DEF Cell
  <2>3. Cell(g, i) = IF n + i - 1 <= size - 1 THEN n + i - 1 ELSE n + i - 1 - size
    BY <1>1, <1>3, <1>n, <1>4 DEF Cell
  <2> QED
    BY <1>n, <1>4, <2>2, <2>3
<1>7. fifo_first(f) = Content(f)[1]
  BY <1>4, <1>5 DEF fifo_first, Content
<1>8. \A i \in 1 .. Used(f) - 1 : Content(g)[i] = Content(f)[i + 1]
  BY <1>3, <1>4, <1>6 DEF Content
<1> QED
  BY <1>4, <1>7, <1>8 DEF g

-----------------------------------------------------------------------------
(* The transmit side                                                         *)

\* What every step of a task keeps: the types, and the places of the other tasks.
SerialStep(t) ==
    /\ tx' \in Ring(TxSize, Byte) /\ st' \in [Tasks -> St]
    /\ \A u \in Tasks \ {t} : st'[u] = st[u]
    /\ sent' \in [Tasks -> 0 .. MaxWrite]
    /\ wire' \in [Tasks -> Nat] /\ dropped' \in [Tasks -> Nat] /\ lost' \in [Tasks -> Nat]

\* The states of a task after an assignment to its record
LEMMA StFacts ==
    ASSUME st \in [Tasks -> St], NEW t \in Tasks, NEW r \in St
    PROVE  /\ [st EXCEPT ![t] = r] \in [Tasks -> St] /\ [st EXCEPT ![t] = r][t] = r
           /\ \A u \in Tasks \ {t} : [st EXCEPT ![t] = r][u] = st[u]
  OBVIOUS

\* One lemma for each step of serial_putchar and txStart
LEMMA PutCharStep ==
    ASSUME SerialTypeOK, NEW t \in Tasks, PutChar(t)
    PROVE  /\ SerialStep(t) /\ st[t].pc = "idle" /\ tx' = tx
           /\ st'[t].pc \in {"load", "push"} /\ st'[t].ret = "push"
<1> DEFINE r == [st[t] EXCEPT !.pc = IF fifo_isfull(tx) THEN "load" ELSE "push", !.ret = "push"]
<1>1. st[t] \in St
  BY DEF SerialTypeOK
<1>2. r \in St /\ r.pc \in {"load", "push"} /\ r.ret = "push"
  BY <1>1 DEF St
<1>3. st' = [st EXCEPT ![t] = r]
  BY DEF PutChar
<1>4. st' \in [Tasks -> St] /\ st'[t] = r /\ \A u \in Tasks \ {t} : st'[u] = st[u]
  BY <1>2, <1>3, StFacts DEF SerialTypeOK
<1>5. sent' \in [Tasks -> 0 .. MaxWrite]
  <2>1. sent[t] \in 0 .. MaxWrite /\ sent[t] < MaxWrite /\ MaxWrite \in Nat
    BY SerialAssumption DEF PutChar, SerialTypeOK
  <2>2. sent[t] + 1 \in 0 .. MaxWrite
    BY <2>1
  <2> QED
    BY <2>2 DEF PutChar, SerialTypeOK
<1> QED
  BY <1>2, <1>4, <1>5 DEF PutChar, SerialTypeOK, SerialStep

\* The push of serial_putchar
LEMMA PushStep ==
    ASSUME SerialTypeOK, NEW t \in Tasks, Push(t)
    PROVE  SerialStep(t) /\ st'[t].pc = "load" /\ st'[t].ret = "idle"
<1> DEFINE r == [st[t] EXCEPT !.pc = "load", !.ret = "idle"]
<1>1. r \in St /\ r.pc = "load" /\ r.ret = "idle"
  BY DEF SerialTypeOK, St
<1>2. st' = [st EXCEPT ![t] = r]
  BY DEF Push
<1>3. st' \in [Tasks -> St] /\ st'[t] = r /\ \A u \in Tasks \ {t} : st'[u] = st[u]
  BY <1>1, <1>2, StFacts DEF SerialTypeOK
<1>4. tx' \in Ring(TxSize, Byte)
  BY RingFacts, SerialAssumption DEF SerialTypeOK, Push, Byte
<1>5. dropped' \in [Tasks -> Nat]
  BY DEF Push, SerialTypeOK
<1> QED
  BY <1>1, <1>3, <1>4, <1>5 DEF Push, SerialTypeOK, SerialStep

\* The first load of fifo_isempty
LEMMA LoadStep ==
    ASSUME SerialTypeOK, NEW t \in Tasks, Load(t)
    PROVE  /\ SerialStep(t) /\ tx' = tx /\ st'[t].pc = "test" /\ st'[t].ret = st[t].ret
           /\ st'[t].val = IF st'[t].reg = "head" THEN tx.head ELSE tx.tail
<1>1. PICK g \in {"head", "tail"} :
          st' = [st EXCEPT ![t].pc = "test", ![t].reg = g,
                           ![t].val = IF g = "head" THEN tx.head ELSE tx.tail]
  BY DEF Load
<1> DEFINE r == [st[t] EXCEPT !.pc = "test", !.reg = g,
                              !.val = IF g = "head" THEN tx.head ELSE tx.tail]
<1>2. /\ r \in St /\ r.pc = "test" /\ r.reg = g /\ r.ret = st[t].ret
      /\ r.val = IF g = "head" THEN tx.head ELSE tx.tail
  BY <1>1 DEF SerialTypeOK, St, Ring
<1>3. st' = [st EXCEPT ![t] = r]
  BY <1>1
<1>4. st' \in [Tasks -> St] /\ st'[t] = r /\ \A u \in Tasks \ {t} : st'[u] = st[u]
  BY <1>2, <1>3, StFacts DEF SerialTypeOK
<1> QED
  BY <1>2, <1>4 DEF Load, SerialTypeOK, SerialStep

\* The second load and the test
LEMMA TestStep ==
    ASSUME SerialTypeOK, NEW t \in Tasks, Test(t)
    PROVE  /\ SerialStep(t) /\ tx' = tx
           /\ ~SaysEmpty(t) => st'[t].pc = "pop"
           /\ st'[t].pc \in {"pop", "push", "idle"}
           /\ st'[t].pc \in {"pop", "push"} => st'[t].ret = st[t].ret
           /\ st'[t].pc = "push" => st[t].ret = "push"
           /\ st'[t].pc = "idle" => st[t].ret = "idle"
<1> DEFINE f == Forget(st[t])
           r == IF ~SaysEmpty(t) THEN [f EXCEPT !.pc = "pop"]
                ELSE IF st[t].ret = "push" THEN [f EXCEPT !.pc = "push"] ELSE Idle
<1>1. /\ r \in St /\ (~SaysEmpty(t) => r.pc = "pop") /\ r.pc \in {"pop", "push", "idle"}
      /\ r.pc \in {"pop", "push"} => r.ret = st[t].ret
      /\ r.pc = "push" => st[t].ret = "push"
      /\ r.pc = "idle" => st[t].ret = "idle"
  <2>1. Idle \in St /\ Idle.pc = "idle" /\ st[t].ret \in {"push", "idle"}
    BY SerialAssumption DEF Idle, St, Byte, SerialTypeOK
  <2>2. f \in St /\ f.ret = st[t].ret
    <3>1. 0 \in 0 .. TxSize - 1 /\ st[t] \in St
      BY SerialAssumption DEF SerialTypeOK
    <3>2. st[t] \in St => f \in St /\ f.ret = st[t].ret
      BY <3>1 DEF St, Forget
    <3> QED
      BY <3>1, <3>2
  <2> HIDE DEF f
  <2>3. /\ [f EXCEPT !.pc = "pop"] \in St /\ [f EXCEPT !.pc = "push"] \in St
        /\ [f EXCEPT !.pc = "pop"].pc = "pop" /\ [f EXCEPT !.pc = "push"].pc = "push"
        /\ [f EXCEPT !.pc = "pop"].ret = st[t].ret
        /\ [f EXCEPT !.pc = "push"].ret = st[t].ret
    BY <2>2 DEF St
  <2> QED
    BY <2>1, <2>3
<1>2. st' = [st EXCEPT ![t] = r]
  BY DEF Test
<1> HIDE DEF r
<1>3. st' \in [Tasks -> St] /\ st'[t] = r /\ \A u \in Tasks \ {t} : st'[u] = st[u]
  BY <1>1, <1>2, StFacts DEF SerialTypeOK
<1> QED
  BY <1>1, <1>3 DEF Test, SerialTypeOK, SerialStep

\* fifo_pop in txStart
LEMMA PopStep ==
    ASSUME SerialTypeOK, NEW t \in Tasks, Pop(t)
    PROVE  /\ SerialStep(t) /\ tx'.tail = tx.tail /\ st'[t].pc = "write"
           /\ st'[t].ret = st[t].ret /\ st'[t].ch = fifo_first(tx)
<1> DEFINE r == [st[t] EXCEPT !.pc = "write", !.ch = fifo_first(tx)]
<1>1. fifo_first(tx) \in Byte /\ tx' \in Ring(TxSize, Byte) /\ tx'.tail = tx.tail
  <2>1. Nul \in Byte
    BY DEF Byte
  <2> QED
    BY <2>1, RingFacts, SerialAssumption DEF SerialTypeOK, Pop, fifo_first
<1>2. r \in St /\ r.pc = "write" /\ r.ret = st[t].ret /\ r.ch = fifo_first(tx)
  BY <1>1 DEF SerialTypeOK, St
<1>3. st' = [st EXCEPT ![t] = r]
  BY DEF Pop
<1>4. st' \in [Tasks -> St] /\ st'[t] = r /\ \A u \in Tasks \ {t} : st'[u] = st[u]
  BY <1>2, <1>3, StFacts DEF SerialTypeOK
<1> QED
  BY <1>1, <1>2, <1>4 DEF Pop, SerialTypeOK, SerialStep

\* HAL_UART_WriteOneChar
LEMMA WriteStep ==
    ASSUME SerialTypeOK, NEW t \in Tasks, WriteOneChar(t)
    PROVE  SerialStep(t) /\ tx' = tx /\ st'[t].pc = "load" /\ st'[t].ret = st[t].ret
<1> DEFINE r == [st[t] EXCEPT !.pc = "load", !.ch = Nul]
<1>1. r \in St /\ r.pc = "load" /\ r.ret = st[t].ret
  BY DEF SerialTypeOK, St, Byte
<1>2. st' = [st EXCEPT ![t] = r]
  BY DEF WriteOneChar
<1>3. st' \in [Tasks -> St] /\ st'[t] = r /\ \A u \in Tasks \ {t} : st'[u] = st[u]
  BY <1>1, <1>2, StFacts DEF SerialTypeOK
<1>4. wire' \in [Tasks -> Nat] /\ lost' \in [Tasks -> Nat]
  BY DEF WriteOneChar, SerialTypeOK
<1> QED
  BY <1>1, <1>3, <1>4 DEF WriteOneChar, SerialTypeOK, SerialStep

\* The transmit side is well typed and no byte is left behind.
SerialInv == SerialTypeOK /\ NeverStranded

\* The port as serial_open leaves it
LEMMA SerialInitInv == SerialInit => SerialInv
<1> SUFFICES ASSUME SerialInit PROVE SerialInv
  OBVIOUS
<1>1. tx \in Ring(TxSize, Byte) /\ tx.head = 0 /\ tx.tail = 0
  BY SerialAssumption DEF SerialInit, fifo_init, Ring, Byte
<1>2. Idle \in St
  BY SerialAssumption DEF Idle, St, Byte
<1>3. SerialTypeOK
  BY <1>1, <1>2, SerialAssumption DEF SerialInit, SerialTypeOK
<1> QED
  BY <1>1, <1>3 DEF SerialInv, NeverStranded, fifo_isempty

\* Whoever was in txStart and bound to stay there before a step of another task is so
\* after it, if the step leaves the tail alone.
LEMMA OthersStay ==
    ASSUME NEW t \in Tasks, NEW u \in Tasks \ {t}, SerialStep(t), tx'.tail = tx.tail, Stays(u)
    PROVE  Stays(u)'
  BY DEF SerialStep, Stays

\* Every step of a task keeps SerialInv: the task that pushes goes on to txStart itself,
\* and a task that leaves txStart has compared a value that was true when no byte was
\* in the FIFO, or leaves another one behind.
LEMMA SerialStepInv ==
    ASSUME SerialInv, NEW t \in Tasks, PutChar(t) \/ Drive(t)
    PROVE  SerialInv'
<1>1. SerialTypeOK
  BY DEF SerialInv
<1>2. SerialStep(t)
  BY <1>1, PutCharStep, PushStep, LoadStep, TestStep, PopStep, WriteStep DEF Drive, TxStart
<1>3. SerialTypeOK'
  BY <1>2 DEF SerialStep, SerialTypeOK
<1>4. SUFFICES ASSUME ~fifo_isempty(tx)' PROVE \E u \in Tasks : Stays(u)'
  BY <1>3 DEF SerialInv, NeverStranded
<1>5. CASE PutChar(t)
  <2>1. tx' = tx /\ st[t].pc = "idle"
    BY <1>1, <1>5, PutCharStep
  <2>2. PICK u \in Tasks : Stays(u)
    BY <1>4, <2>1 DEF SerialInv, NeverStranded, fifo_isempty
  <2>3. u # t
    BY <2>1, <2>2 DEF Stays
  <2> QED
    BY <1>2, <2>1, <2>2, <2>3, OthersStay
<1>6. CASE Push(t)
  <2>1. st'[t].pc = "load"
    BY <1>1, <1>6, PushStep
  <2> QED
    BY <2>1 DEF Stays
<1>7. CASE Load(t)
  <2>1. /\ tx' = tx /\ st'[t].pc = "test" /\ st'[t] \in St
        /\ st'[t].val = IF st'[t].reg = "head" THEN tx.head ELSE tx.tail
    BY <1>1, <1>2, <1>7, LoadStep DEF SerialStep
  <2>2. tx.head # tx.tail
    BY <1>4, <2>1 DEF fifo_isempty
  <2> QED
    BY <2>1, <2>2 DEF Stays
<1>8. CASE Test(t)
  <2>1. tx' = tx /\ (~SaysEmpty(t) => st'[t].pc = "pop") /\ st[t].pc = "test"
    BY <1>1, <1>8, TestStep DEF Test
  <2>2. tx.head # tx.tail
    BY <1>4, <2>1 DEF fifo_isempty
  <2>3. PICK u \in Tasks : Stays(u)
    BY <2>2 DEF SerialInv, NeverStranded, fifo_isempty
  <2>4. CASE u # t
    BY <1>2, <2>1, <2>3, <2>4, OthersStay
  <2>5. CASE u = t
    <3>1. ~SaysEmpty(t)
      BY <2>1, <2>2, <2>3, <2>5 DEF Stays, SaysEmpty, OtherReg
    <3> QED
      BY <2>1, <3>1 DEF Stays
  <2> QED
    BY <2>4, <2>5
<1>9. CASE Pop(t)
  <2>1. st'[t].pc = "write"
    BY <1>1, <1>9, PopStep
  <2> QED
    BY <2>1 DEF Stays
<1>10. CASE WriteOneChar(t)
  <2>1. st'[t].pc = "load"
    BY <1>1, <1>10, WriteStep
  <2> QED
    BY <2>1 DEF Stays
<1> QED
  BY <1>5, <1>6, <1>7, <1>8, <1>9, <1>10 DEF Drive, TxStart

\* Steps of others leave the transmit side alone.
LEMMA SerialUnchanged == SerialInv /\ UNCHANGED serialVars => SerialInv'
  BY DEF SerialInv, serialVars, SerialTypeOK, NeverStranded, Stays, fifo_isempty

\* Any number of tasks that write to one port leave no byte in the transmit FIFO: as
\* long as there is one, some task will send it before it returns from serial_putchar.
THEOREM SerialNeverStranded == SerialSpec => [](SerialTypeOK /\ NeverStranded)
<1>1. SerialInv /\ [SerialNext]_serialVars => SerialInv'
  BY SerialStepInv, SerialUnchanged DEF SerialNext
<1> QED
  BY <1>1, SerialInitInv, PTL DEF SerialSpec, SerialInv

-----------------------------------------------------------------------------
(* Where the bytes are                                                       *)

\* The places of a byte in the queue that a ring stands for
Places(f, c) == {i \in 1 .. Used(f) : Content(f)[i] = c}

LEMMA PlacesFinite ==
    ASSUME NEW n \in Int, NEW S, S \subseteq 1 .. n
    PROVE  IsFiniteSet(S) /\ Cardinality(S) \in Nat
<1>1. IsFiniteSet(1 .. n)
  BY FS_Interval
<1>2. IsFiniteSet(S)
  BY <1>1, FS_Subset
<1> QED
  BY <1>2, FS_CardinalityType

\* A push of c adds one place of c, and none of another byte.
LEMMA PlacesPush ==
    ASSUME NEW size \in Nat, size > 1, NEW B, NEW f \in Ring(size, B), NEW c \in B,
           ~fifo_isfull(f), NEW d
    PROVE  LET g == fifo_push(f, c)
           IN  /\ IsFiniteSet(Places(f, d)) /\ IsFiniteSet(Places(g, d))
               /\ Cardinality(Places(g, d)) =
                      Cardinality(Places(f, d)) + (IF c = d THEN 1 ELSE 0)
<1>0. PICK g, n : g = fifo_push(f, c) /\ n = Used(f)
  OBVIOUS
<1>1. n \in Nat
  <2>1. f.head \in 0 .. size - 1 /\ f.tail \in 0 .. size - 1 /\ f.end = size - 1
    BY DEF Ring
  <2> QED
    BY <1>0, <2>1, UsedIs
<1>2. /\ Used(g) = n + 1 /\ Content(g)[n + 1] = c
      /\ \A i \in 1 .. n : Content(g)[i] = Content(f)[i]
  BY <1>0, PushAppends
<1>3. Places(f, d) \subseteq 1 .. n
  BY <1>0 DEF Places
<1>4. IsFiniteSet(Places(f, d)) /\ Cardinality(Places(f, d)) \in Nat /\ n + 1 \notin Places(f, d)
  BY <1>1, <1>3, PlacesFinite
<1>5. Places(g, d) = Places(f, d) \cup (IF c = d THEN {n + 1} ELSE {})
  BY <1>0, <1>1, <1>2 DEF Places
<1>6. CASE c = d
  <2>1. Places(g, d) = Places(f, d) \cup {n + 1}
    BY <1>5, <1>6
  <2> QED
    BY <1>0, <1>4, <1>6, <2>1, FS_AddElement
<1>7. CASE c # d
  BY <1>0, <1>4, <1>5, <1>7
<1> QED
  BY <1>6, <1>7

\* A pop takes away one place of the first byte, and none of another.
LEMMA PlacesPop ==
    ASSUME NEW size \in Nat, size > 1, NEW B, NEW f \in Ring(size, B), ~fifo_isempty(f), NEW d
    PROVE  LET g == fifo_pop(f)
           IN  /\ IsFiniteSet(Places(f, d)) /\ IsFiniteSet(Places(g, d))
               /\ Cardinality(Places(f, d)) =
                      Cardinality(Places(g, d)) + (IF fifo_first(f) = d THEN 1 ELSE 0)
<1>0. PICK g, n : g = fifo_pop(f) /\ n = Used(f)
  OBVIOUS
<1>1. /\ n \in Nat \ {0} /\ Used(g) = n - 1 /\ fifo_first(f) = Content(f)[1]
      /\ \A i \in 1 .. n - 1 : Content(g)[i] = Content(f)[i + 1]
  BY <1>0, PopTakesFirst
<1>2. Places(f, d) \subseteq 1 .. n /\ Places(g, d) \subseteq 1 .. n - 1
  BY <1>0, <1>1 DEF Places
<1>3. /\ IsFiniteSet(Places(f, d)) /\ Cardinality(Places(f, d)) \in Nat
      /\ IsFiniteSet(Places(g, d)) /\ Cardinality(Places(g, d)) \in Nat
  <2>1. n \in Int /\ n - 1 \in Int
    BY <1>1
  <2> QED
    BY <1>2, <2>1, PlacesFinite
<1>4. PICK S : S = Places(f, d) \ {1}
  OBVIOUS
<1>5. /\ IsFiniteSet(S) /\ Cardinality(S) \in Nat
      /\ Cardinality(Places(f, d)) = Cardinality(S) + (IF fifo_first(f) = d THEN 1 ELSE 0)
  <2>1. 1 \in Places(f, d) <=> fifo_first(f) = d
    BY <1>0, <1>1 DEF Places
  <2>2. /\ IsFiniteSet(S)
        /\ Cardinality(S) = IF 1 \in Places(f, d) THEN Cardinality(Places(f, d)) - 1
                            ELSE Cardinality(Places(f, d))
    BY <1>3, <1>4, FS_RemoveElement
  <2>3. Cardinality(S) \in Nat
    BY <2>2, FS_CardinalityType
  <2> QED
    BY <1>3, <2>1, <2>2, <2>3
<1>6. Cardinality(S) = Cardinality(Places(g, d))
  <2>1. PICK h : h = [i \in Places(g, d) |-> i + 1]
    OBVIOUS
  <2>2. \A i \in Places(g, d) : i + 1 \in S
    BY <1>0, <1>1, <1>4 DEF Places
  <2>3. \A j \in S : j - 1 \in Places(g, d) /\ j = (j - 1) + 1
    <3> SUFFICES ASSUME NEW j \in S PROVE j - 1 \in Places(g, d) /\ j = (j - 1) + 1
      OBVIOUS
    <3>1. j \in 2 .. n /\ Content(f)[j] = d
      BY <1>0, <1>1, <1>2, <1>4 DEF Places
    <3>2. j - 1 \in 1 .. n - 1 /\ j = (j - 1) + 1
      BY <1>1, <3>1
    <3>3. Content(g)[j - 1] = d
      BY <1>1, <3>1, <3>2
    <3> QED
      BY <1>1, <3>2, <3>3 DEF Places
  <2>4. h \in Bijection(Places(g, d), S)
    <3>1. h \in [Places(g, d) -> S]
      BY <2>1, <2>2
    <3>2. \A a, b \in Places(g, d) : h[a] = h[b] => a = b
      BY <1>1, <1>2, <2>1
    <3>3. \A t \in S : \E s \in Places(g, d) : h[s] = t
      BY <2>1, <2>3
    <3> QED
      BY <3>1, <3>2, <3>3 DEF Bijection, Injection, Surjection, IsInjective
  <2>5. ExistsBijection(Places(g, d), S)
    BY <2>4 DEF ExistsBijection
  <2> QED
    BY <1>3, <2>5, FS_Bijection
<1> QED
  BY <1>0, <1>3, <1>5, <1>6
\* The inductive invariant of the count: a task at its push has come from serial_putchar
\* with a byte, and only finitely many tasks hold a popped byte.
SerialCounted ==
    /\ Conserved
    /\ \A t \in Tasks : IsFiniteSet(InHand(t)) /\ (st[t].pc = "push" => st[t].ret = "push")

\* A step of one task leaves the bytes of the others that wait or are popped alone.
LEMMA OthersCount ==
    ASSUME NEW t \in Tasks, SerialStep(t)
    PROVE  /\ \A d \in Tasks \ {t} : ToPush(d)' <=> ToPush(d)
           /\ \A d \in Tasks : InHand(d)' \ {t} = InHand(d) \ {t}
<1>1. \A u \in Tasks \ {t} : st'[u] = st[u]
  BY DEF SerialStep
<1> QED
  BY <1>1 DEF ToPush, InHand

\* A step of a task that has no byte in its hands before and after
LEMMA HandsSame ==
    ASSUME NEW t \in Tasks, SerialStep(t), st[t].pc # "write", st'[t].pc # "write"
    PROVE  \A d \in Tasks : InHand(d)' = InHand(d)
<1>1. \A d \in Tasks : t \notin InHand(d) /\ t \notin InHand(d)'
  BY DEF InHand
<1> QED
  BY <1>1, OthersCount

\* The sum behind Conserved is over numbers.
LEMMA CountTypes ==
    ASSUME SerialTypeOK, SerialCounted, NEW d \in Tasks
    PROVE  /\ Cardinality(InFifo(d)) \in Nat /\ Cardinality(InHand(d)) \in Nat
           /\ IsFiniteSet(InHand(d)) /\ InFifo(d) = Places(tx, d)
           /\ sent[d] \in Nat /\ wire[d] \in Nat /\ dropped[d] \in Nat /\ lost[d] \in Nat
<1>1. IsFiniteSet(InHand(d)) /\ InFifo(d) = Places(tx, d)
  BY DEF SerialCounted, InFifo, Places
<1>2. Cardinality(InHand(d)) \in Nat
  BY <1>1, FS_CardinalityType
<1>3. PICK n : n = Used(tx)
  OBVIOUS
<1>4. n \in Int /\ InFifo(d) \subseteq 1 .. n
  <2>1. tx.head \in 0 .. TxSize - 1 /\ tx.tail \in 0 .. TxSize - 1 /\ tx.end = TxSize - 1
    BY DEF SerialTypeOK, Ring
  <2>2. n \in Int
    BY <1>3, <2>1, UsedIs, SerialAssumption
  <2> QED
    BY <1>3, <2>2 DEF InFifo
<1>5. Cardinality(InFifo(d)) \in Nat
  BY <1>4, PlacesFinite
<1>6. sent[d] \in Nat /\ wire[d] \in Nat /\ dropped[d] \in Nat /\ lost[d] \in Nat
  BY SerialAssumption DEF SerialTypeOK
<1> QED
  BY <1>1, <1>2, <1>5, <1>6

\* serial_putchar takes a byte.
LEMMA PutCharCounts ==
    ASSUME SerialTypeOK, SerialCounted, NEW t \in Tasks, PutChar(t)
    PROVE  SerialCounted'
<1>1. /\ SerialStep(t) /\ st[t].pc = "idle" /\ tx' = tx
      /\ st'[t].pc \in {"load", "push"} /\ st'[t].ret = "push"
  BY PutCharStep
<1>2. \A d \in Tasks : InHand(d)' = InHand(d)
  BY <1>1, HandsSame
<1>3. \A d \in Tasks : InFifo(d)' = InFifo(d)
  BY <1>1 DEF InFifo
<1>4. /\ wire' = wire /\ dropped' = dropped /\ lost' = lost
      /\ \A d \in Tasks : sent'[d] = sent[d] + (IF d = t THEN 1 ELSE 0)
  <2>1. /\ sent' = [sent EXCEPT ![t] = @ + 1]
        /\ wire' = wire /\ dropped' = dropped /\ lost' = lost
    BY DEF PutChar
  <2>2. sent \in [Tasks -> 0 .. MaxWrite]
    BY DEF SerialTypeOK
  <2> QED
    BY <2>1, <2>2, SerialAssumption
<1>5. /\ ~ToPush(t) /\ ToPush(t)'
      /\ \A d \in Tasks \ {t} : ToPush(d)' <=> ToPush(d)
  BY <1>1, OthersCount DEF ToPush
<1>6. Conserved'
  <2> SUFFICES ASSUME NEW d \in Tasks
               PROVE  sent'[d] = (IF ToPush(d)' THEN 1 ELSE 0) + Cardinality(InFifo(d)')
                                 + Cardinality(InHand(d)') + wire'[d] + dropped'[d]
                                 + lost'[d]
    BY DEF Conserved
  <2>1. /\ Cardinality(InFifo(d)) \in Nat /\ Cardinality(InHand(d)) \in Nat
        /\ sent[d] \in Nat /\ wire[d] \in Nat /\ dropped[d] \in Nat /\ lost[d] \in Nat
    BY CountTypes
  <2>2. sent[d] = (IF ToPush(d) THEN 1 ELSE 0) + Cardinality(InFifo(d))
                  + Cardinality(InHand(d)) + wire[d] + dropped[d] + lost[d]
    BY DEF SerialCounted, Conserved
  <2> QED
    BY <1>2, <1>3, <1>4, <1>5, <2>1, <2>2
<1>7. \A d \in Tasks : IsFiniteSet(InHand(d))' /\ (st'[d].pc = "push" => st'[d].ret = "push")
  BY <1>1, <1>2 DEF SerialCounted, SerialStep
<1> QED
  BY <1>6, <1>7 DEF SerialCounted

\* The byte goes into the FIFO or is dropped.
LEMMA PushCounts ==
    ASSUME SerialTypeOK, SerialCounted, NEW t \in Tasks, Push(t)
    PROVE  SerialCounted'
<1>1. /\ SerialStep(t) /\ st[t].pc = "push" /\ st[t].ret = "push"
      /\ st'[t].pc = "load" /\ st'[t].ret = "idle"
  BY PushStep DEF SerialCounted, Push
<1>2. \A d \in Tasks : InHand(d)' = InHand(d)
  BY <1>1, HandsSame
<1>3. sent' = sent /\ wire' = wire /\ lost' = lost
  BY DEF Push
<1>4. \A d \in Tasks : dropped'[d] = dropped[d] + (IF d = t /\ fifo_isfull(tx) THEN 1 ELSE 0)
  <2>1. dropped' = [dropped EXCEPT ![t] = IF fifo_isfull(tx) THEN @ + 1 ELSE @]
    BY DEF Push
  <2>2. dropped \in [Tasks -> Nat]
    BY DEF SerialTypeOK
  <2> QED
    BY <2>1, <2>2
<1>5. /\ ToPush(t) /\ ~ToPush(t)'
      /\ \A d \in Tasks \ {t} : ToPush(d)' <=> ToPush(d)
  BY <1>1, OthersCount DEF ToPush
<1>6. \A d \in Tasks : Cardinality(InFifo(d)') = Cardinality(InFifo(d))
                           + (IF d = t /\ ~fifo_isfull(tx) THEN 1 ELSE 0)
  <2> SUFFICES ASSUME NEW d \in Tasks
               PROVE  Cardinality(InFifo(d)') = Cardinality(InFifo(d))
                           + (IF d = t /\ ~fifo_isfull(tx) THEN 1 ELSE 0)
    OBVIOUS
  <2>1. /\ tx' = fifo_push(tx, t) /\ Cardinality(InFifo(d)) \in Nat
        /\ InFifo(d) = Places(tx, d) /\ InFifo(d)' = Places(tx', d)
    BY CountTypes DEF Push, InFifo, Places
  <2>2. CASE fifo_isfull(tx)
    <3>1. tx' = tx
      BY <2>1, <2>2 DEF fifo_push
    <3> QED
      BY <2>1, <2>2, <3>1
  <2>3. CASE ~fifo_isfull(tx)
    <3>1. TxSize \in Nat /\ TxSize > 1 /\ tx \in Ring(TxSize, Byte) /\ t \in Byte
      BY SerialAssumption DEF SerialTypeOK, Byte
    <3>2. Cardinality(Places(tx', d)) = Cardinality(Places(tx, d)) + (IF t = d THEN 1 ELSE 0)
      BY <2>1, <2>3, <3>1, PlacesPush
    <3> QED
      BY <2>1, <2>3, <3>2
  <2> QED
    BY <2>2, <2>3
<1>7. Conserved'
  <2> SUFFICES ASSUME NEW d \in Tasks
               PROVE  sent'[d] = (IF ToPush(d)' THEN 1 ELSE 0) + Cardinality(InFifo(d)')
                                 + Cardinality(InHand(d)') + wire'[d] + dropped'[d]
                                 + lost'[d]
    BY DEF Conserved
  <2>1. /\ Cardinality(InFifo(d)) \in Nat /\ Cardinality(InHand(d)) \in Nat
        /\ sent[d] \in Nat /\ wire[d] \in Nat /\ dropped[d] \in Nat /\ lost[d] \in Nat
    BY CountTypes
  <2>2. sent[d] = (IF ToPush(d) THEN 1 ELSE 0) + Cardinality(InFifo(d))
                  + Cardinality(InHand(d)) + wire[d] + dropped[d] + lost[d]
    BY DEF SerialCounted, Conserved
  <2> QED
    BY <1>2, <1>3, <1>4, <1>5, <1>6, <2>1, <2>2
<1>8. \A d \in Tasks : IsFiniteSet(InHand(d))' /\ (st'[d].pc = "push" => st'[d].ret = "push")
  BY <1>1, <1>2 DEF SerialCounted, SerialStep
<1> QED
  BY <1>7, <1>8 DEF SerialCounted

\* The loads and the test of fifo_isempty move no byte.
LEMMA TestCounts ==
    ASSUME SerialTypeOK, SerialCounted, NEW t \in Tasks, Load(t) \/ Test(t)
    PROVE  SerialCounted'
<1>1. /\ SerialStep(t) /\ tx' = tx /\ st[t].pc \in {"load", "test"}
      /\ st'[t].pc \in {"test", "pop", "push", "idle"}
      /\ st'[t].pc \in {"test", "pop", "push"} => st'[t].ret = st[t].ret
      /\ st'[t].pc = "push" => st[t].ret = "push"
      /\ st'[t].pc = "idle" => st[t].ret = "idle"
  <2>1. CASE Load(t)
    BY <2>1, LoadStep DEF Load
  <2>2. CASE Test(t)
    BY <2>2, TestStep DEF Test
  <2> QED
    BY <2>1, <2>2
<1>2. \A d \in Tasks : InHand(d)' = InHand(d)
  BY <1>1, HandsSame
<1>3. \A d \in Tasks : InFifo(d)' = InFifo(d)
  BY <1>1 DEF InFifo
<1>4. sent' = sent /\ wire' = wire /\ dropped' = dropped /\ lost' = lost
  BY DEF Load, Test
<1>5. \A d \in Tasks : ToPush(d)' <=> ToPush(d)
  <2>1. ToPush(t)' <=> ToPush(t)
    BY <1>1 DEF ToPush
  <2> QED
    BY <1>1, <2>1, OthersCount
<1>6. Conserved'
  BY <1>2, <1>3, <1>4, <1>5 DEF SerialCounted, Conserved
<1>7. \A d \in Tasks : IsFiniteSet(InHand(d))' /\ (st'[d].pc = "push" => st'[d].ret = "push")
  BY <1>1, <1>2 DEF SerialCounted, SerialStep
<1> QED
  BY <1>6, <1>7 DEF SerialCounted

\* A popped byte goes from the FIFO into the hands of the task, and nothing is popped
\* from an empty FIFO.
LEMMA PopCounts ==
    ASSUME SerialTypeOK, SerialCounted, NEW t \in Tasks, Pop(t)
    PROVE  SerialCounted'
<1>1. /\ SerialStep(t) /\ st[t].pc = "pop" /\ st'[t].pc = "write"
      /\ st'[t].ret = st[t].ret /\ st'[t].ch = fifo_first(tx)
  BY PopStep DEF Pop
<1>2. sent' = sent /\ wire' = wire /\ dropped' = dropped /\ lost' = lost
  BY DEF Pop
<1>3. \A d \in Tasks : ToPush(d)' <=> ToPush(d)
  <2>1. ToPush(t)' <=> ToPush(t)
    BY <1>1 DEF ToPush
  <2> QED
    BY <1>1, <2>1, OthersCount
<1>4. \A d \in Tasks :
          /\ IsFiniteSet(InHand(d)')
          /\ Cardinality(InHand(d)') =
                 Cardinality(InHand(d)) + (IF fifo_first(tx) = d THEN 1 ELSE 0)
  <2> SUFFICES ASSUME NEW d \in Tasks
               PROVE  /\ IsFiniteSet(InHand(d)')
                      /\ Cardinality(InHand(d)') =
                             Cardinality(InHand(d)) + (IF fifo_first(tx) = d THEN 1 ELSE 0)
    OBVIOUS
  <2>1. t \notin InHand(d) /\ (t \in InHand(d)' <=> fifo_first(tx) = d)
    BY <1>1 DEF InHand
  <2>2. InHand(d)' \ {t} = InHand(d) \ {t}
    BY <1>1, OthersCount
  <2>3. InHand(d)' = InHand(d) \cup (IF fifo_first(tx) = d THEN {t} ELSE {})
    BY <2>1, <2>2
  <2>4. IsFiniteSet(InHand(d)) /\ Cardinality(InHand(d)) \in Nat
    BY CountTypes
  <2>5. CASE fifo_first(tx) = d
    <3>1. InHand(d)' = InHand(d) \cup {t}
      BY <2>3, <2>5
    <3> QED
      BY <2>1, <2>4, <2>5, <3>1, FS_AddElement
  <2>6. CASE fifo_first(tx) # d
    BY <2>3, <2>4, <2>6
  <2> QED
    BY <2>5, <2>6
<1>5. \A d \in Tasks :
          /\ Cardinality(InFifo(d)') \in Nat
          /\ Cardinality(InFifo(d)) =
                 Cardinality(InFifo(d)') + (IF fifo_first(tx) = d THEN 1 ELSE 0)
  <2> SUFFICES ASSUME NEW d \in Tasks
               PROVE  /\ Cardinality(InFifo(d)') \in Nat
                      /\ Cardinality(InFifo(d)) =
                             Cardinality(InFifo(d)') + (IF fifo_first(tx) = d THEN 1 ELSE 0)
    OBVIOUS
  <2>1. /\ tx' = fifo_pop(tx) /\ Cardinality(InFifo(d)) \in Nat
        /\ InFifo(d) = Places(tx, d) /\ InFifo(d)' = Places(tx', d)
    BY CountTypes DEF Pop, InFifo, Places
  <2>2. CASE fifo_isempty(tx)
    <3>1. tx' = tx /\ fifo_first(tx) = Nul
      BY <2>1, <2>2 DEF fifo_pop, fifo_first
    <3>2. fifo_first(tx) # d
      BY <3>1, SerialAssumption
    <3> QED
      BY <2>1, <3>1, <3>2
  <2>3. CASE ~fifo_isempty(tx)
    <3>1. TxSize \in Nat /\ TxSize > 1 /\ tx \in Ring(TxSize, Byte)
      BY SerialAssumption DEF SerialTypeOK
    <3>2. /\ IsFiniteSet(Places(tx', d))
          /\ Cardinality(Places(tx, d)) =
                 Cardinality(Places(tx', d)) + (IF fifo_first(tx) = d THEN 1 ELSE 0)
      BY <2>1, <2>3, <3>1, PlacesPop
    <3>3. Cardinality(Places(tx', d)) \in Nat
      BY <3>2, FS_CardinalityType
    <3> QED
      BY <2>1, <3>2, <3>3
  <2> QED
    BY <2>2, <2>3
<1>6. Conserved'
  <2> SUFFICES ASSUME NEW d \in Tasks
               PROVE  sent'[d] = (IF ToPush(d)' THEN 1 ELSE 0) + Cardinality(InFifo(d)')
                                 + Cardinality(InHand(d)') + wire'[d] + dropped'[d]
                                 + lost'[d]
    BY DEF Conserved
  <2>1. /\ Cardinality(InFifo(d)) \in Nat /\ Cardinality(InHand(d)) \in Nat
        /\ sent[d] \in Nat /\ wire[d] \in Nat /\ dropped[d] \in Nat /\ lost[d] \in Nat
    BY CountTypes
  <2>2. sent[d] = (IF ToPush(d) THEN 1 ELSE 0) + Cardinality(InFifo(d))
                  + Cardinality(InHand(d)) + wire[d] + dropped[d] + lost[d]
    BY DEF SerialCounted, Conserved
  <2> QED
    BY <1>2, <1>3, <1>4, <1>5, <2>1, <2>2
<1>7. \A d \in Tasks : IsFiniteSet(InHand(d))' /\ (st'[d].pc = "push" => st'[d].ret = "push")
  BY <1>1, <1>4 DEF SerialCounted, SerialStep
<1> QED
  BY <1>6, <1>7 DEF SerialCounted

\* The byte in the hands of the task goes to the UART or is lost there.
LEMMA WriteCounts ==
    ASSUME SerialTypeOK, SerialCounted, NEW t \in Tasks, WriteOneChar(t)
    PROVE  SerialCounted'
<1>1. /\ SerialStep(t) /\ tx' = tx /\ st[t].pc = "write" /\ st'[t].pc = "load"
      /\ st'[t].ret = st[t].ret
  BY WriteStep DEF WriteOneChar
<1>2. /\ sent' = sent /\ dropped' = dropped
      /\ \A d \in Tasks : /\ wire'[d] \in Nat /\ lost'[d] \in Nat
                          /\ wire'[d] + lost'[d] =
                                 wire[d] + lost[d] + (IF st[t].ch = d THEN 1 ELSE 0)
  <2>1. wire \in [Tasks -> Nat] /\ lost \in [Tasks -> Nat]
    BY DEF SerialTypeOK
  <2>2. CASE /\ wire' = [u \in Tasks |-> IF u = st[t].ch THEN wire[u] + 1 ELSE wire[u]]
             /\ lost' = lost
    BY <2>1, <2>2 DEF WriteOneChar
  <2>3. CASE /\ lost' = [u \in Tasks |-> IF u = st[t].ch THEN lost[u] + 1 ELSE lost[u]]
             /\ wire' = wire
    BY <2>1, <2>3 DEF WriteOneChar
  <2> QED
    BY <2>2, <2>3 DEF WriteOneChar
<1>3. \A d \in Tasks : ToPush(d)' <=> ToPush(d)
  <2>1. ToPush(t)' <=> ToPush(t)
    BY <1>1 DEF ToPush
  <2> QED
    BY <1>1, <2>1, OthersCount
<1>4. \A d \in Tasks : InFifo(d)' = InFifo(d)
  BY <1>1 DEF InFifo
<1>5. \A d \in Tasks :
          /\ IsFiniteSet(InHand(d)') /\ Cardinality(InHand(d)') \in Nat
          /\ Cardinality(InHand(d)) =
                 Cardinality(InHand(d)') + (IF st[t].ch = d THEN 1 ELSE 0)
  <2> SUFFICES ASSUME NEW d \in Tasks
               PROVE  /\ IsFiniteSet(InHand(d)') /\ Cardinality(InHand(d)') \in Nat
                      /\ Cardinality(InHand(d)) =
                             Cardinality(InHand(d)') + (IF st[t].ch = d THEN 1 ELSE 0)
    OBVIOUS
  <2>1. t \notin InHand(d)' /\ (t \in InHand(d) <=> st[t].ch = d)
    BY <1>1 DEF InHand
  <2>2. InHand(d)' \ {t} = InHand(d) \ {t}
    BY <1>1, OthersCount
  <2>3. InHand(d)' = InHand(d) \ {t}
    BY <2>1, <2>2
  <2>4. IsFiniteSet(InHand(d)) /\ Cardinality(InHand(d)) \in Nat
    BY CountTypes
  <2>5. /\ IsFiniteSet(InHand(d) \ {t})
        /\ Cardinality(InHand(d) \ {t}) = IF t \in InHand(d) THEN Cardinality(InHand(d)) - 1
                                          ELSE Cardinality(InHand(d))
    BY <2>4, FS_RemoveElement
  <2>6. Cardinality(InHand(d) \ {t}) \in Nat
    BY <2>5, FS_CardinalityType
  <2> QED
    BY <2>1, <2>3, <2>4, <2>5, <2>6
<1>6. Conserved'
  <2> SUFFICES ASSUME NEW d \in Tasks
               PROVE  sent'[d] = (IF ToPush(d)' THEN 1 ELSE 0) + Cardinality(InFifo(d)')
                                 + Cardinality(InHand(d)') + wire'[d] + dropped'[d]
                                 + lost'[d]
    BY DEF Conserved
  <2>1. /\ Cardinality(InFifo(d)) \in Nat /\ Cardinality(InHand(d)) \in Nat
        /\ sent[d] \in Nat /\ wire[d] \in Nat /\ dropped[d] \in Nat /\ lost[d] \in Nat
    BY CountTypes
  <2>2. sent[d] = (IF ToPush(d) THEN 1 ELSE 0) + Cardinality(InFifo(d))
                  + Cardinality(InHand(d)) + wire[d] + dropped[d] + lost[d]
    BY DEF SerialCounted, Conserved
  <2> QED
    BY <1>2, <1>3, <1>4, <1>5, <2>1, <2>2
<1>7. \A d \in Tasks : IsFiniteSet(InHand(d))' /\ (st'[d].pc = "push" => st'[d].ret = "push")
  BY <1>1, <1>5 DEF SerialCounted, SerialStep
<1> QED
  BY <1>6, <1>7 DEF SerialCounted

\* Nothing is written, queued or sent when the port is opened.
LEMMA InitCounts == SerialInit => SerialCounted
<1> SUFFICES ASSUME SerialInit PROVE SerialCounted
  OBVIOUS
<1>1. tx.head = 0 /\ tx.tail = 0
  BY DEF SerialInit, fifo_init
<1>2. Used(tx) = 0
  BY <1>1 DEF Used
<1>a. \A t \in Tasks : st[t] = Idle
  BY DEF SerialInit
<1>3. \A t \in Tasks : st[t].pc = "idle"
  BY <1>a DEF Idle
<1>4. \A t \in Tasks : InFifo(t) = {} /\ InHand(t) = {} /\ ~ToPush(t)
  BY <1>2, <1>3 DEF InFifo, InHand, ToPush
<1>5. IsFiniteSet({}) /\ Cardinality({}) = 0
  BY FS_EmptySet
<1>6. \A t \in Tasks : sent[t] = 0 /\ wire[t] = 0 /\ dropped[t] = 0 /\ lost[t] = 0
  BY DEF SerialInit
<1>7. Conserved
  BY <1>4, <1>5, <1>6 DEF Conserved
<1>8. \A t \in Tasks : IsFiniteSet(InHand(t)) /\ (st[t].pc = "push" => st[t].ret = "push")
  BY <1>3, <1>4, <1>5
<1> QED
  BY <1>7, <1>8 DEF SerialCounted

\* Every byte is at one place on its way through serial_putchar, fifo_push and the
\* polling txStart, however the tasks that write to the port interleave: each one that
\* was passed in is to be pushed, in the FIFO, popped, or sent.  It is lost only by a push
\* that found the FIFO full, or by the driver that gave the UART up, and none is sent twice.
THEOREM SerialConserves == SerialSpec => []Conserved
<1>1. SerialInv /\ SerialCounted /\ [SerialNext]_serialVars => SerialCounted'
  <2> SUFFICES ASSUME SerialInv, SerialCounted, [SerialNext]_serialVars PROVE SerialCounted'
    OBVIOUS
  <2>1. SerialTypeOK
    BY DEF SerialInv
  <2>2. CASE SerialNext
    BY <2>1, <2>2, PutCharCounts, PushCounts, TestCounts, PopCounts, WriteCounts
    DEF SerialNext, Drive, TxStart
  <2>3. CASE UNCHANGED serialVars
    BY <2>3 DEF serialVars, SerialCounted, Conserved, ToPush, InFifo, InHand
  <2> QED
    BY <2>2, <2>3
<1>2. SerialInv /\ [SerialNext]_serialVars => SerialInv'
  BY SerialStepInv, SerialUnchanged DEF SerialNext
<1>3. SerialCounted => Conserved
  BY DEF SerialCounted
<1> QED
  BY <1>1, <1>2, <1>3, SerialInitInv, InitCounts, PTL DEF SerialSpec

-----------------------------------------------------------------------------
(* The console                                                               *)

\* Every step of the console is a step of the transmit side or leaves it alone, so that
\* what holds of any tasks that use the port holds of these.
LEMMA ConsoleStep == [Next]_vars => [SerialNext]_serialVars
<1> SUFFICES ASSUME [Next]_vars PROVE SerialNext \/ UNCHANGED serialVars
  OBVIOUS
<1>1. "console" \in Tasks /\ "at" \in Tasks /\ "log" \in Tasks
  BY ConsoleAssumption
<1>2. CASE \E k \in Kinds : RecvDataIrq(k)
  BY <1>2 DEF RecvDataIrq, serialVars
<1>3. CASE ConsoleTask
  BY <1>1, <1>3
  DEF ConsoleTask, SemWait, RxLoad, RxTest, RxPop, EchoChar, Store, SendCmd, ExeDone,
      serialVars, SerialNext
<1>4. CASE AtTask
  BY <1>1, <1>4 DEF AtTask, AtReceive, AtExecute, AtRelease, serialVars, SerialNext
<1>5. CASE LogChar
  BY <1>1, <1>5 DEF LogChar, SerialNext
<1>6. CASE \E t \in Tasks : Transmit(t)
  BY <1>6 DEF Transmit, SerialNext
<1>7. CASE UNCHANGED vars
  BY <1>7 DEF vars, serialVars
<1> QED
  BY <1>2, <1>3, <1>4, <1>5, <1>6, <1>7 DEF Next

\* The console implements the transmit side on its own.
THEOREM ConsoleTransmits == Spec => SerialSpec
  BY ConsoleStep, PTL DEF Spec, SerialSpec, Init

\* No byte of an echo, an answer or a log line waits in the transmit FIFO for the next
\* call of serial_putchar.
THEOREM ConsoleNeverStranded == Spec => []NeverStranded
  BY ConsoleTransmits, SerialNeverStranded, PTL

\* The same of the console: what the echo, the AT task and the log write is neither lost
\* nor doubled before the UART.
THEOREM ConsoleConserves == Spec => []Conserved
  BY ConsoleTransmits, SerialConserves, PTL

\* The receive FIFO holds bytes that were received.
RxReal == \A i \in 1 .. Used(rx) : Content(rx)[i] \in RxByte

\* A load from an empty FIFO tells: while it is empty the value is that of both indices.
RxKnown == con.pc \in {"test", "gettest"} /\ fifo_isempty(rx) => con.val = rx.head

\* The byte that is echoed and stored is one that was received.
ChReal == con.pc \in {"echo", "store"} => con.ch \in RxByte

\* The message, the AT task at work and the semaphore: one of them at a time, and only
\* while the console task waits.
Handshake ==
    \/ con.pc # "exe" /\ atQueue = <<>> /\ at = "wait" /\ done = 0
    \/ con.pc = "exe" /\ atQueue = <<"cmd_line">> /\ at = "wait" /\ done = 0
    \/ con.pc = "exe" /\ atQueue = <<>> /\ at # "wait" /\ done = 0
    \/ con.pc = "exe" /\ atQueue = <<>> /\ at = "wait" /\ done = 1

\* The receive side
RxInv == /\ rx \in Ring(RxSize, RxByte \cup {Nul}) /\ rxSem \in 0 .. MaxSem
         /\ con \in [pc : {"wait", "load", "test", "getload", "gettest", "pop",
                           "echo", "store", "send", "exe"},
                     reg : {"head", "tail"}, val : 0 .. RxSize - 1, ch : RxByte \cup {Nul}]
         /\ received \in Seq(RxByte)
         /\ RxReal /\ RxKnown /\ ChReal /\ NoEmptyRead

\* The lines
LineInv == /\ line \in Seq(RxByte) /\ cmdLine \in Seq(RxByte) /\ echo \in BOOLEAN
           /\ atQueue \in Seq({"cmd_line"}) /\ at \in {"wait", "parse", "answer"}
           /\ done \in {0, 1} /\ executed \in Seq(Seq(RxByte)) /\ discarded \in BOOLEAN
           /\ Handshake

\* What one step of the console needs to know of the step before
Inv == SerialInv /\ RxInv /\ LineInv

\* The properties of the runs are parts of the invariant.
LEMMA InvImplies == Inv => TypeOK /\ NoEmptyRead /\ Handshake
  BY DEF Inv, SerialInv, RxInv, LineInv, TypeOK

\* The state that console_init leaves
LEMMA InitInv == Init => Inv
<1> SUFFICES ASSUME Init PROVE Inv
  OBVIOUS
<1>1. SerialInv
  BY SerialInitInv DEF Init
<1>2. rx \in Ring(RxSize, RxByte \cup {Nul}) /\ rx.head = 0 /\ rx.tail = 0 /\ rx.end = RxSize - 1
  BY ConsoleAssumption DEF Init, fifo_init, Ring
<1>3. Used(rx) = 0
  BY <1>2, ConsoleAssumption DEF Used
<1>4. RxReal
  BY <1>3 DEF RxReal
<1>5. con = [pc |-> "wait", reg |-> "head", val |-> 0, ch |-> Nul] /\ 0 \in 0 .. RxSize - 1
  BY ConsoleAssumption DEF Init
<1>6. RxInv
  BY <1>2, <1>4, <1>5 DEF Init, RxInv, RxKnown, ChReal, NoEmptyRead, MaxSem
<1>7. LineInv
  <2>1. \A S : <<>> \in Seq(S)
    OBVIOUS
  <2>2. /\ line = <<>> /\ cmdLine = <<>> /\ atQueue = <<>> /\ executed = <<>>
        /\ echo \in BOOLEAN /\ at = "wait" /\ done = 0 /\ discarded \in BOOLEAN
    BY ConsoleAssumption DEF Init
  <2>3. Handshake
    BY <1>5, <2>2 DEF Handshake
  <2> QED
    BY <2>1, <2>2, <2>3 DEF LineInv
<1> QED
  BY <1>1, <1>6, <1>7 DEF Inv

\* A push after a flush of a full ring keeps what is in the ring real and leaves a byte
\* in it.
LEMMA RxPush ==
    ASSUME RxInv, NEW b \in RxByte
    PROVE  LET g == fifo_push(IF fifo_isfull(rx) THEN fifo_flush(rx) ELSE rx, b)
           IN  /\ g \in Ring(RxSize, RxByte \cup {Nul}) /\ ~fifo_isempty(g)
               /\ \A i \in 1 .. Used(g) : Content(g)[i] \in RxByte
<1> DEFINE f == IF fifo_isfull(rx) THEN fifo_flush(rx) ELSE rx
           g == fifo_push(f, b)
<1>1. RxSize \in Nat /\ RxSize > 1 /\ b \in RxByte \cup {Nul}
  BY ConsoleAssumption
<1>2. f \in Ring(RxSize, RxByte \cup {Nul}) /\ ~fifo_isfull(f)
  BY <1>1, RingFacts DEF RxInv
<1>3. Used(f) \in Int /\ \A i \in 1 .. Used(f) : Content(f)[i] \in RxByte
  <2>1. CASE fifo_isfull(rx)
    <3>1. f.head = 0 /\ f.tail = 0
      BY <2>1 DEF fifo_flush, RxInv, Ring
    <3>2. Used(f) = 0
      BY <3>1 DEF Used
    <3> QED
      BY <3>2
  <2>2. CASE ~fifo_isfull(rx)
    <3>1. PICK h \in 0 .. RxSize - 1, t \in 0 .. RxSize - 1 :
              f.head = h /\ f.tail = t /\ f.end = RxSize - 1
      BY <1>2 DEF Ring
    <3>2. Used(f) \in Int
      BY <1>1, <3>1, UsedIs
    <3> QED
      BY <2>2, <3>2 DEF RxInv, RxReal
  <2> QED
    BY <2>1, <2>2
<1> HIDE DEF f
<1>4. g \in Ring(RxSize, RxByte \cup {Nul}) /\ ~fifo_isempty(g)
  BY <1>1, <1>2, RingFacts
<1>5. /\ Used(g) = Used(f) + 1
      /\ \A i \in 1 .. Used(f) : Content(g)[i] = Content(f)[i]
      /\ Content(g)[Used(f) + 1] = b
  BY <1>1, <1>2, PushAppends
<1>6. \A i \in 1 .. Used(g) : Content(g)[i] \in RxByte
  <2>1. SUFFICES ASSUME NEW i \in 1 .. Used(f) + 1 PROVE Content(g)[i] \in RxByte
    BY <1>5
  <2>2. i \in 1 .. Used(f) \/ i = Used(f) + 1
    BY <1>3
  <2> QED
    BY <1>3, <1>5, <2>2
<1> QED
  BY <1>4, <1>6 DEF f

\* What an assignment to the place of the console task leaves of its record
LEMMA ConFacts ==
    ASSUME RxInv,
           NEW p \in {"wait", "load", "test", "getload", "gettest", "pop", "echo", "store",
                      "send", "exe"},
           con' = [con EXCEPT !.pc = p]
    PROVE  /\ con'.pc = p /\ con'.ch = con.ch /\ con'.val = con.val
           /\ con' \in [pc : {"wait", "load", "test", "getload", "gettest", "pop",
                              "echo", "store", "send", "exe"},
                        reg : {"head", "tail"}, val : 0 .. RxSize - 1, ch : RxByte \cup {Nul}]
  BY DEF RxInv

\* A step to such a place, with the FIFO as it was, keeps RxInv, if the place says
\* nothing of the FIFO.
LEMMA RxAside ==
    ASSUME RxInv,
           NEW p \in {"wait", "load", "getload", "store", "send", "exe"},
           con' = [con EXCEPT !.pc = p], p = "store" => con.pc = "echo",
           rxSem' \in 0 .. MaxSem, UNCHANGED <<rx, received>>
    PROVE  RxInv'
<1>1. /\ con'.pc = p /\ con'.ch = con.ch
      /\ con' \in [pc : {"wait", "load", "test", "getload", "gettest", "pop",
                         "echo", "store", "send", "exe"},
                   reg : {"head", "tail"}, val : 0 .. RxSize - 1, ch : RxByte \cup {Nul}]
  BY ConFacts
<1>2. ChReal'
  BY <1>1 DEF RxInv, ChReal
<1>3. RxKnown' /\ NoEmptyRead'
  BY <1>1 DEF RxKnown, NoEmptyRead
<1>4. RxReal'
  BY DEF RxInv, RxReal, Used, Content, Cell
<1> QED
  BY <1>1, <1>2, <1>3, <1>4 DEF RxInv

\* Nothing of the receive side changes.
LEMMA RxSame == RxInv /\ UNCHANGED <<rxVars, con>> => RxInv'
<1> SUFFICES ASSUME RxInv, UNCHANGED <<rxVars, con>> PROVE RxInv'
  OBVIOUS
<1>1. rx' = rx /\ rxSem' = rxSem /\ received' = received /\ con' = con
  BY DEF rxVars
<1>2. RxReal'
  BY <1>1 DEF RxInv, RxReal, Used, Content, Cell
<1> QED
  BY <1>1, <1>2 DEF RxInv, RxKnown, ChReal, NoEmptyRead, fifo_isempty

\* Nothing of the lines changes, and the console task is neither at the end of a command
\* nor begins one.
LEMMA LineSame ==
    ASSUME LineInv, UNCHANGED lineVars, (con.pc = "exe") <=> (con'.pc = "exe"),
           discarded' \in BOOLEAN
    PROVE  LineInv'
<1>1. Handshake'
  BY DEF LineInv, lineVars, Handshake
<1> QED
  BY <1>1 DEF LineInv, lineVars

\* The receive interrupt
LEMMA IrqInv == ASSUME RxInv, LineInv, NEW k \in Kinds, RecvDataIrq(k) PROVE RxInv' /\ LineInv'
<1> DEFINE b == <<k, Len(received) + 1>>
           g == fifo_push(IF fifo_isfull(rx) THEN fifo_flush(rx) ELSE rx, b)
<1>1. b \in RxByte
  BY ConsoleAssumption DEF RecvDataIrq, RxByte, RxInv
<1>2. /\ rx' = g /\ received' = Append(received, b) /\ con' = con /\ UNCHANGED lineVars
      /\ rxSem' = IF (SignalAll \/ k = "lf") /\ rxSem < MaxSem THEN rxSem + 1 ELSE rxSem
      /\ discarded' \in BOOLEAN
  BY DEF RecvDataIrq
<1>3. /\ g \in Ring(RxSize, RxByte \cup {Nul}) /\ ~fifo_isempty(g)
      /\ \A i \in 1 .. Used(g) : Content(g)[i] \in RxByte
  BY <1>1, RxPush
<1>4. rxSem' \in 0 .. MaxSem
  BY <1>2 DEF RxInv, MaxSem
<1>5. received' \in Seq(RxByte)
  BY <1>1, <1>2 DEF RxInv
<1> HIDE DEF g
<1>6. RxReal'
  <2>1. Used(rx') = Used(g) /\ Content(rx') = Content(g)
    BY <1>2
  <2> QED
    BY <1>3, <2>1 DEF RxReal, Used, Content, Cell
<1>7. ~fifo_isempty(rx)'
  BY <1>2, <1>3 DEF fifo_isempty
<1>8. RxKnown' /\ NoEmptyRead' /\ ChReal'
  BY <1>2, <1>7 DEF RxInv, RxKnown, NoEmptyRead, ChReal
<1>9. RxInv'
  BY <1>2, <1>3, <1>4, <1>5, <1>6, <1>8 DEF RxInv
<1>10. LineInv'
  BY <1>2, LineSame
<1> QED
  BY <1>9, <1>10

\* The first load from the receive FIFO
LEMMA RxLoadInv == RxInv /\ LineInv /\ RxLoad => RxInv' /\ LineInv'
<1> SUFFICES ASSUME RxInv, LineInv, RxLoad PROVE RxInv' /\ LineInv'
  OBVIOUS
<1>1. PICK r \in {"head", "tail"} :
          con' = [con EXCEPT !.pc = IF @ = "load" THEN "test" ELSE "gettest", !.reg = r,
                             !.val = IF r = "head" THEN rx.head ELSE rx.tail]
  BY DEF RxLoad
<1>2. con.pc \in {"load", "getload"} /\ UNCHANGED <<rxVars, discarded, lineVars>>
  BY DEF RxLoad
<1>3. rx' = rx /\ rxSem' = rxSem /\ received' = received
  BY <1>2 DEF rxVars
<1>4. /\ con' \in [pc : {"wait", "load", "test", "getload", "gettest", "pop",
                         "echo", "store", "send", "exe"},
                   reg : {"head", "tail"}, val : 0 .. RxSize - 1, ch : RxByte \cup {Nul}]
      /\ con'.pc \in {"test", "gettest"}
      /\ con'.val = IF r = "head" THEN rx.head ELSE rx.tail
  BY <1>1, <1>2 DEF RxInv, Ring
<1>5. RxKnown'
  BY <1>3, <1>4 DEF RxKnown, fifo_isempty
<1>6. RxReal'
  BY <1>3 DEF RxInv, RxReal, Used, Content, Cell
<1>7. RxInv'
  BY <1>3, <1>4, <1>5, <1>6 DEF RxInv, ChReal, NoEmptyRead
<1>8. LineInv'
  <2>1. (con.pc = "exe") <=> (con'.pc = "exe")
    BY <1>2, <1>4
  <2>2. discarded' \in BOOLEAN
    BY <1>2 DEF LineInv
  <2> QED
    BY <1>2, <2>1, <2>2, LineSame
<1> QED
  BY <1>7, <1>8

\* The second load and the test: a FIFO that is empty is found empty.
LEMMA RxTestInv == RxInv /\ LineInv /\ RxTest => RxInv' /\ LineInv'
<1> SUFFICES ASSUME RxInv, LineInv, RxTest PROVE RxInv' /\ LineInv'
  OBVIOUS
<1> DEFINE p == IF con.pc = "test" THEN IF RxSaysEmpty THEN "wait" ELSE "getload"
                ELSE IF RxSaysEmpty THEN "load" ELSE "pop"
<1>1. con.pc \in {"test", "gettest"} /\ UNCHANGED <<rxVars, discarded, lineVars>>
  BY DEF RxTest
<1>2. rx' = rx /\ rxSem' = rxSem /\ received' = received
  BY <1>1 DEF rxVars
<1>3. con' = [con EXCEPT !.pc = p, !.reg = "head", !.val = 0]
  BY DEF RxTest
<1>4. /\ con'.pc = p /\ con'.ch = con.ch
      /\ con' \in [pc : {"wait", "load", "test", "getload", "gettest", "pop",
                         "echo", "store", "send", "exe"},
                   reg : {"head", "tail"}, val : 0 .. RxSize - 1, ch : RxByte \cup {Nul}]
  <2>1. 0 \in 0 .. RxSize - 1
    BY ConsoleAssumption
  <2>2. p \in {"wait", "load", "getload", "pop"}
    OBVIOUS
  <2> HIDE DEF p
  <2> QED
    BY <1>3, <2>1, <2>2 DEF RxInv
<1>5. p = "pop" => ~fifo_isempty(rx)
  BY <1>1 DEF RxInv, RxKnown, RxSaysEmpty, fifo_isempty
<1>6. RxReal'
  BY <1>2 DEF RxInv, RxReal, Used, Content, Cell
<1>7. RxKnown' /\ ChReal' /\ NoEmptyRead'
  BY <1>2, <1>4, <1>5 DEF RxKnown, ChReal, NoEmptyRead, fifo_isempty
<1>8. RxInv'
  BY <1>2, <1>4, <1>6, <1>7 DEF RxInv
<1>9. LineInv'
  <2>1. (con.pc = "exe") <=> (con'.pc = "exe")
    BY <1>1, <1>4
  <2>2. discarded' \in BOOLEAN
    BY <1>1 DEF LineInv
  <2> QED
    BY <1>1, <2>1, <2>2, LineSame
<1> QED
  BY <1>8, <1>9

\* The pop: the byte it takes is one that was received.
LEMMA RxPopInv == RxInv /\ LineInv /\ RxPop => RxInv' /\ LineInv'
<1> SUFFICES ASSUME RxInv, LineInv, RxPop PROVE RxInv' /\ LineInv'
  OBVIOUS
<1> DEFINE g == fifo_pop(rx)
           c == fifo_first(rx)
           p == IF echo THEN "echo" ELSE "store"
<1>1. /\ con.pc = "pop" /\ rx' = g /\ con' = [con EXCEPT !.pc = p, !.ch = c]
      /\ UNCHANGED <<rxSem, received, discarded, lineVars>>
  BY DEF RxPop
<1>2. ~fifo_isempty(rx)
  BY <1>1 DEF RxInv, NoEmptyRead
<1>3. RxSize \in Nat /\ RxSize > 1 /\ Nul \in RxByte \cup {Nul}
  BY ConsoleAssumption
<1>4. /\ Used(rx) \in Nat \ {0} /\ Used(g) = Used(rx) - 1 /\ c = Content(rx)[1]
      /\ \A i \in 1 .. Used(rx) - 1 : Content(g)[i] = Content(rx)[i + 1]
  BY <1>2, <1>3, PopTakesFirst DEF RxInv
<1>5. g \in Ring(RxSize, RxByte \cup {Nul})
  BY <1>3, RingFacts DEF RxInv
<1>6. \A i \in 1 .. Used(rx) : Content(rx)[i] \in RxByte
  BY DEF RxInv, RxReal
<1>7. c \in RxByte
  BY <1>4, <1>6
<1>8. \A i \in 1 .. Used(g) : Content(g)[i] \in RxByte
  <2>1. SUFFICES ASSUME NEW i \in 1 .. Used(rx) - 1 PROVE Content(g)[i] \in RxByte
    BY <1>4
  <2>2. i + 1 \in 1 .. Used(rx)
    BY <1>4
  <2> QED
    BY <1>4, <1>6, <2>2
<1> HIDE DEF g, c
<1>9. RxReal'
  <2>1. Used(rx') = Used(g) /\ Content(rx') = Content(g)
    BY <1>1
  <2> QED
    BY <1>8, <2>1 DEF RxReal, Used, Content, Cell
<1>10. /\ con' \in [pc : {"wait", "load", "test", "getload", "gettest", "pop",
                          "echo", "store", "send", "exe"},
                    reg : {"head", "tail"}, val : 0 .. RxSize - 1, ch : RxByte \cup {Nul}]
       /\ con'.pc \in {"echo", "store"} /\ con'.ch = c
  BY <1>1, <1>7 DEF RxInv
<1>11. RxInv'
  BY <1>1, <1>5, <1>7, <1>9, <1>10 DEF RxInv, RxKnown, ChReal, NoEmptyRead
<1>12. LineInv'
  <2>1. (con.pc = "exe") <=> (con'.pc = "exe")
    BY <1>1, <1>10
  <2>2. discarded' \in BOOLEAN
    BY <1>1 DEF LineInv
  <2> QED
    BY <1>1, <2>1, <2>2, LineSame
<1> QED
  BY <1>11, <1>12

\* lookup_cmd_line: the byte becomes part of the line, which is handed on or cleared.
LEMMA StoreInv == RxInv /\ LineInv /\ Store => RxInv' /\ LineInv'
<1> SUFFICES ASSUME RxInv, LineInv, Store PROVE RxInv' /\ LineInv'
  OBVIOUS
<1> DEFINE new == Append(line, con.ch)
<1>1. /\ con.pc = "store" /\ UNCHANGED <<rxVars, echo, atQueue, at, done, executed>>
  BY DEF Store
<1>2. new \in Seq(RxByte) /\ <<>> \in Seq(RxByte)
  BY <1>1 DEF RxInv, LineInv, ChReal
<1>3. PICK p \in {"load", "send"} : con' = [con EXCEPT !.pc = p]
  BY DEF Store
<1>4. line' \in Seq(RxByte) /\ cmdLine' \in Seq(RxByte) /\ discarded' \in BOOLEAN
  <2> HIDE DEF new
  <2>1. line' \in {<<>>, new} /\ cmdLine' \in {cmdLine, new}
    BY DEF Store, new
  <2>2. discarded' \in {discarded, TRUE}
    BY DEF Store
  <2> QED
    BY <1>2, <2>1, <2>2 DEF LineInv
<1>5. RxInv'
  <2>1. rx' = rx /\ rxSem' = rxSem /\ received' = received
    BY <1>1 DEF rxVars
  <2>2. rxSem' \in 0 .. MaxSem
    BY <2>1 DEF RxInv
  <2> QED
    BY <1>3, <2>1, <2>2, RxAside
<1>6. con'.pc = p
  BY <1>3, ConFacts
<1>7. Handshake'
  BY <1>1, <1>6 DEF LineInv, Handshake
<1>8. LineInv'
  BY <1>1, <1>4, <1>7 DEF LineInv
<1> QED
  BY <1>5, <1>8

\* The steps of the console task that only go from one place to the next
LEMMA SemWaitInv == RxInv /\ LineInv /\ (SemWait \/ EchoChar) => RxInv' /\ LineInv'
<1> SUFFICES ASSUME RxInv, LineInv, SemWait \/ EchoChar PROVE RxInv' /\ LineInv'
  OBVIOUS
<1>1. PICK p \in {"load", "store"} :
          /\ con' = [con EXCEPT !.pc = p] /\ (p = "store" => con.pc = "echo")
          /\ con.pc # "exe" /\ UNCHANGED <<rx, received, discarded, lineVars>>
  BY DEF SemWait, EchoChar, rxVars
<1>2. rxSem' \in 0 .. MaxSem
  <2>1. rxSem' \in {rxSem, rxSem - 1} /\ (rxSem' = rxSem - 1 => rxSem > 0 \/ rxSem' = rxSem)
    BY DEF SemWait, EchoChar, rxVars
  <2>2. rxSem \in 0 .. 1024
    BY DEF RxInv, MaxSem
  <2>3. rxSem' \in 0 .. 1024
    BY <2>1, <2>2
  <2> QED
    BY <2>3 DEF MaxSem
<1>3. RxInv'
  BY <1>1, <1>2, RxAside
<1>4. con'.pc = p
  BY <1>1, ConFacts
<1>5. discarded' \in BOOLEAN
  BY <1>1 DEF LineInv
<1> QED
  BY <1>1, <1>3, <1>4, <1>5, LineSame

\* console_exe_command, before and after its wait
LEMMA ExeInv == RxInv /\ LineInv /\ (SendCmd \/ ExeDone) => RxInv' /\ LineInv'
<1> SUFFICES ASSUME RxInv, LineInv, SendCmd \/ ExeDone PROVE RxInv' /\ LineInv'
  OBVIOUS
<1>1. UNCHANGED <<rx, rxSem, received, cmdLine, echo, at, executed, discarded>>
  BY DEF SendCmd, ExeDone, rxVars
<1>2. rxSem' \in 0 .. MaxSem
  BY <1>1 DEF RxInv
<1>3. CASE SendCmd
  <2>1. /\ con.pc = "send" /\ con' = [con EXCEPT !.pc = "exe"]
        /\ atQueue' = Append(atQueue, "cmd_line") /\ UNCHANGED <<line, done>>
    BY <1>3 DEF SendCmd
  <2>2. RxInv' /\ con'.pc = "exe"
    BY <1>1, <1>2, <2>1, RxAside, ConFacts
  <2>3. atQueue = <<>> /\ at = "wait" /\ done = 0
    BY <2>1 DEF LineInv, Handshake
  <2>4. atQueue' = <<"cmd_line">> /\ atQueue' \in Seq({"cmd_line"})
    BY <2>1, <2>3
  <2>5. Handshake'
    BY <1>1, <2>1, <2>2, <2>3, <2>4 DEF Handshake
  <2>6. LineInv'
    BY <1>1, <2>1, <2>4, <2>5 DEF LineInv
  <2> QED
    BY <2>2, <2>6
<1>4. CASE ExeDone
  <2>1. /\ con.pc = "exe" /\ con' = [con EXCEPT !.pc = "load"] /\ done = 1 /\ done' = 0
        /\ line' = <<>> /\ UNCHANGED atQueue
    BY <1>4 DEF ExeDone
  <2>2. RxInv' /\ con'.pc = "load"
    BY <1>1, <1>2, <2>1, RxAside, ConFacts
  <2>3. Handshake'
    BY <1>1, <2>1, <2>2 DEF LineInv, Handshake
  <2>4. line' \in Seq(RxByte)
    BY <2>1
  <2>5. LineInv'
    BY <1>1, <2>1, <2>3, <2>4 DEF LineInv
  <2> QED
    BY <2>2, <2>5
<1> QED
  BY <1>3, <1>4

\* The AT task
LEMMA AtInv == RxInv /\ LineInv /\ AtTask => RxInv' /\ LineInv'
<1> SUFFICES ASSUME RxInv, LineInv, AtTask PROVE RxInv' /\ LineInv'
  OBVIOUS
<1>1. UNCHANGED <<rxVars, con, line, cmdLine, discarded>>
  BY DEF AtTask, AtReceive, AtExecute, AtRelease
<1>2. RxInv'
  BY <1>1, RxSame
<1>3. CASE AtReceive
  <2>1. /\ at = "wait" /\ atQueue # <<>> /\ atQueue' = Tail(atQueue) /\ at' = "parse"
        /\ UNCHANGED <<echo, done, executed>>
    BY <1>3 DEF AtReceive
  <2>2. con.pc = "exe" /\ atQueue = <<"cmd_line">> /\ done = 0
    BY <2>1 DEF LineInv, Handshake
  <2>3. atQueue' = <<>> /\ atQueue' \in Seq({"cmd_line"})
    BY <2>1, <2>2
  <2>4. Handshake'
    BY <1>1, <2>1, <2>2, <2>3 DEF Handshake
  <2> QED
    BY <1>1, <1>2, <2>1, <2>3, <2>4 DEF LineInv
<1>4. CASE AtExecute
  <2>1. /\ at = "parse" /\ at' = "answer" /\ executed' = Append(executed, cmdLine)
        /\ echo' \in BOOLEAN /\ UNCHANGED <<atQueue, done>>
    BY <1>4 DEF AtExecute
  <2>2. executed' \in Seq(Seq(RxByte))
    BY <2>1 DEF LineInv
  <2>3. Handshake'
    BY <1>1, <2>1 DEF LineInv, Handshake
  <2> QED
    BY <1>1, <1>2, <2>1, <2>2, <2>3 DEF LineInv
<1>5. CASE AtRelease
  <2>1. at = "answer" /\ at' = "wait" /\ done' = 1 /\ UNCHANGED <<echo, atQueue, executed>>
    BY <1>5 DEF AtRelease
  <2>2. Handshake'
    BY <1>1, <2>1 DEF LineInv, Handshake
  <2> QED
    BY <1>1, <1>2, <2>1, <2>2 DEF LineInv
<1> QED
  BY <1>3, <1>4, <1>5 DEF AtTask

\* Every step keeps the invariant.
LEMMA StepInv == Inv /\ [Next]_vars => Inv'
<1> SUFFICES ASSUME Inv, [Next]_vars PROVE Inv'
  OBVIOUS
<1>1. SerialInv /\ RxInv /\ LineInv
  BY DEF Inv
<1>2. SerialInv'
  BY <1>1, ConsoleStep, SerialStepInv, SerialUnchanged DEF SerialNext
<1>3. CASE \E k \in Kinds : RecvDataIrq(k)
  BY <1>1, <1>2, <1>3, IrqInv DEF Inv
<1>4. CASE ConsoleTask
  BY <1>1, <1>2, <1>4, SemWaitInv, RxLoadInv, RxTestInv, RxPopInv, StoreInv, ExeInv
  DEF ConsoleTask, Inv
<1>5. CASE AtTask
  BY <1>1, <1>2, <1>5, AtInv DEF Inv
<1>6. CASE LogChar \/ (\E t \in Tasks : Transmit(t)) \/ UNCHANGED vars
  <2>1. UNCHANGED <<rxVars, con, discarded, lineVars>>
    BY <1>6 DEF LogChar, Transmit, vars, rxVars, lineVars
  <2>2. RxInv'
    BY <1>1, <2>1, RxSame
  <2>3. discarded' \in BOOLEAN /\ con' = con
    BY <1>1, <2>1 DEF LineInv
  <2>4. LineInv'
    BY <1>1, <2>1, <2>3, LineSame
  <2> QED
    BY <1>2, <2>2, <2>4 DEF Inv
<1> QED
  BY <1>3, <1>4, <1>5, <1>6 DEF Next

\* All that the tasks and the interrupt keep true together
THEOREM Invariance == Spec => []Inv
  BY InitInv, StepInv, PTL DEF Spec

\* The types: both rings stay rings, and a line holds received bytes only, never the 0
\* that fifo_pop returns for an empty ring.
THEOREM Types == Spec => []TypeOK
  BY Invariance, InvImplies, PTL

\* The console task never pops an empty ring, although it tests it with two unlocked
\* loads and the interrupt flushes it in between.
THEOREM NeverReadsEmpty == Spec => []NoEmptyRead
  BY Invariance, InvImplies, PTL

\* From the message to the release the console task waits and cmd_line stays as it is.
THEOREM LineStable == Spec => CmdLineStable
<1>1. Inv /\ [Next]_vars => [at # "wait" => con.pc = "exe" /\ cmdLine' = cmdLine]_vars
  <2> SUFFICES ASSUME Inv, Next, at # "wait" PROVE con.pc = "exe" /\ cmdLine' = cmdLine
    OBVIOUS
  <2>1. con.pc = "exe"
    BY DEF Inv, LineInv, Handshake
  <2>2. cmdLine' = cmdLine
    BY <2>1
    DEF Next, RecvDataIrq, ConsoleTask, SemWait, RxLoad, RxTest, RxPop, EchoChar, Store, SendCmd,
        ExeDone, AtTask, AtReceive, AtExecute, AtRelease, LogChar, Transmit, lineVars
  <2> QED
    BY <2>1, <2>2
<1> QED
  BY <1>1, Invariance, PTL DEF Spec, CmdLineStable

-----------------------------------------------------------------------------
(* The lines executed are the bytes received                                 *)

\* Where the bytes received are: the first b are in lines executed and in the line that
\* is collected, the next one is in the hands of the console task if h is 1, and the
\* others are in the FIFO.
FlowIs(rec, f, h, ch, b) ==
    /\ Len(rec) = b + h + Used(f)
    /\ \A i \in 1 .. Used(f) : Content(f)[i] = rec[b + h + i]
    /\ h = 1 => ch = rec[b + 1]

\* The line l is what follows the first e bytes.
LineIs(rec, l, e) == \A j \in 1 .. Len(l) : e + j <= Len(rec) /\ l[j] = rec[e + j]

\* The command in line has been executed, but the console task does not know it yet.
Ran == con.pc = "exe" /\ (at = "answer" \/ done = 1)
Held == IF con.pc \in {"echo", "store"} THEN 1 ELSE 0
Ends == EndOf(Len(executed))
Behind == Ends + (IF Ran THEN 0 ELSE Len(line))

\* A line that is to be executed has just come to its end, any other one has not.
Cut == IF con.pc \in {"send", "exe"}
       THEN cmdLine = line /\ EndsLine(line) /\ ~EndsLine(Front(line))
       ELSE ~EndsLine(line)

\* A byte carries its number.
Numbered == \A p \in 1 .. Len(received) : received[p][2] = p

\* The inductive invariant of CommandsExact
FlowInv ==
    /\ Numbered
    /\ ~discarded => /\ FlowIs(received, rx, Held, con.ch, Behind)
                     /\ ~Ran => LineIs(received, line, Ends)
                     /\ Cut
                     /\ CommandsExact

\* The ring of a flow has a number of bytes.
LEMMA UsedNat ==
    ASSUME NEW B, NEW f \in Ring(RxSize, B)
    PROVE  Used(f) \in Nat
<1>1. PICK h \in 0 .. RxSize - 1, t \in 0 .. RxSize - 1 :
          f.head = h /\ f.tail = t /\ f.end = RxSize - 1
  BY DEF Ring
<1>2. Used(f) = IF h <= t THEN t - h ELSE t + RxSize - h
  BY <1>1, UsedIs, ConsoleAssumption
<1> QED
  BY <1>1, <1>2, ConsoleAssumption

\* A byte that arrives goes to the end of the flow.
LEMMA FlowPush ==
    ASSUME NEW B, NEW f \in Ring(RxSize, B), ~fifo_isfull(f), NEW c \in B,
           NEW rec \in Seq(B), NEW h \in {0, 1}, NEW ch, NEW b \in Nat,
           FlowIs(rec, f, h, ch, b)
    PROVE  FlowIs(Append(rec, c), fifo_push(f, c), h, ch, b)
<1>1. PICK g, r, n : g = fifo_push(f, c) /\ r = Append(rec, c) /\ n = Used(f)
  OBVIOUS
<1>2. n \in Nat /\ Len(rec) = b + h + n /\ Len(rec) \in Nat
  BY <1>1, UsedNat DEF FlowIs
<1>3. /\ Used(g) = n + 1 /\ Content(g)[n + 1] = c
      /\ \A i \in 1 .. n : Content(g)[i] = Content(f)[i]
  BY <1>1, PushAppends, ConsoleAssumption
<1>4. Len(r) = Len(rec) + 1 /\ r[Len(rec) + 1] = c /\ \A p \in 1 .. Len(rec) : r[p] = rec[p]
  BY <1>1
<1>5. Len(r) = b + h + Used(g)
  BY <1>2, <1>3, <1>4
<1>6. ASSUME NEW i \in 1 .. Used(g) PROVE Content(g)[i] = r[b + h + i]
  <2>1. CASE i = n + 1
    <3>1. b + h + i = Len(rec) + 1
      BY <1>2, <2>1
    <3> QED
      BY <1>3, <1>4, <2>1, <3>1
  <2>2. CASE i \in 1 .. n
    <3>1. b + h + i \in 1 .. Len(rec)
      BY <1>2, <2>2
    <3>2. Content(f)[i] = rec[b + h + i]
      BY <1>1, <2>2 DEF FlowIs
    <3> QED
      BY <1>3, <1>4, <2>2, <3>1, <3>2
  <2>3. i = n + 1 \/ i \in 1 .. n
    BY <1>2, <1>3
  <2> QED
    BY <2>1, <2>2, <2>3
<1>7. h = 1 => ch = r[b + 1]
  <2>1. h = 1 => b + 1 \in 1 .. Len(rec)
    BY <1>2
  <2> QED
    BY <1>4, <2>1 DEF FlowIs
<1>8. FlowIs(r, g, h, ch, b)
  BY <1>5, <1>6, <1>7 DEF FlowIs
<1> QED
  BY <1>1, <1>8

\* A pop takes the byte that comes next.
LEMMA FlowPop ==
    ASSUME NEW B, NEW f \in Ring(RxSize, B), ~fifo_isempty(f),
           NEW rec \in Seq(B), NEW ch, NEW b \in Nat, FlowIs(rec, f, 0, ch, b)
    PROVE  FlowIs(rec, fifo_pop(f), 1, fifo_first(f), b)
<1>1. PICK g, n : g = fifo_pop(f) /\ n = Used(f)
  OBVIOUS
<1>2. /\ n \in Nat \ {0} /\ Used(g) = n - 1 /\ fifo_first(f) = Content(f)[1]
      /\ \A i \in 1 .. n - 1 : Content(g)[i] = Content(f)[i + 1]
  BY <1>1, PopTakesFirst, ConsoleAssumption
<1>3. Len(rec) = b + 0 + n /\ \A i \in 1 .. n : Content(f)[i] = rec[b + 0 + i]
  BY <1>1 DEF FlowIs
<1>4. \A i \in 1 .. n : Content(f)[i] = rec[b + i]
  <2>1. \A i \in 1 .. n : b + 0 + i = b + i
    BY <1>2
  <2> QED
    BY <1>3, <2>1
<1>5. Len(rec) = b + 1 + Used(g)
  BY <1>2, <1>3
<1>6. ASSUME NEW i \in 1 .. Used(g) PROVE Content(g)[i] = rec[b + 1 + i]
  <2>1. i \in 1 .. n - 1 /\ i + 1 \in 1 .. n /\ b + (i + 1) = b + 1 + i
    BY <1>2
  <2> QED
    BY <1>2, <1>4, <2>1
<1>7. fifo_first(f) = rec[b + 1]
  BY <1>2, <1>4
<1>8. FlowIs(rec, g, 1, fifo_first(f), b)
  BY <1>5, <1>6, <1>7 DEF FlowIs
<1> QED
  BY <1>1, <1>8

\* The byte in hand goes to the end of the line.
LEMMA FlowStore ==
    ASSUME NEW B, NEW f \in Ring(RxSize, B), NEW rec \in Seq(B), NEW ch \in B, NEW e \in Nat,
           NEW l \in Seq(B), FlowIs(rec, f, 1, ch, e + Len(l)), LineIs(rec, l, e), NEW c
    PROVE  /\ FlowIs(rec, f, 0, c, e + Len(Append(l, ch)))
           /\ LineIs(rec, Append(l, ch), e)
<1>1. PICK n, m, u : n = Append(l, ch) /\ m = Len(l) /\ u = Used(f)
  OBVIOUS
<1>2. /\ m \in Nat /\ u \in Nat /\ Len(n) = m + 1 /\ n[m + 1] = ch
      /\ \A j \in 1 .. m : n[j] = l[j]
  BY <1>1, UsedNat
<1>3. /\ Len(rec) = e + m + 1 + u /\ ch = rec[e + m + 1]
      /\ \A i \in 1 .. u : Content(f)[i] = rec[e + m + 1 + i]
  BY <1>1 DEF FlowIs
<1>4. Len(rec) = e + Len(n) + 0 + u /\ e + m + 1 <= Len(rec)
  BY <1>2, <1>3
<1>5. \A i \in 1 .. u : Content(f)[i] = rec[e + Len(n) + 0 + i]
  <2>1. \A i \in 1 .. u : e + Len(n) + 0 + i = e + m + 1 + i
    BY <1>2
  <2> QED
    BY <1>3, <2>1
<1>6. FlowIs(rec, f, 0, c, e + Len(n))
  BY <1>1, <1>4, <1>5 DEF FlowIs
<1>7. ASSUME NEW j \in 1 .. Len(n) PROVE e + j <= Len(rec) /\ n[j] = rec[e + j]
  <2>1. CASE j = m + 1
    <3>1. e + j = e + m + 1
      BY <1>2, <2>1
    <3> QED
      BY <1>2, <1>3, <1>4, <2>1, <3>1
  <2>2. CASE j \in 1 .. m
    BY <1>1, <1>2, <2>2 DEF LineIs
  <2>3. j = m + 1 \/ j \in 1 .. m
    BY <1>2
  <2> QED
    BY <2>1, <2>2, <2>3
<1>8. LineIs(rec, n, e)
  BY <1>7 DEF LineIs
<1> QED
  BY <1>1, <1>6, <1>8

\* Bytes that arrive later do not change a line.
LEMMA LineMore ==
    ASSUME NEW B, NEW rec \in Seq(B), NEW c \in B, NEW l \in Seq(B), NEW e \in Nat,
           LineIs(rec, l, e)
    PROVE  LineIs(Append(rec, c), l, e)
<1>1. PICK r : r = Append(rec, c)
  OBVIOUS
<1>2. /\ Len(r) = Len(rec) + 1 /\ Len(rec) \in Nat /\ Len(l) \in Nat
      /\ \A p \in 1 .. Len(rec) : r[p] = rec[p]
  BY <1>1
<1>3. ASSUME NEW j \in 1 .. Len(l) PROVE e + j <= Len(r) /\ l[j] = r[e + j]
  <2>1. e + j <= Len(rec) /\ l[j] = rec[e + j]
    BY DEF LineIs
  <2>2. e + j \in 1 .. Len(rec) /\ e + j <= Len(r)
    BY <1>2, <2>1
  <2> QED
    BY <1>2, <2>1, <2>2
<1>4. LineIs(r, l, e)
  BY <1>3 DEF LineIs
<1> QED
  BY <1>1, <1>4

\* Only a line feed ends a line, and the line without it has not ended.
LEMMA EndsAppend ==
    ASSUME NEW l \in Seq(RxByte), NEW c \in RxByte, ~EndsLine(l)
    PROVE  /\ EndsLine(Append(l, c)) => c[1] = "lf"
           /\ Front(Append(l, c)) = l
           /\ EndsLine(Append(l, c)) => Len(Append(l, c)) > 0
<1>1. PICK n : n = Append(l, c)
  OBVIOUS
<1>2. /\ Len(l) \in Nat /\ Len(n) = Len(l) + 1 /\ n[Len(l) + 1] = c
      /\ \A j \in 1 .. Len(l) : n[j] = l[j]
  BY <1>1
<1>3. ASSUME EndsLine(n) PROVE c[1] = "lf"
  <2>1. PICK i \in 1 .. Len(n) - 1 : /\ n[i][1] = "cr" /\ n[i + 1][1] = "lf"
                                     /\ \A j \in 1 .. i : n[j][1] # "nul"
    BY <1>3 DEF EndsLine
  <2>2. CASE i = Len(l)
    BY <1>2, <2>1, <2>2
  <2>3. CASE i < Len(l)
    <3>1. i \in 1 .. Len(l) - 1 /\ i \in 1 .. Len(l) /\ i + 1 \in 1 .. Len(l)
      BY <1>2, <2>1, <2>3
    <3>2. \A j \in 1 .. i : j \in 1 .. Len(l)
      BY <1>2, <3>1
    <3>3. l[i][1] = "cr" /\ l[i + 1][1] = "lf" /\ \A j \in 1 .. i : l[j][1] # "nul"
      BY <1>2, <2>1, <3>1, <3>2
    <3> QED
      BY <3>1, <3>3 DEF EndsLine
  <2> QED
    BY <1>2, <2>1, <2>2, <2>3
<1>4. Front(n) = l
  BY <1>1 DEF Front
<1> QED
  BY <1>1, <1>2, <1>3, <1>4

\* The bytes in the lines executed are a number.
LEMMA EndOfNat ==
    ASSUME LineInv, CommandsExact, ~discarded
    PROVE  \A i \in 0 .. Len(executed) : EndOf(i) \in Nat
<1> SUFFICES ASSUME NEW i \in 0 .. Len(executed) PROVE EndOf(i) \in Nat
  OBVIOUS
<1>1. CASE i = 0
  BY <1>1 DEF EndOf
<1>2. CASE i # 0
  <2>1. PICK l : l = executed[i]
    OBVIOUS
  <2>2. i \in DOMAIN executed /\ executed \in Seq(Seq(RxByte))
    BY <1>2 DEF LineInv
  <2>3. l \in Seq(RxByte) /\ EndsLine(l)
    BY <2>1, <2>2 DEF CommandsExact
  <2>4. Len(l) \in Nat /\ Len(l) > 0
    <3>1. Len(l) \in Nat
      BY <2>3
    <3>2. PICK p \in 1 .. Len(l) - 1 : TRUE
      BY <2>3 DEF EndsLine
    <3> QED
      BY <3>1, <3>2
  <2>5. l[Len(l)] \in RxByte
    BY <2>3, <2>4
  <2>6. l[Len(l)][2] \in Nat
    BY <2>5, ConsoleAssumption DEF RxByte
  <2> QED
    BY <1>2, <2>1, <2>6 DEF EndOf, Last
<1> QED
  BY <1>1, <1>2

\* What the step lemmas need of the types
LEMMA FlowTypes ==
    ASSUME RxInv, LineInv, FlowInv, ~discarded
    PROVE  /\ Ends \in Nat /\ Len(line) \in Nat /\ Behind \in Nat /\ Held \in {0, 1}
           /\ received \in Seq(RxByte) /\ line \in Seq(RxByte)
           /\ received \in Seq(RxByte \cup {Nul}) /\ line \in Seq(RxByte \cup {Nul})
           /\ rx \in Ring(RxSize, RxByte \cup {Nul})
<1>1. Ends \in Nat
  <2>1. Len(executed) \in 0 .. Len(executed)
    BY DEF LineInv
  <2> QED
    BY <2>1, EndOfNat DEF Ends, FlowInv
<1>2. line \in Seq(RxByte) /\ received \in Seq(RxByte)
  BY DEF LineInv, RxInv
<1>3. Len(line) \in Nat
  BY <1>2
<1>4. Behind \in Nat /\ Held \in {0, 1}
  BY <1>1, <1>3 DEF Behind, Held
<1>5. line \in Seq(RxByte \cup {Nul}) /\ received \in Seq(RxByte \cup {Nul})
  BY <1>2
<1> QED
  BY <1>1, <1>2, <1>3, <1>4, <1>5 DEF RxInv

\* Steps that move no byte and no line
LEMMA FlowSame ==
    ASSUME FlowInv, UNCHANGED <<rx, received, line, cmdLine, executed, discarded>>,
           Ran' <=> Ran, Held' = Held, Held = 1 => con'.ch = con.ch,
           con'.pc \in {"send", "exe"} <=> con.pc \in {"send", "exe"}
    PROVE  FlowInv'
<1>1. Numbered'
  BY DEF FlowInv, Numbered
<1>2. ASSUME ~discarded'
      PROVE  /\ FlowIs(received, rx, Held, con.ch, Behind)'
             /\ (~Ran => LineIs(received, line, Ends))' /\ Cut' /\ CommandsExact'
  <2>1. ~discarded
    BY <1>2
  <2>2. Ends' = Ends /\ Behind' = Behind
    BY DEF Ends, Behind, EndOf
  <2>3. FlowIs(received, rx, Held, con.ch, Behind)'
    BY <2>1, <2>2 DEF FlowInv, FlowIs
  <2>4. (~Ran => LineIs(received, line, Ends))'
    BY <2>1, <2>2 DEF FlowInv, LineIs
  <2>5. Cut'
    BY <2>1 DEF FlowInv, Cut
  <2>6. CommandsExact'
    BY <2>1 DEF FlowInv, CommandsExact, EndOf
  <2> QED
    BY <2>3, <2>4, <2>5, <2>6
<1> QED
  BY <1>1, <1>2 DEF FlowInv

\* The interrupt appends to the flow, or flushes, which counts as discarded.
LEMMA FlowIrq ==
    ASSUME RxInv, LineInv, FlowInv, NEW k \in Kinds, RecvDataIrq(k)
    PROVE  FlowInv'
<1>1. PICK b : b = <<k, Len(received) + 1>>
  OBVIOUS
<1>2. /\ Len(received) < MaxRx /\ received' = Append(received, b)
      /\ rx' = fifo_push(IF fifo_isfull(rx) THEN fifo_flush(rx) ELSE rx, b)
      /\ discarded' = (discarded \/ fifo_isfull(rx)) /\ con' = con
      /\ UNCHANGED <<line, cmdLine, at, done, executed>>
  BY <1>1 DEF RecvDataIrq, lineVars
<1>3. received \in Seq(RxByte) /\ Len(received) \in Nat
  BY DEF RxInv
<1>4. b \in RxByte /\ b \in RxByte \cup {Nul}
  BY <1>1, <1>2, <1>3, ConsoleAssumption DEF RxByte
<1>5. /\ Len(received') = Len(received) + 1 /\ received'[Len(received) + 1] = b
      /\ \A p \in 1 .. Len(received) : received'[p] = received[p]
  BY <1>2, <1>3
<1>6. Numbered'
  <2> SUFFICES ASSUME NEW p \in 1 .. Len(received) + 1 PROVE received'[p][2] = p
    BY <1>5 DEF Numbered
  <2>1. CASE p = Len(received) + 1
    BY <1>1, <1>5, <2>1
  <2>2. CASE p \in 1 .. Len(received)
    BY <1>5, <2>2 DEF FlowInv, Numbered
  <2> QED
    BY <1>3, <2>1, <2>2
<1>7. ASSUME ~discarded'
      PROVE  /\ FlowIs(received, rx, Held, con.ch, Behind)'
             /\ (~Ran => LineIs(received, line, Ends))' /\ Cut' /\ CommandsExact'
  <2>1. ~discarded /\ ~fifo_isfull(rx)
    BY <1>2, <1>7
  <2>2. /\ Ends' = Ends /\ Behind' = Behind /\ Held' = Held /\ (Ran' <=> Ran)
        /\ rx' = fifo_push(rx, b)
    BY <1>2, <2>1 DEF Ends, Behind, EndOf, Held, Ran
  <2>3. /\ Ends \in Nat /\ Behind \in Nat /\ Held \in {0, 1}
        /\ received \in Seq(RxByte \cup {Nul}) /\ line \in Seq(RxByte \cup {Nul})
        /\ rx \in Ring(RxSize, RxByte \cup {Nul})
    BY <2>1, FlowTypes
  <2>4. /\ FlowIs(received, rx, Held, con.ch, Behind) /\ Cut /\ CommandsExact
        /\ ~Ran => LineIs(received, line, Ends)
    BY <2>1 DEF FlowInv
  <2>5. FlowIs(Append(received, b), fifo_push(rx, b), Held, con.ch, Behind)
    BY <1>4, <2>1, <2>3, <2>4, FlowPush
  <2>6. ~Ran => LineIs(Append(received, b), line, Ends)
    BY <1>4, <2>3, <2>4, LineMore
  <2>7. FlowIs(received, rx, Held, con.ch, Behind)'
    BY <1>2, <2>2, <2>5
  <2>8. (~Ran => LineIs(received, line, Ends))'
    BY <1>2, <2>2, <2>6
  <2>9. Cut'
    BY <1>2, <2>4 DEF Cut
  <2>10. CommandsExact'
    <3> SUFFICES ASSUME NEW i \in DOMAIN executed
                 PROVE  /\ EndsLine(executed[i]) /\ ~EndsLine(Front(executed[i]))
                        /\ \A j \in DOMAIN executed[i] :
                               /\ EndOf(i - 1) + j <= Len(received')
                               /\ executed[i][j] = received'[EndOf(i - 1) + j]
      BY <1>2 DEF CommandsExact, EndOf
    <3>1. PICK l, e : l = executed[i] /\ e = EndOf(i - 1)
      OBVIOUS
    <3>2. /\ EndsLine(l) /\ ~EndsLine(Front(l))
          /\ \A j \in DOMAIN l : e + j <= Len(received) /\ l[j] = received[e + j]
      BY <2>1, <2>4, <3>1 DEF CommandsExact
    <3>3. e \in Nat /\ l \in Seq(RxByte)
      <4>1. i - 1 \in 0 .. Len(executed) /\ executed \in Seq(Seq(RxByte))
        BY DEF LineInv
      <4>2. e \in Nat
        BY <2>1, <2>4, <3>1, <4>1, EndOfNat
      <4> QED
        BY <3>1, <4>1, <4>2
    <3>4. \A j \in DOMAIN l : e + j \in 1 .. Len(received)
      BY <1>3, <3>2, <3>3
    <3>5. \A j \in DOMAIN l : e + j <= Len(received') /\ l[j] = received'[e + j]
      BY <1>3, <1>5, <3>2, <3>4
    <3> QED
      BY <3>1, <3>2, <3>5
  <2> QED
    BY <2>7, <2>8, <2>9, <2>10
<1> QED
  BY <1>6, <1>7 DEF FlowInv

\* The pop takes the byte that is due.
LEMMA FlowRxPop ==
    ASSUME RxInv, LineInv, FlowInv, RxPop
    PROVE  FlowInv'
<1> DEFINE p == IF echo THEN "echo" ELSE "store"
<1>1. /\ con.pc = "pop" /\ rx' = fifo_pop(rx)
      /\ con' = [con EXCEPT !.pc = p, !.ch = fifo_first(rx)]
      /\ UNCHANGED <<received, discarded, line, cmdLine, at, done, executed>>
  BY DEF RxPop, lineVars
<1>2. con'.pc \in {"echo", "store"} /\ con'.ch = fifo_first(rx)
  BY <1>1 DEF RxInv
<1>3. ~fifo_isempty(rx)
  BY <1>1 DEF RxInv, NoEmptyRead
<1>4. Numbered'
  BY <1>1 DEF FlowInv, Numbered
<1>5. ASSUME ~discarded'
      PROVE  /\ FlowIs(received, rx, Held, con.ch, Behind)'
             /\ (~Ran => LineIs(received, line, Ends))' /\ Cut' /\ CommandsExact'
  <2>1. ~discarded
    BY <1>1, <1>5
  <2>2. /\ Ends' = Ends /\ Behind' = Behind /\ Held = 0 /\ Held' = 1 /\ ~Ran /\ ~Ran'
    BY <1>1, <1>2 DEF Ends, Behind, EndOf, Held, Ran
  <2>3. /\ FlowIs(received, rx, 0, con.ch, Behind) /\ LineIs(received, line, Ends)
        /\ Cut /\ CommandsExact
    BY <2>1, <2>2 DEF FlowInv
  <2>4. /\ Behind \in Nat /\ received \in Seq(RxByte \cup {Nul})
        /\ rx \in Ring(RxSize, RxByte \cup {Nul})
    BY <2>1, FlowTypes
  <2>5. FlowIs(received, fifo_pop(rx), 1, fifo_first(rx), Behind)
    BY <1>3, <2>3, <2>4, FlowPop
  <2>6. FlowIs(received, rx, Held, con.ch, Behind)'
    BY <1>1, <1>2, <2>2, <2>5
  <2>7. LineIs(received, line, Ends)'
    BY <1>1, <2>2, <2>3
  <2>8. Cut'
    BY <1>1, <1>2, <2>3 DEF Cut
  <2>9. CommandsExact'
    BY <1>1, <2>3 DEF CommandsExact, EndOf
  <2> QED
    BY <2>6, <2>7, <2>8, <2>9
<1> QED
  BY <1>4, <1>5 DEF FlowInv

\* The byte becomes part of the line, which is cut where it ends.
LEMMA FlowStoreStep ==
    ASSUME RxInv, LineInv, FlowInv, Store
    PROVE  FlowInv'
<1>1. PICK new : new = Append(line, con.ch)
  OBVIOUS
<1>2. /\ con.pc = "store" /\ UNCHANGED <<rx, received, at, done, executed>>
  BY DEF Store, rxVars
<1>3. Numbered'
  BY <1>2 DEF FlowInv, Numbered
<1>4. ASSUME ~discarded'
      PROVE  /\ FlowIs(received, rx, Held, con.ch, Behind)'
             /\ (~Ran => LineIs(received, line, Ends))' /\ Cut' /\ CommandsExact'
  <2>1. /\ line' = new /\ discarded' = discarded
        /\ IF con.ch[1] \in {"cr", "lf"} /\ EndsLine(new)
           THEN cmdLine' = new /\ con' = [con EXCEPT !.pc = "send"]
           ELSE con' = [con EXCEPT !.pc = "load"]
    BY <1>1, <1>4 DEF Store
  <2>2. ~discarded
    BY <1>4, <2>1
  <2>3. con'.pc = IF con.ch[1] \in {"cr", "lf"} /\ EndsLine(new) THEN "send" ELSE "load"
    BY <2>1 DEF RxInv
  <2>4. Ends' = Ends /\ Held = 1 /\ Held' = 0 /\ ~Ran /\ ~Ran'
    BY <1>2, <2>3 DEF Ends, EndOf, Held, Ran
  <2>5. Behind = Ends + Len(line) /\ Behind' = Ends + Len(new)
    BY <2>1, <2>4 DEF Behind
  <2>6. /\ FlowIs(received, rx, 1, con.ch, Ends + Len(line)) /\ LineIs(received, line, Ends)
        /\ Cut /\ CommandsExact
    BY <2>2, <2>4, <2>5 DEF FlowInv
  <2>7. /\ Ends \in Nat /\ line \in Seq(RxByte) /\ line \in Seq(RxByte \cup {Nul})
        /\ received \in Seq(RxByte \cup {Nul}) /\ rx \in Ring(RxSize, RxByte \cup {Nul})
    BY <2>2, FlowTypes
  <2>8. con.ch \in RxByte /\ con.ch \in RxByte \cup {Nul}
    BY <1>2 DEF RxInv, ChReal
  <2>9. FlowIs(received, rx, 0, con'.ch, Ends + Len(new)) /\ LineIs(received, new, Ends)
    BY <1>1, <2>6, <2>7, <2>8, FlowStore
  <2>10. ~EndsLine(line)
    BY <1>2, <2>6 DEF Cut
  <2>11. (EndsLine(new) => con.ch[1] = "lf") /\ Front(new) = line
    BY <1>1, <2>7, <2>8, <2>10, EndsAppend
  <2>12. Cut'
    BY <2>1, <2>3, <2>10, <2>11 DEF Cut
  <2>13. FlowIs(received, rx, Held, con.ch, Behind)'
    BY <1>2, <2>4, <2>5, <2>9
  <2>14. LineIs(received, line, Ends)'
    BY <1>2, <2>1, <2>4, <2>9
  <2>15. CommandsExact'
    BY <1>2, <2>1, <2>6 DEF CommandsExact, EndOf
  <2> QED
    BY <2>12, <2>13, <2>14, <2>15
<1> QED
  BY <1>3, <1>4 DEF FlowInv

\* The line that was executed is cleared.
LEMMA FlowExeDone ==
    ASSUME RxInv, LineInv, FlowInv, ExeDone
    PROVE  FlowInv'
<1>1. /\ con.pc = "exe" /\ done = 1 /\ done' = 0 /\ line' = <<>>
      /\ con' = [con EXCEPT !.pc = "load"]
      /\ UNCHANGED <<rx, received, cmdLine, at, executed, discarded>>
  BY DEF ExeDone, rxVars
<1>2. con'.pc = "load" /\ con'.ch = con.ch
  BY <1>1, ConFacts
<1>3. Numbered'
  BY <1>1 DEF FlowInv, Numbered
<1>4. ASSUME ~discarded'
      PROVE  /\ FlowIs(received, rx, Held, con.ch, Behind)'
             /\ (~Ran => LineIs(received, line, Ends))' /\ Cut' /\ CommandsExact'
  <2>1. ~discarded
    BY <1>1, <1>4
  <2>2. Ends' = Ends /\ Held = 0 /\ Held' = 0 /\ Ran /\ ~Ran' /\ Ends \in Nat
    BY <1>1, <1>2, <2>1, FlowTypes DEF Ends, EndOf, Held, Ran
  <2>3. Behind = Ends + 0 /\ Behind' = Ends + Len(<<>>)
    BY <1>1, <2>2 DEF Behind
  <2>4. Behind' = Behind /\ Len(<<>>) = 0
    BY <2>3
  <2>5. FlowIs(received, rx, Held, con.ch, Behind) /\ CommandsExact
    BY <2>1 DEF FlowInv
  <2>6. FlowIs(received, rx, Held, con.ch, Behind)'
    BY <1>1, <1>2, <2>2, <2>4, <2>5
  <2>7. LineIs(received, line, Ends)'
    BY <1>1, <2>4 DEF LineIs
  <2>8. Cut'
    BY <1>1, <1>2, <2>4 DEF Cut, EndsLine
  <2>9. CommandsExact'
    BY <1>1, <2>5 DEF CommandsExact, EndOf
  <2> QED
    BY <2>6, <2>7, <2>8, <2>9
<1> QED
  BY <1>3, <1>4 DEF FlowInv

\* The AT task executes the line that has just ended.
LEMMA FlowExecute ==
    ASSUME RxInv, LineInv, FlowInv, AtExecute
    PROVE  FlowInv'
<1>1. /\ at = "parse" /\ at' = "answer" /\ executed' = Append(executed, cmdLine)
      /\ UNCHANGED <<rx, received, con, line, cmdLine, done, discarded>>
  BY DEF AtExecute, rxVars
<1>2. con.pc = "exe" /\ done = 0
  BY <1>1 DEF LineInv, Handshake
<1>3. Numbered'
  BY <1>1 DEF FlowInv, Numbered
<1>4. ASSUME ~discarded'
      PROVE  /\ FlowIs(received, rx, Held, con.ch, Behind)'
             /\ (~Ran => LineIs(received, line, Ends))' /\ Cut' /\ CommandsExact'
  <2>1. ~discarded
    BY <1>1, <1>4
  <2>2. ~Ran /\ Ran' /\ Held' = Held
    BY <1>1, <1>2 DEF Ran, Held
  <2>3. /\ FlowIs(received, rx, Held, con.ch, Behind) /\ LineIs(received, line, Ends)
        /\ cmdLine = line /\ EndsLine(line) /\ ~EndsLine(Front(line)) /\ CommandsExact
    BY <1>2, <2>1, <2>2 DEF FlowInv, Cut
  <2>4. Ends \in Nat /\ line \in Seq(RxByte) /\ received \in Seq(RxByte)
    BY <2>1, FlowTypes
  <2>5. PICK m, n \in Nat : m = Len(line) /\ n = Len(executed)
    BY <2>4 DEF LineInv
  <2>6. m > 0
    <3>1. PICK i \in 1 .. Len(line) - 1 : TRUE
      BY <2>3 DEF EndsLine
    <3> QED
      BY <2>4, <2>5, <3>1
  <2>7. /\ Len(executed') = n + 1 /\ executed'[n + 1] = line
        /\ \A i \in 1 .. n : executed'[i] = executed[i]
        /\ DOMAIN executed' = 1 .. n + 1 /\ DOMAIN executed = 1 .. n
    BY <1>1, <2>3, <2>5 DEF LineInv
  <2>8. line[m][2] = Ends + m
    <3>1. m \in 1 .. Len(line)
      BY <2>5, <2>6
    <3>2. Ends + m <= Len(received) /\ line[m] = received[Ends + m]
      BY <2>3, <3>1 DEF LineIs
    <3>3. Ends + m \in 1 .. Len(received)
      BY <2>4, <2>5, <2>6, <3>2
    <3> QED
      BY <3>2, <3>3 DEF FlowInv, Numbered
  <2>9. EndOf(n + 1)' = Ends + m
    <3>1. n + 1 # 0
      BY <2>5
    <3>2. EndOf(n + 1)' = Last(executed'[n + 1])[2]
      BY <3>1 DEF EndOf
    <3> QED
      BY <2>5, <2>7, <2>8, <3>2 DEF Last
  <2>10. \A i \in 0 .. n : EndOf(i)' = EndOf(i)
    BY <2>5, <2>7 DEF EndOf
  <2>11. Behind' = Behind
    <3>1. Ends' = Ends + m
      BY <2>7, <2>9 DEF Ends
    <3>2. Behind = Ends + m /\ Behind' = Ends' + 0
      BY <2>2, <2>5 DEF Behind
    <3> QED
      BY <2>4, <2>5, <3>1, <3>2
  <2>12. FlowIs(received, rx, Held, con.ch, Behind)'
    BY <1>1, <2>2, <2>3, <2>11
  <2>13. Cut'
    BY <1>1, <1>2, <2>3 DEF Cut
  <2>14. CommandsExact'
    <3> SUFFICES ASSUME NEW i \in 1 .. n + 1
                 PROVE  /\ EndsLine(executed'[i]) /\ ~EndsLine(Front(executed'[i]))
                        /\ \A j \in DOMAIN executed'[i] :
                               /\ EndOf(i - 1)' + j <= Len(received)
                               /\ executed'[i][j] = received[EndOf(i - 1)' + j]
      BY <1>1, <2>7 DEF CommandsExact
    <3>1. i - 1 \in 0 .. n
      BY <2>5
    <3>2. EndOf(i - 1)' = EndOf(i - 1)
      BY <2>10, <3>1
    <3>3. CASE i = n + 1
      <4>1. EndOf(i - 1) = Ends
        BY <2>5, <3>3 DEF Ends
      <4>2. DOMAIN line = 1 .. Len(line)
        BY <2>4
      <4> QED
        BY <2>3, <2>7, <3>2, <3>3, <4>1, <4>2 DEF LineIs
    <3>4. CASE i \in 1 .. n
      <4>1. executed'[i] = executed[i] /\ i \in DOMAIN executed
        BY <2>7, <3>4
      <4> QED
        BY <2>1, <2>3, <3>2, <4>1 DEF CommandsExact
    <3> QED
      BY <2>5, <3>3, <3>4
  <2> QED
    BY <2>2, <2>12, <2>13, <2>14
<1> QED
  BY <1>3, <1>4 DEF FlowInv

\* Every step keeps the flow.
LEMMA FlowStep ==
    ASSUME RxInv, LineInv, FlowInv, [Next]_vars
    PROVE  FlowInv'
<1>1. CASE \E k \in Kinds : RecvDataIrq(k)
  BY <1>1, FlowIrq
<1>2. CASE RxPop \/ Store \/ ExeDone \/ AtExecute
  BY <1>2, FlowRxPop, FlowStoreStep, FlowExeDone, FlowExecute
<1>3. CASE SemWait \/ EchoChar \/ RxTest \/ SendCmd
  <2>1. PICK p \in {"wait", "load", "getload", "pop", "store", "exe"} :
            /\ \/ con' = [con EXCEPT !.pc = p]
               \/ con' = [con EXCEPT !.pc = p, !.reg = "head", !.val = 0]
            /\ (p = "store") <=> (con.pc = "echo")
            /\ (p = "exe") <=> (con.pc = "send")
            /\ con.pc \in {"wait", "echo", "test", "gettest", "send"}
            /\ UNCHANGED <<rx, received, line, cmdLine, executed, discarded, at, done>>
    <3>1. CASE SemWait
      BY <3>1 DEF SemWait, lineVars
    <3>2. CASE EchoChar
      BY <3>2 DEF EchoChar, lineVars, rxVars
    <3>3. CASE RxTest
      BY <3>3 DEF RxTest, lineVars, rxVars
    <3>4. CASE SendCmd
      BY <3>4 DEF SendCmd, rxVars
    <3> QED
      BY <1>3, <3>1, <3>2, <3>3, <3>4
  <2>2. con'.pc = p /\ con'.ch = con.ch
    BY <2>1 DEF RxInv
  <2>3. Ran' <=> Ran
    BY <2>1, <2>2 DEF Ran, LineInv, Handshake
  <2>4. Held' = Held /\ (con'.pc \in {"send", "exe"} <=> con.pc \in {"send", "exe"})
    BY <2>1, <2>2 DEF Held
  <2> QED
    BY <2>1, <2>2, <2>3, <2>4, FlowSame
<1>4. CASE RxLoad
  <2>1. PICK r \in {"head", "tail"} :
            con' = [con EXCEPT !.pc = IF @ = "load" THEN "test" ELSE "gettest", !.reg = r,
                               !.val = IF r = "head" THEN rx.head ELSE rx.tail]
    BY <1>4 DEF RxLoad
  <2>2. /\ con.pc \in {"load", "getload"}
        /\ UNCHANGED <<rx, received, line, cmdLine, executed, discarded, at, done>>
    BY <1>4 DEF RxLoad, lineVars, rxVars
  <2>3. con'.pc \in {"test", "gettest"} /\ con'.ch = con.ch
    BY <2>1 DEF RxInv
  <2>4. /\ (Ran' <=> Ran) /\ Held' = Held
        /\ (con'.pc \in {"send", "exe"} <=> con.pc \in {"send", "exe"})
    BY <2>2, <2>3 DEF Ran, Held
  <2> QED
    BY <2>2, <2>3, <2>4, FlowSame
<1>5. CASE AtReceive \/ AtRelease
  <2>1. UNCHANGED <<rx, received, con, line, cmdLine, executed, discarded>>
    BY <1>5 DEF AtReceive, AtRelease, rxVars
  <2>2. Ran' <=> Ran
    BY <1>5, <2>1 DEF AtReceive, AtRelease, Ran, LineInv, Handshake
  <2>3. Held' = Held
    BY <2>1 DEF Held
  <2> QED
    BY <2>1, <2>2, <2>3, FlowSame
<1>6. CASE LogChar \/ (\E t \in Tasks : Transmit(t)) \/ UNCHANGED vars
  <2>1. UNCHANGED <<rx, received, con, line, cmdLine, executed, discarded, at, done>>
    BY <1>6 DEF LogChar, Transmit, vars, rxVars, lineVars
  <2>2. (Ran' <=> Ran) /\ Held' = Held
    BY <2>1 DEF Ran, Held
  <2> QED
    BY <2>1, <2>2, FlowSame
<1> QED
  BY <1>1, <1>2, <1>3, <1>4, <1>5, <1>6 DEF Next, ConsoleTask, AtTask

\* As long as nothing was thrown away, the AT task executes what was received: every byte
\* once, in order, and a line for each CR LF, although interrupt, console task and AT task
\* hand the bytes on without a lock.
THEOREM LinesExact == Spec => []CommandsExact
<1>1. Init => FlowInv
  <2> SUFFICES ASSUME Init PROVE FlowInv
    OBVIOUS
  <2>1. /\ received = <<>> /\ line = <<>> /\ executed = <<>> /\ con.pc = "wait"
        /\ rx.head = 0 /\ rx.tail = 0
    BY DEF Init, fifo_init
  <2>2. Used(rx) = 0 /\ Len(received) = 0 /\ Len(line) = 0 /\ Len(executed) = 0
    BY <2>1 DEF Used
  <2>3. Ends = 0 /\ ~Ran /\ Held = 0
    BY <2>1, <2>2 DEF Ends, EndOf, Ran, Held
  <2>4. Behind = 0
    BY <2>2, <2>3 DEF Behind
  <2>5. FlowIs(received, rx, Held, con.ch, Behind) /\ LineIs(received, line, Ends)
    BY <2>2, <2>3, <2>4 DEF FlowIs, LineIs
  <2>6. Cut
    BY <2>1, <2>2 DEF Cut, EndsLine
  <2>7. Numbered
    BY <2>2 DEF Numbered
  <2>8. CommandsExact
    BY <2>1 DEF CommandsExact
  <2> QED
    BY <2>3, <2>5, <2>6, <2>7, <2>8 DEF FlowInv
<1>2. Inv /\ FlowInv /\ [Next]_vars => FlowInv'
  BY FlowStep DEF Inv
<1>3. FlowInv /\ Inv => CommandsExact
  BY DEF FlowInv, CommandsExact
<1> QED
  BY <1>1, <1>2, <1>3, Invariance, PTL DEF Spec
=============================================================================
