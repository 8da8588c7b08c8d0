---------------------------- MODULE LnKvDurable ----------------------------
(* Proofs about LnKv, on top of LnKvProofs: what ln_kv_get returns after     *)
(* power failures.                                                           *)
(*                                                                           *)
(* The invariant speaks of the whole items on flash, the ones neither        *)
(* discarded nor torn.  Between calls there is one per key, with a value     *)
(* that a lookup may return.  A save has the old item until the new one is   *)
(* whole, and the new one then says where the old one is, so that boot can   *)
(* discard it.  A collection has every value outside its destination until   *)
(* the source is erased, and inside it when it is.  A power failure leaves   *)
(* linked items, or a destination that boot finds by its mark or as the only *)
(* blank block.  That the last is true before the first failure needs a fact *)
(* on the marks of blank blocks (Unspoiled).                                 *)
EXTENDS LnKvProofs

-----------------------------------------------------------------------------
(* The values                                                                *)

\* What is known of item i of block b
Item(f, b, i) == LET s == f[b].items[i]
                 IN  [blk |-> b, idx |-> i, pos |-> <<b, s.off>>, key |-> s.key, val |-> s.val,
                      prev |-> s.prev]

\* The whole items of a block: neither discarded nor torn
WholeAt(f, b) == {i \in DOMAIN f[b].items : Live(f[b].items[i]) /\ Intact(f[b].items[i])}

\* The torn items of a block: kv_item_hdr_write or the value stopped half way
TornAt(f, b) == {i \in DOMAIN f[b].items : Live(f[b].items[i]) /\ ~Intact(f[b].items[i])}

\* All whole items of the flash
Kept(f) == UNION {{Item(f, b, i) : i \in WholeAt(f, b)} : b \in Blocks}

\* The places of all torn items
Torn(f) == UNION {{<<b, i>> : i \in TornAt(f, b)} : b \in Blocks}

\* The items of S outside the block d
Off(S, d) == {h \in S : h.blk # d}

\* The items of S in the block d
In(S, d) == {h \in S : h.blk = d}

\* S has an item of the key k.
HasKey(S, k) == \E h \in S : h.key = k

\* At most one item per key
Single(S) == \A g, h \in S : g.key = h.key => g = h

\* The values of S are the ones a lookup may return.
Right(S, al) == /\ \A h \in S : h.val \in al[h.key]
                /\ \A k \in Keys : None \in al[k] \/ HasKey(S, k)

\* Of two items of a key one is known to supersede the other.
Linked(S) == \A g, h \in S : g.key = h.key => g = h \/ g.prev = h.pos \/ h.prev = g.pos

\* The set o has not written yet: what it knows of the old item of its key
Unsaved(S, o, al) ==
    /\ o.val \in al[o.key]
    /\ \A h \in S : h.key = o.key => h.val # o.val
    /\ o.prev = NoPos => ~HasKey(S, o.key)
    /\ o.prev # NoPos => /\ o.old.st = "full" /\ ~o.old.disc /\ o.old.key = o.key
                         /\ \E h \in S : h.key = o.key /\ h.val = o.old.val

\* The set o is writing its item: the old item is where the new one says it is.
Halfway(S, o, al) ==
    /\ o.val \in al[o.key]
    /\ o.prev = NoPos => ~HasKey(S, o.key)
    /\ o.prev # NoPos => \E h \in S : h.key = o.key /\ h.pos = o.prev

\* The set o has written its item and the old one is still there.
Both(S, o) ==
    \E n \in S : /\ n.key = o.key /\ n.val = o.val /\ n.prev = o.prev
                 /\ Single(S \ {n})
                 /\ \E m \in S \ {n} : m.key = o.key /\ m.pos = o.prev

\* The block d holds the copies of the items of block s before item n.
Copied(S, s, d, n) ==
    /\ \A h \in In(S, s) : h.idx < n => \E c \in In(S, d) : c.key = h.key /\ c.val = h.val
    /\ \A c \in In(S, d) : \E h \in In(S, s) : h.idx < n /\ c.key = h.key /\ c.val = h.val
    /\ Single(In(S, d))

\* All blocks but d have items.
Spare(f, d) == \A b \in Blocks \ {d} : f[b].items # << >> /\ f[b].magic

\* A call that is not in the middle of a change of the flash
Resting ==
    /\ pc \in {"locate", "locate_ws", "idle", "search", "wild"} \cup Erasing =>
           Single(Kept(flash)) /\ Right(Kept(flash), allowed) /\ Torn(flash) = {}
    /\ pc = "search" \/ (pc \in Erasing /\ gc.from = "search") => Unsaved(Kept(flash), op, allowed)

\* The set that is writing
Writing ==
    /\ pc \in Saving =>
           LET its == flash[op.blk].items
               s == its[Len(its)]
           IN  /\ Single(Kept(flash)) /\ Right(Kept(flash), allowed)
               /\ Halfway(Kept(flash), op, allowed) /\ Torn(flash) \subseteq {<<op.blk, Len(its)>>}
               /\ s.key = op.key /\ s.prev = op.prev /\ ~s.disc
    /\ pc = "del_old" =>
           Right(Kept(flash), allowed) /\ Both(Kept(flash), op) /\ Torn(flash) = {}

\* The collection that is copying: the values are all outside the destination.
Gathering ==
    pc \in Marking \cup {"inc_magic"} =>
        LET S == Kept(flash)
            d == gc.dst
        IN  /\ Single(Off(S, d)) /\ Right(Off(S, d), allowed)
            /\ gc.from = "search" => Unsaved(Off(S, d), op, allowed)
            /\ ~cycles.window => Spare(flash, d)
            /\ flash[d].done => cycles.n >= 1
            /\ pc \in Marking \ {"gc_dst"} => Copied(S, gc.src, d, gc.i)
            /\ IF pc \in Copying
               THEN /\ Torn(flash) \subseteq {<<d, Len(flash[d].items)>>}
                    /\ LastItem(flash[d]).key = flash[gc.src].items[gc.i].key
                    /\ ~LastItem(flash[d]).disc
               ELSE Torn(flash) = {}

\* A power failure during a collection: the values are all outside the destination, which
\* boot finds by its mark, or by its being the only blank block.
Repairable(d) ==
    LET S == Kept(flash)
    IN  /\ Single(Off(S, d)) /\ Right(Off(S, d), allowed)
        /\ \A t \in Torn(flash) : t[1] = d
        /\ Spare(flash, d) /\ d \notin GcSrcs /\ Lone(GcSrcs)
        /\ \A h \in In(S, d) : HasKey(Off(S, d), h.key)
        /\ GcDsts = {d} \/ (GcDsts = {} /\ flash[d].items = << >>)

\* A destination that was done before: boot does not find it, and gives up.
Doomed == GcDsts = {} /\ cycles.n >= 2 /\ \A b \in Blocks : flash[b].items # << >>

\* What boot finds
Rebooting ==
    pc \in Booting =>
        /\ GcSrcs = {} =>
               /\ pc # "failed" /\ Linked(Kept(flash)) /\ Right(Kept(flash), allowed)
               /\ cycles.window => Single(Kept(flash)) /\ Torn(flash) = {}
               /\ pc \in {"scan", "scan_magic", "incomplete"} =>
                      \A b \in Blocks : (pc # "incomplete" => b < cur) /\ Plain(flash[b]) =>
                          Recover(flash, b) = {}
        /\ GcSrcs # {} => Doomed \/ (pc # "failed" /\ \E d \in Blocks : Repairable(d))

\* Before the first power failure no block that was a destination is blank, but for the
\* workspace that a collection leaves to the set that asked for it.
Unspoiled ==
    cycles.n = 0 =>
        /\ pc \in Booting \cup {"locate"} => \A b \in Blocks : flash[b].items = << >> /\ ~flash[b].done
        /\ pc \notin {"locate_ws", "inc_magic"}
        /\ pc \in Marking \cup Erasing => gc.from = "search"
        /\ \A b \in Blocks : flash[b].done /\ flash[b].items = << >> =>
               pc = "search" /\ b = ram.workspace /\ b \in Inuse(ram)

\* What is true of the values at each point of the program
Facts == Resting /\ Writing /\ Gathering /\ Rebooting /\ pc # "overrun"

\* The invariant about the values
DataInv == Good => Facts /\ Unspoiled

-----------------------------------------------------------------------------
(* What a change of the items does to the values                             *)

\* The two sets, member by member
LEMMA KeptIn ==
    ASSUME NEW f
    PROVE  /\ \A h : h \in Kept(f) <=> \E b \in Blocks : \E i \in WholeAt(f, b) : h = Item(f, b, i)
           /\ \A t : t \in Torn(f) <=> \E b \in Blocks : \E i \in TornAt(f, b) : t = <<b, i>>
  BY DEF Kept, Torn

\* The fields of an item
LEMMA ItemIs ==
    ASSUME NEW f, NEW b, NEW i
    PROVE  LET h == Item(f, b, i)
               s == f[b].items[i]
           IN  /\ h.blk = b /\ h.idx = i /\ h.pos = <<b, s.off>> /\ h.key = s.key /\ h.val = s.val
               /\ h.prev = s.prev
  BY DEF Item

\* At most the item at j of block b changes.
Changes(f, g, b, j) ==
    /\ \A c \in Blocks \ {b} : g[c].items = f[c].items
    /\ \A i : i # j => /\ i \in DOMAIN g[b].items <=> i \in DOMAIN f[b].items
                       /\ i \in DOMAIN f[b].items => g[b].items[i] = f[b].items[i]

\* Then the values change at most by this item.
LEMMA KeptChanges ==
    ASSUME NEW f, NEW g, NEW b \in Blocks, NEW j, Changes(f, g, b, j)
    PROVE  /\ \A h : h \in Kept(g) <=> \/ h \in Kept(f) /\ ~(h.blk = b /\ h.idx = j)
                                       \/ j \in WholeAt(g, b) /\ h = Item(g, b, j)
           /\ \A t : t \in Torn(g) <=> \/ t \in Torn(f) /\ t # <<b, j>>
                                       \/ j \in TornAt(g, b) /\ t = <<b, j>>
<1>1. ASSUME NEW c \in Blocks, NEW i, ~(c = b /\ i = j)
      PROVE  /\ i \in WholeAt(g, c) <=> i \in WholeAt(f, c)
             /\ i \in TornAt(g, c) <=> i \in TornAt(f, c)
             /\ i \in WholeAt(f, c) => Item(g, c, i) = Item(f, c, i)
  <2>1. /\ i \in DOMAIN g[c].items <=> i \in DOMAIN f[c].items
        /\ i \in DOMAIN f[c].items => g[c].items[i] = f[c].items[i]
    BY <1>1 DEF Changes
  <2> QED
    BY <2>1 DEF WholeAt, TornAt, Item
<1>2. ASSUME NEW h
      PROVE  h \in Kept(g) <=> \/ h \in Kept(f) /\ ~(h.blk = b /\ h.idx = j)
                               \/ j \in WholeAt(g, b) /\ h = Item(g, b, j)
  <2>1. h \in Kept(g) <=> \E c \in Blocks : \E i \in WholeAt(g, c) : h = Item(g, c, i)
    BY KeptIn
  <2>2. h \in Kept(f) <=> \E c \in Blocks : \E i \in WholeAt(f, c) : h = Item(f, c, i)
    BY KeptIn
  <2>3. \A c, i : Item(f, c, i).blk = c /\ Item(f, c, i).idx = i
    BY ItemIs
  <2>4. ASSUME h \in Kept(g) PROVE \/ h \in Kept(f) /\ ~(h.blk = b /\ h.idx = j)
                                   \/ j \in WholeAt(g, b) /\ h = Item(g, b, j)
    <3>0. PICK c \in Blocks : \E i \in WholeAt(g, c) : h = Item(g, c, i)
      BY <2>1, <2>4
    <3>1. PICK i \in WholeAt(g, c) : h = Item(g, c, i)
      BY <3>0
    <3>2. CASE ~(c = b /\ i = j)
      BY <1>1, <2>2, <2>3, <3>1, <3>2
    <3> QED
      BY <3>1, <3>2
  <2>5. ASSUME h \in Kept(f), ~(h.blk = b /\ h.idx = j) PROVE h \in Kept(g)
    <3>0. PICK c \in Blocks : \E i \in WholeAt(f, c) : h = Item(f, c, i)
      BY <2>2, <2>5
    <3>1. PICK i \in WholeAt(f, c) : h = Item(f, c, i)
      BY <3>0
    <3>2. ~(c = b /\ i = j)
      BY <2>3, <2>5, <3>1
    <3> QED
      BY <1>1, <2>1, <3>1, <3>2
  <2> QED
    BY <2>1, <2>4, <2>5
<1>3. ASSUME NEW t
      PROVE  t \in Torn(g) <=> \/ t \in Torn(f) /\ t # <<b, j>>
                               \/ j \in TornAt(g, b) /\ t = <<b, j>>
  <2>1. t \in Torn(g) <=> \E c \in Blocks : \E i \in TornAt(g, c) : t = <<c, i>>
    BY KeptIn
  <2>2. t \in Torn(f) <=> \E c \in Blocks : \E i \in TornAt(f, c) : t = <<c, i>>
    BY KeptIn
  <2> QED
    BY <1>1, <2>1, <2>2
<1> QED
  BY <1>2, <1>3

\* The same items, the same values
LEMMA KeptSame ==
    ASSUME NEW f, NEW g, \A b \in Blocks : g[b].items = f[b].items
    PROVE  Kept(g) = Kept(f) /\ Torn(g) = Torn(f)
<1>1. \A b \in Blocks : WholeAt(g, b) = WholeAt(f, b) /\ TornAt(g, b) = TornAt(f, b)
  BY DEF WholeAt, TornAt
<1>2. \A b \in Blocks : \A i : Item(g, b, i) = Item(f, b, i)
  BY DEF Item
<1>3. \A h : h \in Kept(g) <=> h \in Kept(f)
  BY <1>1, <1>2, KeptIn
<1>4. \A t : t \in Torn(g) <=> t \in Torn(f)
  BY <1>1, KeptIn
<1> QED
  BY <1>3, <1>4

\* A discard takes one item away.
LEMMA KeptDrops ==
    ASSUME NEW f \in [Blocks -> Block], NEW g, NEW b, NEW j, Drops(f, g, b, j)
    PROVE  /\ Kept(g) = Kept(f) \ {Item(f, b, j)}
           /\ Torn(g) = Torn(f) \ {<<b, j>>}
<1>1. b \in Blocks /\ j \in DOMAIN f[b].items /\ f[b] \in Block /\ g[b] \in Block /\ DOMAIN g[b].items = DOMAIN f[b].items
  BY ItemsOf DEF Drops, Discarded, WithItems
<1>2. Changes(f, g, b, j)
  BY <1>1 DEF Drops, Changes
<1>3. j \notin WholeAt(g, b) /\ j \notin TornAt(g, b)
  BY <1>1 DEF Drops, WholeAt, TornAt, Live
<1>4. /\ \A h : h \in Kept(g) <=> h \in Kept(f) /\ ~(h.blk = b /\ h.idx = j)
      /\ \A t : t \in Torn(g) <=> t \in Torn(f) /\ t # <<b, j>>
  BY <1>1, <1>2, <1>3, KeptChanges
<1>5. \A h \in Kept(f) : (h.blk = b /\ h.idx = j) <=> h = Item(f, b, j)
  BY KeptIn, ItemIs
<1> QED
  BY <1>4, <1>5

\* The erase of a block takes its items away.
LEMMA KeptErase ==
    ASSUME NEW f, NEW g, NEW b \in Blocks, g[b].items = << >>,
           \A c \in Blocks \ {b} : g[c].items = f[c].items
    PROVE  Kept(g) = Off(Kept(f), b) /\ \A t : t \in Torn(g) <=> t \in Torn(f) /\ t[1] # b
<1>1. WholeAt(g, b) = {} /\ TornAt(g, b) = {}
  BY DEF WholeAt, TornAt
<1>2. \A c \in Blocks \ {b} : /\ WholeAt(g, c) = WholeAt(f, c) /\ TornAt(g, c) = TornAt(f, c)
                              /\ \A i : Item(g, c, i) = Item(f, c, i)
  BY DEF WholeAt, TornAt, Item
<1>3. ASSUME NEW h PROVE h \in Kept(g) <=> h \in Kept(f) /\ h.blk # b
  <2>1. h \in Kept(g) <=> \E c \in Blocks : \E i \in WholeAt(g, c) : h = Item(g, c, i)
    BY KeptIn
  <2>2. h \in Kept(f) <=> \E c \in Blocks : \E i \in WholeAt(f, c) : h = Item(f, c, i)
    BY KeptIn
  <2>3. \A c, i : Item(f, c, i).blk = c
    BY ItemIs
  <2> QED
    BY <1>1, <1>2, <2>1, <2>2, <2>3
<1>4. ASSUME NEW t PROVE t \in Torn(g) <=> t \in Torn(f) /\ t[1] # b
  <2>1. t \in Torn(g) <=> \E c \in Blocks : \E i \in TornAt(g, c) : t = <<c, i>>
    BY KeptIn
  <2>2. t \in Torn(f) <=> \E c \in Blocks : \E i \in TornAt(f, c) : t = <<c, i>>
    BY KeptIn
  <2> QED
    BY <1>1, <1>2, <2>1, <2>2
<1> QED
  BY <1>3, <1>4 DEF Off

\* A header without its magic word is no item.
LEMMA KeptHeader ==
    ASSUME NEW f \in [Blocks -> Block], NEW g, NEW b \in Blocks, NEW s \in Slot, s.st = "hdr",
           g[b].items = Append(f[b].items, s), \A c \in Blocks \ {b} : g[c].items = f[c].items
    PROVE  Kept(g) = Kept(f) /\ Torn(g) = Torn(f)
<1> DEFINE its == f[b].items
           n == Len(its) + 1
<1>1. f[b] \in Block /\ its \in Seq(Slot) /\ DOMAIN its = 1 .. Len(its) /\ Len(its) \in Nat
  BY ItemsOf
<1>2. /\ DOMAIN g[b].items = 1 .. n /\ g[b].items[n] = s
      /\ \A i \in 1 .. Len(its) : g[b].items[i] = its[i]
  BY <1>1
<1>3. \A c \in Blocks \ {b} : /\ WholeAt(g, c) = WholeAt(f, c) /\ TornAt(g, c) = TornAt(f, c)
                              /\ \A i : Item(g, c, i) = Item(f, c, i)
  BY DEF WholeAt, TornAt, Item
<1>4. WholeAt(g, b) = WholeAt(f, b) /\ TornAt(g, b) = TornAt(f, b)
  BY <1>1, <1>2 DEF WholeAt, TornAt, Live, Legal, Intact
<1>5. \A i \in WholeAt(f, b) : Item(g, b, i) = Item(f, b, i)
  BY <1>1, <1>2 DEF WholeAt, Item
<1>6. \A h : h \in Kept(g) <=> h \in Kept(f)
  BY <1>3, <1>4, <1>5, KeptIn
<1>7. \A t : t \in Torn(g) <=> t \in Torn(f)
  BY <1>3, <1>4, KeptIn
<1> QED
  BY <1>6, <1>7

\* The stages of the last item
LEMMA KeptStage ==
    ASSUME NEW f \in [Blocks -> Block], NEW g \in [Blocks -> Block], NEW b \in Blocks,
           f[b].items # << >>, Len(g[b].items) = Len(f[b].items),
           \A i \in 1 .. Len(g[b].items) - 1 : g[b].items[i] = f[b].items[i],
           ~Intact(LastItem(f[b])), \A c \in Blocks \ {b} : g[c].items = f[c].items
    PROVE  LET n == Len(f[b].items)
           IN  /\ LastItem(g[b]).st \in {"magic", "key"} =>
                      Kept(g) = Kept(f) /\ Torn(g) \subseteq Torn(f) \cup {<<b, n>>}
               /\ LastItem(g[b]).st = "full" /\ ~LastItem(g[b]).disc =>
                      Kept(g) = Kept(f) \cup {Item(g, b, n)} /\ Torn(g) = Torn(f) \ {<<b, n>>}
<1>0. PICK n, s : n = Len(f[b].items) /\ s = LastItem(g[b])
  OBVIOUS
<1>1. /\ f[b] \in Block /\ g[b] \in Block /\ n \in Nat /\ n # 0 /\ DOMAIN f[b].items = 1 .. n
      /\ DOMAIN g[b].items = 1 .. n /\ s = g[b].items[n] /\ LastItem(f[b]) = f[b].items[n]
  BY <1>0, ItemsOf DEF LastItem
<1>2. Changes(f, g, b, n)
  BY <1>0, <1>1 DEF Changes
<1>3. /\ \A h : h \in Kept(g) <=> \/ h \in Kept(f) /\ ~(h.blk = b /\ h.idx = n)
                                  \/ n \in WholeAt(g, b) /\ h = Item(g, b, n)
      /\ \A t : t \in Torn(g) <=> \/ t \in Torn(f) /\ t # <<b, n>>
                                  \/ n \in TornAt(g, b) /\ t = <<b, n>>
  BY <1>2, KeptChanges
<1>4. n \notin WholeAt(f, b)
  BY <1>1 DEF WholeAt
<1>5. \A h \in Kept(f) : ~(h.blk = b /\ h.idx = n)
  BY <1>4, KeptIn, ItemIs
<1>6. s.st \in {"magic", "key"} => n \notin WholeAt(g, b)
  BY <1>1 DEF WholeAt, Intact
<1>7. s.st = "full" /\ ~s.disc => n \in WholeAt(g, b) /\ n \notin TornAt(g, b)
  BY <1>1 DEF WholeAt, TornAt, Intact, Live, Legal
<1>8. s.st \in {"magic", "key"} => Kept(g) = Kept(f) /\ Torn(g) \subseteq Torn(f) \cup {<<b, n>>}
  BY <1>3, <1>5, <1>6
<1>9. s.st = "full" /\ ~s.disc =>
          Kept(g) = Kept(f) \cup {Item(g, b, n)} /\ Torn(g) = Torn(f) \ {<<b, n>>}
  BY <1>3, <1>5, <1>7
<1> QED
  BY <1>0, <1>8, <1>9

\* An address belongs to one item.
LEMMA OffOnce ==
    ASSUME NEW x \in Block, LaidOut(x), NEW i \in DOMAIN x.items, NEW j \in DOMAIN x.items,
           x.items[i].off = x.items[j].off
    PROVE  i = j
<1>1. /\ i \in Nat /\ j \in Nat /\ Extent(x.items[i]) \in Nat \ {0} /\ x.items[i].off \in Nat
      /\ Extent(x.items[j]) \in Nat \ {0} /\ x.items[j].off \in Nat
  BY ItemsOf, SMTT(30)
<1>2. /\ i < j => x.items[i].off + Extent(x.items[i]) <= x.items[j].off
      /\ j < i => x.items[j].off + Extent(x.items[j]) <= x.items[i].off
  BY DEF LaidOut
<1> QED
  BY <1>1, <1>2

\* Two whole items at the same position are the same item: prev_pos names one item.
LEMMA PosOnce ==
    ASSUME NEW f \in [Blocks -> Block], \A b \in Blocks : LaidOut(f[b]),
           NEW g \in Kept(f), NEW h \in Kept(f), g.pos = h.pos
    PROVE  g = h
<1>1. PICK b \in Blocks : \E i \in WholeAt(f, b) : g = Item(f, b, i)
  BY KeptIn
<1>2. PICK i \in WholeAt(f, b) : g = Item(f, b, i)
  BY <1>1
<1>3. PICK c \in Blocks : \E j \in WholeAt(f, c) : h = Item(f, c, j)
  BY KeptIn
<1>4. PICK j \in WholeAt(f, c) : h = Item(f, c, j)
  BY <1>3
<1>5. <<b, f[b].items[i].off>> = <<c, f[c].items[j].off>>
  BY <1>2, <1>4, ItemIs
<1>6. i \in DOMAIN f[b].items /\ j \in DOMAIN f[b].items
  BY <1>2, <1>4, <1>5 DEF WholeAt
<1>7. b = c /\ i = j
  BY <1>5, <1>6, OffOnce
<1> QED
  BY <1>2, <1>4, <1>7

\* What an item supersedes
LEMMA SupersededIn ==
    ASSUME NEW f, NEW s \in Slot
    PROVE  \A j : j \in Superseded(f, s) <=>
               LET c == s.prev[1]
                   p == f[c].items[j]
               IN  /\ c \in Blocks /\ j \in DOMAIN f[c].items /\ p.off = s.prev[2]
                   /\ Live(p) /\ p.st \in {"key", "full"} /\ p.key = s.key
<1>1. s.prev \in Pos
  BY DEF Slot
<1>2. s.prev = NoPos => s.prev[1] \notin Blocks
  BY BlocksNat DEF NoPos
<1>3. s.prev # NoPos => s.prev[1] \in Blocks
  BY <1>1 DEF Pos, NoPos
<1> QED
  BY <1>2, <1>3 DEF Superseded, SlotsAt

\* A block that needs no recovery: no item is torn, and none supersedes another.
LEMMA Recovered ==
    ASSUME NEW f \in [Blocks -> Block], \A c \in Blocks : LaidOut(f[c]), NEW b \in Blocks,
           Recover(f, b) = {}
    PROVE  /\ TornAt(f, b) = {}
           /\ \A g, h \in Kept(f) : g.blk = b /\ g.key = h.key /\ g.prev = h.pos => g = h
<1>1. TornAt(f, b) = {}
  BY DEF Recover, TornAt
<1>2. ASSUME NEW g \in Kept(f), NEW h \in Kept(f), g.blk = b, g.key = h.key, g.prev = h.pos, g # h
      PROVE  FALSE
  <2>1. PICK i \in WholeAt(f, b) : g = Item(f, b, i)
    BY <1>2, KeptIn, ItemIs
  <2>2. PICK c \in Blocks : \E j \in WholeAt(f, c) : h = Item(f, c, j)
    BY KeptIn
  <2>3. PICK j \in WholeAt(f, c) : h = Item(f, c, j)
    BY <2>2
  <2>4. PICK s, p : s = f[b].items[i] /\ p = f[c].items[j]
    OBVIOUS
  <2>5. /\ i \in DOMAIN f[b].items /\ s \in Slot /\ Live(s) /\ Intact(s)
        /\ j \in DOMAIN f[c].items /\ Live(p) /\ Intact(p)
    BY <2>1, <2>3, <2>4, ItemsOf DEF WholeAt
  <2>6. s.prev = <<c, p.off>> /\ p.key = s.key
    BY <1>2, <2>1, <2>3, <2>4, ItemIs
  <2>7. s.prev # <<b, s.off>>
    BY <1>2, <2>1, <2>4, ItemIs, PosOnce
  <2>8. j \in Superseded(f, s)
    <3>1. s.prev[1] = c /\ s.prev[2] = p.off /\ p.st = "full"
      BY <2>5, <2>6 DEF Intact
    <3> QED
      BY <2>4, <2>5, <2>6, <3>1, SupersededIn
  <2>9. i \in Recover(f, b)
    BY <2>4, <2>5, <2>7, <2>8 DEF Recover
  <2> QED
    BY <2>9
<1> QED
  BY <1>1, <1>2

\* What recovery discards: a torn item, or one that another item of the key supersedes.
LEMMA RecoverIs ==
    ASSUME NEW f \in [Blocks -> Block], NEW b \in Blocks, NEW i \in Recover(f, b),
           NEW c, NEW j, Discards(f, b, i) = <<c, j>>
    PROVE  \/ c = b /\ j = i /\ i \in TornAt(f, b)
           \/ /\ i \in WholeAt(f, b) /\ c \in Blocks
              /\ j \in WholeAt(f, c) \cup TornAt(f, c)
              /\ f[c].items[j].key = f[b].items[i].key
              /\ f[b].items[i].prev = <<c, f[c].items[j].off>>
              /\ f[b].items[i].prev # <<b, f[b].items[i].off>>
<1>1. PICK s : s = f[b].items[i]
  OBVIOUS
<1>2. i \in DOMAIN f[b].items /\ s \in Slot /\ Live(s)
  BY <1>1, ItemsOf DEF Recover
<1>3. CASE ~Intact(s)
  BY <1>1, <1>2, <1>3 DEF Discards, TornAt
<1>4. CASE Intact(s)
  <2>1. s.prev # <<b, s.off>> /\ Superseded(f, s) # {}
    BY <1>1, <1>4 DEF Recover
  <2>2. c = s.prev[1] /\ j \in Superseded(f, s)
    <3>1. <<c, j>> = <<s.prev[1], CHOOSE x \in Superseded(f, s) : TRUE>>
      BY <1>1, <1>4 DEF Discards
    <3> QED
      BY <2>1, <3>1
  <2>3. /\ c \in Blocks /\ j \in DOMAIN f[c].items /\ f[c].items[j].off = s.prev[2]
        /\ Live(f[c].items[j]) /\ f[c].items[j].key = s.key
    BY <1>2, <2>2, SupersededIn
  <2>4. s.prev = <<s.prev[1], s.prev[2]>>
    <3>1. s.prev \in Pos
      BY <1>2 DEF Slot
    <3> QED
      BY <3>1 DEF Pos
  <2> QED
    BY <1>1, <1>2, <1>4, <2>1, <2>2, <2>3, <2>4 DEF WholeAt, TornAt
<1> QED
  BY <1>3, <1>4

\* A discard leaves no more to recover.
LEMMA RecoverLess ==
    ASSUME NEW f \in [Blocks -> Block], NEW g \in [Blocks -> Block], NEW b \in Blocks,
           \A c \in Blocks : Discarded(f[c], g[c])
    PROVE  Recover(g, b) \subseteq Recover(f, b)
<1>1. ASSUME NEW c \in Blocks, NEW i \in DOMAIN g[c].items
      PROVE  /\ i \in DOMAIN f[c].items /\ g[c].items[i] \in Slot /\ f[c].items[i] \in Slot
             /\ g[c].items[i].off = f[c].items[i].off /\ g[c].items[i].st = f[c].items[i].st
             /\ g[c].items[i].key = f[c].items[i].key /\ g[c].items[i].prev = f[c].items[i].prev
             /\ Live(g[c].items[i]) => Live(f[c].items[i])
  BY ItemsOf, ZenonT(40) DEF Discarded, WithItems, Live, Legal
<1>2. SUFFICES ASSUME NEW i \in Recover(g, b) PROVE i \in Recover(f, b)
  OBVIOUS
<1>3. PICK s, t : s = g[b].items[i] /\ t = f[b].items[i]
  OBVIOUS
<1>4. /\ i \in DOMAIN g[b].items /\ Live(s)
      /\ ~Intact(s) \/ (s.prev # <<b, s.off>> /\ Superseded(g, s) # {})
  BY <1>2, <1>3 DEF Recover
<1>5. /\ i \in DOMAIN f[b].items /\ s \in Slot /\ t \in Slot /\ Live(t) /\ (Intact(s) <=> Intact(t))
      /\ t.prev = s.prev /\ t.off = s.off /\ t.key = s.key
  BY <1>1, <1>3, <1>4 DEF Intact
<1>6. \A j : j \in Superseded(g, s) => j \in Superseded(f, t)
  BY <1>1, <1>5, SupersededIn
<1> QED
  BY <1>3, <1>4, <1>5, <1>6 DEF Recover

\* Nor do marks.
LEMMA RecoverSame ==
    ASSUME NEW f \in [Blocks -> Block], NEW g \in [Blocks -> Block], NEW b \in Blocks,
           \A c \in Blocks : g[c].items = f[c].items
    PROVE  Recover(g, b) = Recover(f, b)
<1>1. \A s \in Slot : \A j : j \in Superseded(g, s) <=> j \in Superseded(f, s)
  BY SupersededIn
<1>2. \A i \in DOMAIN f[b].items : f[b].items[i] \in Slot
  BY ItemsOf
<1>3. \A i \in DOMAIN f[b].items : Superseded(g, f[b].items[i]) = Superseded(f, f[b].items[i])
  BY <1>1, <1>2
<1> QED
  BY <1>3 DEF Recover

-----------------------------------------------------------------------------
(* What a search finds                                                       *)

\* A search that finds nothing has seen all blocks that are not fresh.
LEMMA NotFound ==
    ASSUME NEW r, NEW match, FindItem(r, match) = NoItem
    PROVE  \A b \in Blocks \ Fresh(r) : match[b] = {}
<1> DEFINE hit == {b \in Blocks \ Fresh(r) : match[b] # {}}
<1>1. SUFFICES ASSUME hit # {} PROVE FALSE
  OBVIOUS
<1>2. FirstBlk(hit) \in Blocks
  BY <1>1, FirstBlkIn
<1> HIDE DEF hit
<1>3. FindItem(r, match) = <<FirstBlk(hit), CHOOSE i \in match[FirstBlk(hit)] :
                                                \A j \in match[FirstBlk(hit)] : i <= j>>
  BY <1>1 DEF FindItem, hit
<1> QED
  BY <1>2, <1>3, BlocksNat DEF NoItem

\* A fresh block holds nothing.
LEMMA FreshBlank ==
    ASSUME KvInv, NEW b \in Fresh(ram) \ Exempt
    PROVE  b \in Blocks /\ flash[b].items = << >>
  BY DEF KvInv, Indexed, Describes, Fresh

\* A lookup between two changes of the flash finds the value of the key, if there is one.
LEMMA LookupIs ==
    ASSUME KvInv, pc \in {"idle", "search", "locate", "locate_ws"}, Torn(flash) = {}, NEW k
    PROVE  LET at == FindItem(ram, KeyMatch(flash, k))
           IN  \/ at = NoItem /\ ~HasKey(Kept(flash), k) /\ Lookup(k) = None
               \/ /\ at # NoItem /\ at[1] \in Blocks /\ at[2] \in WholeAt(flash, at[1])
                  /\ flash[at[1]].items[at[2]].key = k
                  /\ Lookup(k) = flash[at[1]].items[at[2]].val
<1>1. PICK m, at : m = KeyMatch(flash, k) /\ at = FindItem(ram, m)
  OBVIOUS
<1>2. flash \in [Blocks -> Block] /\ Exempt = {}
  BY DEF KvInv, Exempt, Saving, Collecting, Copying
<1>3. m \in [Blocks -> SUBSET Nat]
  BY <1>1, <1>2, Matches
<1>4. CASE at = NoItem
  <2>1. ASSUME NEW h \in Kept(flash), h.key = k PROVE FALSE
    <3>1. PICK b \in Blocks : \E i \in WholeAt(flash, b) : h = Item(flash, b, i)
      BY KeptIn
    <3>2. PICK i \in WholeAt(flash, b) : h = Item(flash, b, i)
      BY <3>1
    <3>3. i \in DOMAIN flash[b].items
      BY <3>2 DEF WholeAt
    <3>4. b \notin Fresh(ram)
      BY <1>2, <3>3, FreshBlank
    <3>5. i \in m[b]
      BY <1>1, <2>1, <3>2, <3>3, ItemIs DEF KeyMatch, WholeAt, Intact
    <3> QED
      BY <1>1, <1>4, <3>4, <3>5, NotFound
  <2> QED
    BY <1>1, <1>4, <2>1 DEF Lookup, HasKey
<1>5. CASE at # NoItem
  <2>1. PICK b \in Blocks : \E i \in m[b] : at = <<b, i>>
    BY <1>1, <1>3, <1>5, Found
  <2>2. PICK i \in m[b] : at = <<b, i>>
    BY <2>1
  <2>3. i \in DOMAIN flash[b].items /\ Live(flash[b].items[i]) /\ flash[b].items[i].key = k
    BY <1>1, <2>2 DEF KeyMatch
  <2>4. Intact(flash[b].items[i])
    <3>1. i \in TornAt(flash, b) => <<b, i>> \in Torn(flash)
      BY KeptIn, ZenonT(40)
    <3> QED
      BY <2>3, <3>1 DEF TornAt
  <2>5. Lookup(k) = flash[b].items[i].val
    BY <1>1, <1>5, <2>2, <2>4 DEF Lookup
  <2> QED
    BY <1>1, <1>5, <2>2, <2>3, <2>4, <2>5 DEF WholeAt
<1> QED
  BY <1>1, <1>4, <1>5

-----------------------------------------------------------------------------
(* Boot                                                                      *)

\* A step of boot: only the facts about boot remain to be shown.
LEMMA FactsBoot == ASSUME pc' \in Booting, Rebooting' PROVE Facts'
  BY DEF Facts, Resting, Writing, Gathering, Booting, Erasing, Saving, Marking, Copying

\* A step that leaves no item half written: only the facts about resting remain to be shown.
LEMMA FactsRest ==
    ASSUME pc' \in {"locate", "locate_ws", "idle", "search", "wild"} \cup Erasing, Resting'
    PROVE  Facts'
  BY DEF Facts, Writing, Gathering, Rebooting, Booting, Erasing, Saving, Marking, Copying

\* A step of a save: only the facts about the set that is writing remain to be shown.
LEMMA FactsWrite == ASSUME pc' \in Saving \cup {"del_old"}, Writing' PROVE Facts'
  BY DEF Facts, Resting, Gathering, Rebooting, Booting, Erasing, Saving, Marking, Copying

\* A step of a copy: only the facts about the collection remain to be shown.
LEMMA FactsGather == ASSUME pc' \in Marking \cup {"inc_magic"}, Gathering' PROVE Facts'
  BY DEF Facts, Resting, Writing, Rebooting, Booting, Erasing, Saving, Marking, Copying

\* A store that boot can repair stays so while boot only drops copies in the destination.
LEMMA StillRepairable ==
    ASSUME NEW d \in Blocks, Repairable(d), allowed' = allowed, GcSrcs' = GcSrcs, GcDsts' = GcDsts,
           \A b \in Blocks : flash'[b].items = << >> <=> flash[b].items = << >>,
           \A b \in Blocks : flash[b].magic => flash'[b].magic,
           Off(Kept(flash'), d) = Off(Kept(flash), d), Kept(flash') \subseteq Kept(flash),
           Torn(flash') \subseteq Torn(flash)
    PROVE  Repairable(d)'
<1>1. /\ Single(Off(Kept(flash), d)) /\ Right(Off(Kept(flash), d), allowed)
      /\ \A t \in Torn(flash) : t[1] = d
      /\ Spare(flash, d) /\ d \notin GcSrcs /\ Lone(GcSrcs)
      /\ \A h \in In(Kept(flash), d) : HasKey(Off(Kept(flash), d), h.key)
      /\ GcDsts = {d} \/ (GcDsts = {} /\ flash[d].items = << >>)
  BY DEF Repairable
<1>2. Single(Off(Kept(flash'), d)) /\ Right(Off(Kept(flash'), d), allowed')
  BY <1>1
<1>3. \A t \in Torn(flash') : t[1] = d
  BY <1>1
<1>4. Spare(flash', d)
  BY <1>1 DEF Spare
<1>5. d \notin GcSrcs' /\ Lone(GcSrcs')
  BY <1>1
<1>6. \A h \in In(Kept(flash'), d) : HasKey(Off(Kept(flash'), d), h.key)
  BY <1>1 DEF In
<1>7. GcDsts' = {d} \/ (GcDsts' = {} /\ flash'[d].items = << >>)
  BY <1>1
<1> QED
  BY <1>2, <1>3, <1>4, <1>5, <1>6, <1>7 DEF Repairable

\* A step of boot that only drops items
LEMMA BootStep ==
    ASSUME Facts, pc \in Booting, pc' \in Booting \ {"failed"}, allowed' = allowed,
           cycles.n \in Nat, cycles'.n \in Nat, cycles'.n >= cycles.n, cycles'.window = cycles.window,
           GcSrcs' = GcSrcs, GcDsts' = GcDsts,
           \A b \in Blocks : flash'[b].items = << >> <=> flash[b].items = << >>,
           \A b \in Blocks : flash[b].magic => flash'[b].magic,
           Kept(flash') \subseteq Kept(flash), Torn(flash') \subseteq Torn(flash),
           GcSrcs = {} => Right(Kept(flash'), allowed),
           \A d \in Blocks : Repairable(d) => Off(Kept(flash'), d) = Off(Kept(flash), d),
           GcSrcs = {} /\ pc' # "off" =>
               \A b \in Blocks : (pc' # "incomplete" => b < cur') /\ Plain(flash'[b]) =>
                   Recover(flash', b) = {}
    PROVE  Facts'
<1>1. Rebooting
  BY DEF Facts
<1>2. ASSUME GcSrcs' = {}
      PROVE  /\ Linked(Kept(flash')) /\ Right(Kept(flash'), allowed')
             /\ cycles'.window => Single(Kept(flash')) /\ Torn(flash') = {}
  <2>1. Linked(Kept(flash)) /\ (cycles.window => Single(Kept(flash)) /\ Torn(flash) = {})
    BY <1>1, <1>2 DEF Rebooting
  <2> QED
    BY <1>2, <2>1 DEF Linked, Single
<1>3. ASSUME GcSrcs' # {}, Doomed PROVE Doomed'
  BY <1>3 DEF Doomed
<1>4. ASSUME NEW d \in Blocks, Repairable(d) PROVE Repairable(d)'
  BY <1>4, StillRepairable
<1>5. GcSrcs' # {} => Doomed' \/ (pc' # "failed" /\ \E d \in Blocks : Repairable(d)')
  BY <1>1, <1>3, <1>4 DEF Rebooting
<1>6. Rebooting'
  BY <1>2, <1>5 DEF Rebooting, Booting
<1> QED
  BY <1>6, FactsBoot

\* The steps of the scan that leave the items as they are
LEMMA ScanQuiet ==
    ASSUME KvInv, KvInv', MarkInv, Facts,
           ln_kv_init \/ ScanErase \/ ScanMagic \/ ScanMarked \/ ScanIndex \/ ScanDone
    PROVE  Facts'
<1>0. /\ flash \in [Blocks -> Block] /\ flash' \in [Blocks -> Block] /\ Formatted /\ Rebooting
      /\ cycles.n \in Nat /\ cur \in 0 .. NumBlk
  BY DEF KvInv, MarkInv, Facts
<1>1. /\ pc \in Booting /\ pc' \in {"scan", "scan_magic", "incomplete"} /\ allowed' = allowed
      /\ cycles' = cycles
  BY DEF ln_kv_init, ScanErase, ScanMagic, ScanMarked, ScanIndex, IndexBuild, ScanDone, Booting
<1>2. /\ GcSrcs' = GcSrcs /\ GcDsts' = GcDsts /\ \A b \in Blocks : flash'[b].items = flash[b].items
      /\ \A b \in Blocks : flash[b].magic => flash'[b].magic
  <2>1. CASE ScanMagic
    <3>1. cur \in Blocks /\ flash' = [flash EXCEPT ![cur].magic = TRUE]
      BY <2>1 DEF ScanMagic, KvInv, Scanning
    <3> QED
      BY <1>0, <3>1, MagicWritten
  <2>2. CASE ScanErase
    BY <1>0, <2>2, ScanEraseSame DEF GcSrcs, GcDsts
  <2>3. CASE ln_kv_init \/ ScanMarked \/ ScanIndex \/ ScanDone
    BY <2>3 DEF ln_kv_init, ScanMarked, ScanIndex, ScanDone, GcSrcs, GcDsts
  <2> QED
    BY <2>1, <2>2, <2>3
<1>3. /\ Kept(flash') = Kept(flash) /\ Torn(flash') = Torn(flash)
      /\ \A b \in Blocks : Recover(flash', b) = Recover(flash, b)
  BY <1>0, <1>2, KeptSame, RecoverSame
<1>4. ASSUME GcSrcs = {}, NEW b \in Blocks, pc' # "incomplete" => b < cur', Plain(flash'[b])
      PROVE  Recover(flash', b) = {}
  <2>1. pc \in {"scan", "scan_magic"} /\ b < cur /\ Plain(flash[b]) => Recover(flash, b) = {}
    BY <1>0, <1>1, <1>4 DEF Rebooting
  <2>2. CASE ln_kv_init
    BY <1>4, <2>2, BlocksNat DEF ln_kv_init
  <2>3. CASE ScanErase
    BY <1>0, <1>3, <1>4, <2>1, <2>3, ScanEraseSame DEF ScanErase
  <2>4. CASE ScanMagic
    <3>1. /\ cur \in Blocks /\ flash[cur].items = << >> /\ pc = "scan_magic" /\ cur' = cur + 1
          /\ pc' = "scan" /\ flash' = [flash EXCEPT ![cur].magic = TRUE]
      BY <2>4, ErasedRight DEF ScanMagic, KvInv, Scanning
    <3>2. Recover(flash, cur) = {}
      BY <3>1 DEF Recover
    <3>3. b # cur => flash'[b] = flash[b] /\ b < cur
      BY <1>0, <1>4, <3>1, BlocksNat
    <3> QED
      BY <1>3, <1>4, <2>1, <3>1, <3>2, <3>3
  <2>5. CASE ScanMarked
    <3>1. pc = "scan" /\ pc' = "scan" /\ cur' = cur + 1 /\ flash' = flash /\ ~Plain(flash[cur])
      BY <2>5 DEF ScanMarked, Plain
    <3>2. b < cur
      BY <1>0, <1>4, <3>1, BlocksNat
    <3> QED
      BY <1>3, <1>4, <2>1, <3>1, <3>2
  <2>6. CASE ScanIndex
    <3>1. pc = "scan" /\ cur' = cur + 1 /\ flash' = flash /\ Recover(flash, cur) = {} /\ pc' = "scan"
      BY <2>6 DEF ScanIndex, IndexBuild
    <3>2. b = cur \/ b < cur
      BY <1>0, <1>4, <3>1, BlocksNat
    <3> QED
      BY <1>3, <1>4, <2>1, <3>1, <3>2
  <2>7. CASE ScanDone
    <3>1. pc = "scan" /\ flash' = flash /\ cur \notin Blocks
      BY <2>7 DEF ScanDone
    <3>2. b < cur
      BY <1>0, <3>1, KvSizes DEF Blocks
    <3> QED
      BY <1>3, <1>4, <2>1, <3>1, <3>2
  <2> QED
    BY <2>2, <2>3, <2>4, <2>5, <2>6, <2>7
<1>5. GcSrcs = {} => Right(Kept(flash'), allowed)
  BY <1>0, <1>1, <1>3 DEF Rebooting
<1>6. pc' \in Booting \ {"failed"} /\ cycles'.n = cycles.n /\ cycles'.window = cycles.window
  BY <1>1 DEF Booting
<1> QED
  BY <1>0, <1>1, <1>2, <1>3, <1>4, <1>5, <1>6, BootStep

\* Recovery drops an item that is torn, or one whose key has another value.
LEMMA RecoverFacts == ASSUME KvInv, KvInv', MarkInv, Facts, ScanRecover PROVE Facts'
<1>0. /\ flash \in [Blocks -> Block] /\ flash' \in [Blocks -> Block] /\ Formatted /\ Rebooting
      /\ cycles.n \in Nat /\ cur \in Blocks /\ pc = "scan" /\ pc' = "scan" /\ cur' = cur
      /\ allowed' = allowed /\ cycles' = cycles /\ Plain(flash[cur])
      /\ \A b \in Blocks : LaidOut(flash[b])
  BY DEF KvInv, MarkInv, Facts, ScanRecover, IndexBuild, Plain
<1>1. PICK i \in Recover(flash, cur) : \E b \in Blocks : \E j \in DOMAIN flash[b].items :
          Discards(flash, cur, i) = <<b, j>> /\ Drops(flash, flash', b, j)
  BY RecoverDrops
<1>2. PICK b \in Blocks : \E j \in DOMAIN flash[b].items :
          Discards(flash, cur, i) = <<b, j>> /\ Drops(flash, flash', b, j)
  BY <1>1
<1>3. PICK j \in DOMAIN flash[b].items :
          Discards(flash, cur, i) = <<b, j>> /\ Drops(flash, flash', b, j)
  BY <1>2
<1>4. Kept(flash') = Kept(flash) \ {Item(flash, b, j)} /\ Torn(flash') = Torn(flash) \ {<<b, j>>}
  BY <1>0, <1>3, KeptDrops
<1>5. /\ \A c \in Blocks : flash'[c].items = << >> <=> flash[c].items = << >>
      /\ \A c \in Blocks : SameMark(flash[c], flash'[c]) /\ Plain(flash'[c]) = Plain(flash[c])
  BY <1>0, <1>3, DropsRoom
<1>6. GcSrcs' = GcSrcs /\ GcDsts' = GcDsts /\ \A c \in Blocks : flash[c].magic => flash'[c].magic
  BY <1>5, SameSets DEF SameMark
<1>7. \A c \in Blocks : Recover(flash', c) \subseteq Recover(flash, c)
  <2>1. \A c \in Blocks : Discarded(flash[c], flash[c])
    BY <1>0, ItemsOf DEF Discarded, WithItems
  <2>2. \A c \in Blocks : Discarded(flash[c], flash'[c])
    BY <1>3, <2>1 DEF Drops
  <2> QED
    BY <1>0, <2>2, RecoverLess
<1>8. \/ b = cur /\ j = i /\ i \in TornAt(flash, cur)
      \/ /\ i \in WholeAt(flash, cur) /\ j \in WholeAt(flash, b) \cup TornAt(flash, b)
         /\ flash[b].items[j].key = flash[cur].items[i].key
         /\ flash[cur].items[i].prev = <<b, flash[b].items[j].off>>
         /\ flash[cur].items[i].prev # <<cur, flash[cur].items[i].off>>
  BY <1>0, <1>3, RecoverIs
<1>9. ASSUME NEW c \in Blocks, NEW n, n \notin WholeAt(flash, c)
      PROVE  Item(flash, c, n) \notin Kept(flash)
  BY <1>9, KeptIn, ItemIs
<1>10. CASE j \notin WholeAt(flash, b)
  <2>1. Kept(flash') = Kept(flash) /\ Torn(flash') \subseteq Torn(flash)
    BY <1>4, <1>9, <1>10
  <2>2. GcSrcs = {} => Right(Kept(flash'), allowed)
    BY <1>0, <2>1 DEF Rebooting, Booting
  <2>3. GcSrcs = {} => \A c \in Blocks : c < cur' /\ Plain(flash'[c]) => Recover(flash', c) = {}
    BY <1>0, <1>5, <1>7 DEF Rebooting, Booting
  <2> QED
    BY <1>0, <1>5, <1>6, <2>1, <2>2, <2>3, BootStep DEF Booting
<1>11. CASE j \in WholeAt(flash, b)
  <2>1. j \notin TornAt(flash, b)
    BY <1>11 DEF WholeAt, TornAt
  <2>2. PICK p, q : p = Item(flash, cur, i) /\ q = Item(flash, b, j)
    OBVIOUS
  <2>3. /\ p \in Kept(flash) /\ q \in Kept(flash) /\ p.key = q.key /\ p # q
        /\ p.blk = cur /\ q.blk = b /\ i \in WholeAt(flash, cur)
    BY <1>0, <1>8, <1>11, <2>1, <2>2, KeptIn, ItemIs
  <2>4. Kept(flash') = Kept(flash) \ {q} /\ Torn(flash') \subseteq Torn(flash)
    BY <1>4, <2>2
  <2>5. GcSrcs = {} => Right(Kept(flash'), allowed)
    <3>1. GcSrcs = {} => Right(Kept(flash), allowed)
      BY <1>0 DEF Rebooting, Booting
    <3> QED
      BY <2>3, <2>4, <3>1 DEF Right, HasKey
  <2>6. ASSUME NEW d \in Blocks, Repairable(d)
        PROVE  Off(Kept(flash'), d) = Off(Kept(flash), d)
    <3>1. Single(Off(Kept(flash), d)) /\ (GcDsts = {d} \/ flash[d].items = << >>)
      BY <2>6 DEF Repairable
    <3>2. GcDsts = {d} => ~Plain(flash[d])
      BY DEF GcDsts, Plain
    <3>3. flash[cur].items # << >>
      BY <1>0, <2>3, ItemsOf DEF WholeAt
    <3>4. cur # d
      BY <1>0, <3>1, <3>2, <3>3
    <3>5. b = d
      BY <2>3, <3>1, <3>4 DEF Single, Off
    <3> QED
      BY <2>3, <2>4, <3>5 DEF Off
  <2>7. GcSrcs = {} => \A c \in Blocks : c < cur' /\ Plain(flash'[c]) => Recover(flash', c) = {}
    BY <1>0, <1>5, <1>7 DEF Rebooting, Booting
  <2>8. /\ pc \in Booting /\ pc' \in Booting \ {"failed"} /\ cycles'.n \in Nat /\ cycles'.n >= cycles.n
        /\ cycles'.window = cycles.window /\ Kept(flash') \subseteq Kept(flash)
    BY <1>0, <2>4 DEF Booting
  <2>9. GcSrcs = {} /\ pc' # "off" =>
            \A c \in Blocks : (pc' # "incomplete" => c < cur') /\ Plain(flash'[c]) =>
                Recover(flash', c) = {}
    BY <1>0, <2>7
  <2> QED
    BY <1>0, <1>5, <1>6, <2>4, <2>5, <2>6, <2>8, <2>9, BootStep
<1> QED
  BY <1>10, <1>11

-----------------------------------------------------------------------------
(* The interrupted collection                                                *)

\* A set with at most one element passes the test for too many marked blocks.
LEMMA LoneSize == ASSUME NEW S, Lone(S) PROVE ~(Cardinality(S) > 1)
<1>1. CASE S = {}
  BY <1>1, FS_EmptySet
<1>2. CASE S # {}
  <2>1. PICK x : S = {x}
    BY <1>2 DEF Lone
  <2> QED
    BY <2>1, FS_Singleton
<1> QED
  BY <1>1, <1>2

\* A destination without its mark is known to be fresh.
LEMMA BlankFound ==
    ASSUME KvInv, MarkInv, IndexInv, Good, pc = "incomplete", NEW d \in Blocks, Repairable(d),
           GcSrcs # {}, GcDsts = {}
    PROVE  d \in Fresh(ram)
<1>1. ~cycles.window
  BY DEF MarkInv, Marks, Booting
<1>2. Plain(flash[d]) /\ flash[d].items = << >>
  BY DEF Repairable, GcSrcs, GcDsts, Plain
<1> QED
  BY <1>1, <1>2 DEF IndexInv, IndexFacts, Scanned

\* Boot gives up only on a destination that was done before.
LEMMA FailsFacts ==
    ASSUME KvInv, MarkInv, IndexInv, Good, Facts, IncompleteFails PROVE Facts'
<1>0. /\ pc = "incomplete" /\ pc' = "failed" /\ flash' = flash /\ allowed' = allowed /\ cycles' = cycles
      /\ IncompleteError /\ Rebooting /\ pc \in Booting /\ pc' \in Booting
  BY DEF IncompleteFails, Facts, Booting
<1>1. GcSrcs # {}
  <2>1. SUFFICES ASSUME GcSrcs = {} PROVE FALSE
    OBVIOUS
  <2>2. Lone(GcDsts)
    BY <1>0, <2>1 DEF MarkInv, Marks, Lone
  <2>3. Cardinality(GcSrcs) = 0
    BY <2>1, FS_EmptySet
  <2> QED
    BY <1>0, <2>1, <2>2, <2>3, LoneSize DEF IncompleteError
<1>2. Doomed
  <2>1. SUFFICES ASSUME NEW d \in Blocks, Repairable(d) PROVE FALSE
    BY <1>0, <1>1 DEF Rebooting
  <2>2. Lone(GcSrcs) /\ Lone(GcDsts)
    BY <2>1 DEF Repairable, Lone
  <2>3. GcDsts = {} /\ Fresh(ram) = {}
    BY <1>0, <2>2, LoneSize DEF IncompleteError
  <2> QED
    BY <1>0, <1>1, <2>1, <2>3, BlankFound
<1>3. GcSrcs' = GcSrcs /\ GcDsts' = GcDsts
  BY <1>0 DEF GcSrcs, GcDsts
<1>4. Doomed'
  BY <1>0, <1>2, <1>3 DEF Doomed
<1>5. Rebooting'
  BY <1>0, <1>1, <1>3, <1>4 DEF Rebooting
<1> QED
  BY <1>0, <1>5, FactsBoot

\* Nothing to complete: the scan has recovered all blocks.
LEMMA NoneFacts ==
    ASSUME KvInv, MarkInv, Good, Facts, IncompleteNone PROVE Facts'
<1>0. /\ pc = "incomplete" /\ pc' = "locate" /\ flash' = flash /\ allowed' = allowed
      /\ GcSrcs = {} /\ Rebooting /\ pc \in Booting /\ flash \in [Blocks -> Block]
      /\ \A b \in Blocks : LaidOut(flash[b])
  BY DEF IncompleteNone, Facts, Booting, KvInv
<1>1. /\ Linked(Kept(flash)) /\ Right(Kept(flash), allowed)
      /\ cycles.window => Single(Kept(flash)) /\ Torn(flash) = {}
      /\ \A b \in Blocks : Plain(flash[b]) => Recover(flash, b) = {}
  BY <1>0 DEF Rebooting
<1>2. ASSUME ~cycles.window PROVE Single(Kept(flash)) /\ Torn(flash) = {}
  <2>1. GcDsts = {}
    BY <1>0, <1>2 DEF MarkInv, Marks
  <2>2. \A b \in Blocks : Plain(flash[b])
    BY <1>0, <2>1 DEF GcSrcs, GcDsts, Plain
  <2>3. \A b \in Blocks : Recover(flash, b) = {}
    BY <1>1, <2>2
  <2>4. \A b \in Blocks : /\ TornAt(flash, b) = {}
                          /\ \A g, h \in Kept(flash) : g.blk = b /\ g.key = h.key /\ g.prev = h.pos => g = h
    BY <1>0, <2>3, Recovered
  <2>5. \A h \in Kept(flash) : h.blk \in Blocks
    BY KeptIn, ItemIs
  <2>6. Torn(flash) = {}
    BY <2>4, KeptIn
  <2>7. Single(Kept(flash))
    BY <1>1, <2>4, <2>5 DEF Linked, Single
  <2> QED
    BY <2>6, <2>7
<1>3. Resting'
  BY <1>0, <1>1, <1>2 DEF Resting, Erasing
<1> QED
  BY <1>0, <1>3, FactsRest

\* The marked destination is erased: it held only copies.
LEMMA EraseFacts ==
    ASSUME KvInv, MarkInv, Good, Facts, IncompleteErase PROVE Facts'
<1>0. /\ pc = "incomplete" /\ pc' = "inc_magic" /\ allowed' = allowed /\ cycles' = cycles
      /\ GcSrcs # {} /\ GcDsts # {} /\ Rebooting /\ pc \in Booting /\ flash \in [Blocks -> Block]
  BY DEF IncompleteErase, Facts, Booting, KvInv
<1>1. PICK d : d = FirstBlk(GcDsts)
  OBVIOUS
<1>2. flash' = [flash EXCEPT ![d] = Erased] /\ gc'.dst = d /\ gc'.from = "incomplete"
  BY <1>1 DEF IncompleteErase
<1>3. PICK e \in Blocks : Repairable(e)
  BY <1>0 DEF Rebooting, Doomed
<1>4. d = e /\ d \in Blocks
  <2>1. GcDsts = {e} /\ GcDsts \subseteq Blocks
    BY <1>0, <1>3 DEF Repairable, GcDsts
  <2> QED
    BY <1>1, <2>1, FirstBlkIn
<1>5. flash'[d] = Erased /\ \A c \in Blocks \ {d} : flash'[c] = flash[c]
  BY <1>0, <1>2, <1>4, ErasedRight
<1>6. Kept(flash') = Off(Kept(flash), d) /\ \A t : t \in Torn(flash') <=> t \in Torn(flash) /\ t[1] # d
  BY <1>4, <1>5, KeptErase, ErasedRight
<1>7. Single(Off(Kept(flash), d)) /\ Right(Off(Kept(flash), d), allowed) /\ Spare(flash, d)
      /\ \A t \in Torn(flash) : t[1] = d
  BY <1>3, <1>4 DEF Repairable
<1>8. Off(Kept(flash'), d) = Off(Kept(flash), d) /\ Torn(flash') = {}
  BY <1>6, <1>7 DEF Off
<1>9. Spare(flash', d) /\ ~flash'[d].done
  BY <1>5, <1>7 DEF Spare, Erased
<1>10. Gathering'
  BY <1>0, <1>2, <1>7, <1>8, <1>9 DEF Gathering, Marking, Copying
<1> QED
  BY <1>0, <1>10, FactsGather

\* kv_incomplete_gc_handle writes the magic word of the destination it erased: no item changes.
LEMMA MagicFacts ==
    ASSUME KvInv, MarkInv, Good, Facts, IncompleteMagic PROVE Facts'
<1>0. /\ pc = "inc_magic" /\ pc' = "gc_dst" /\ allowed' = allowed /\ cycles' = cycles /\ gc' = gc
      /\ op' = op /\ Gathering /\ flash \in [Blocks -> Block] /\ gc.dst \in Blocks /\ Formatted
      /\ flash' = [flash EXCEPT ![gc.dst].magic = TRUE]
  BY DEF IncompleteMagic, Facts, KvInv, Gc, MarkInv
<1>1. /\ \A c \in Blocks \ {gc.dst} : flash'[c] = flash[c]
      /\ flash'[gc.dst].items = flash[gc.dst].items /\ flash'[gc.dst].done = flash[gc.dst].done
  BY <1>0, MagicWritten
<1>2. Kept(flash') = Kept(flash) /\ Torn(flash') = Torn(flash)
  BY <1>1, KeptSame
<1>3. /\ Single(Off(Kept(flash), gc.dst)) /\ Right(Off(Kept(flash), gc.dst), allowed)
      /\ gc.from = "search" => Unsaved(Off(Kept(flash), gc.dst), op, allowed)
      /\ ~cycles.window => Spare(flash, gc.dst)
      /\ flash[gc.dst].done => cycles.n >= 1
      /\ Torn(flash) = {}
  BY <1>0 DEF Gathering, Copying
<1>4. ~cycles'.window => Spare(flash', gc.dst)
  BY <1>0, <1>1, <1>3 DEF Spare
<1>5. Gathering'
  BY <1>0, <1>1, <1>2, <1>3, <1>4 DEF Gathering, Marking, Copying
<1> QED
  BY <1>0, <1>5, FactsGather DEF Marking

\* The only blank block becomes the destination.
LEMMA FreshFacts ==
    ASSUME KvInv, MarkInv, IndexInv, Good, Facts, Unspoiled, IncompleteFresh PROVE Facts'
<1>0. /\ pc = "incomplete" /\ pc' = "gc_dst" /\ allowed' = allowed /\ cycles' = cycles /\ flash' = flash
      /\ GcSrcs # {} /\ GcDsts = {} /\ Rebooting /\ pc \in Booting /\ flash \in [Blocks -> Block]
      /\ Fresh(ram) # {} /\ cycles.n \in Nat
  BY DEF IncompleteFresh, IncompleteError, Facts, Booting, KvInv
<1>1. PICK d : d = LastFresh
  OBVIOUS
<1>2. gc'.dst = d /\ gc'.from = "incomplete"
  BY <1>1 DEF IncompleteFresh
<1>3. d \in Fresh(ram) /\ Exempt = {}
  BY <1>0, <1>1, LastFreshIn DEF Exempt, Saving, Collecting, Copying
<1>4. d \in Blocks /\ flash[d].items = << >>
  BY <1>3, FreshBlank
<1>5. PICK e \in Blocks : Repairable(e)
  BY <1>0, <1>4 DEF Rebooting, Doomed
<1>6. d = e
  BY <1>4, <1>5 DEF Repairable, Spare
<1>7. /\ Single(Off(Kept(flash), d)) /\ Right(Off(Kept(flash), d), allowed) /\ Spare(flash, d)
      /\ \A t \in Torn(flash) : t[1] = d
  BY <1>5, <1>6 DEF Repairable
<1>8. Torn(flash) = {}
  BY <1>4, <1>7, KeptIn DEF TornAt
<1>9. flash[d].done => cycles.n >= 1
  BY <1>0, <1>4 DEF Unspoiled
<1>10. Gathering'
  BY <1>0, <1>2, <1>7, <1>8, <1>9 DEF Gathering, Marking, Copying
<1> QED
  BY <1>0, <1>10, FactsGather DEF Marking

-----------------------------------------------------------------------------
(* The start of a collection                                                 *)

\* The fresh block that becomes the destination holds none of the values.
LEMMA StartFacts ==
    ASSUME KvInv, MarkInv, Facts, pc \in {"locate", "search"}, pc' = "gc_dst", NEW s \in Blocks,
           NEW d \in Fresh(ram), flash' = [flash EXCEPT ![s].src = TRUE], gc'.dst = d,
           gc'.from = "search" => pc = "search",
           op' = op, allowed' = allowed, cycles' = cycles,
           ~cycles.window => \A b \in Blocks \ {d} : flash[b].items # << >>,
           flash[d].done => cycles.n >= 1
    PROVE  Facts'
<1>0. flash \in [Blocks -> Block] /\ Formatted /\ Resting /\ Exempt = {}
  BY DEF KvInv, MarkInv, Facts, Exempt, Saving, Collecting, Copying
<1>1. PICK y : /\ flash' = [flash EXCEPT ![s] = y]
               /\ y \in Block /\ y.items = flash[s].items /\ y.magic = flash[s].magic
               /\ y.src = TRUE /\ y.dst = flash[s].dst /\ y.done = flash[s].done
  BY <1>0, MarkPut, ZenonT(40)
<1>2. flash'[s] = y /\ \A c \in Blocks \ {s} : flash'[c] = flash[c]
  BY <1>0, <1>1, Replaced
<1>3. \A c \in Blocks : /\ flash'[c].items = flash[c].items /\ flash'[c].magic = flash[c].magic
                        /\ flash'[c].done = flash[c].done
  BY <1>1, <1>2
<1>4. Kept(flash') = Kept(flash) /\ Torn(flash') = Torn(flash)
  BY <1>3, KeptSame
<1>5. d \in Blocks /\ flash[d].items = << >>
  BY <1>0, FreshBlank
<1>6. Off(Kept(flash), d) = Kept(flash)
  <2>1. WholeAt(flash, d) = {}
    BY <1>5 DEF WholeAt
  <2> QED
    BY <2>1, KeptIn, ItemIs DEF Off
<1>7. /\ Single(Kept(flash)) /\ Right(Kept(flash), allowed) /\ Torn(flash) = {}
      /\ pc = "search" => Unsaved(Kept(flash), op, allowed)
  BY <1>0 DEF Resting
<1>8. ~cycles'.window => Spare(flash', d)
  BY <1>0, <1>3 DEF Spare, Formatted
<1>9. flash'[d].done => cycles'.n >= 1
  BY <1>3, <1>5
<1>10. Gathering'
  BY <1>4, <1>6, <1>7, <1>8, <1>9 DEF Gathering, Marking, Copying
<1> QED
  BY <1>10, FactsGather DEF Marking

\* A block index is a number and not the invalid index.
LEMMA BlockIs == \A b \in Blocks : b \in Int /\ b # Invalid
  BY BlocksNat DEF Invalid

\* With num_fresh = 1 a fresh block is the only one.
LEMMA OneFresh ==
    ASSUME RamOk(ram), ram.numFresh = 1, NEW d \in Fresh(ram)
    PROVE  Fresh(ram) = {d}
<1>1. ram \in Ram /\ Cardinality(Fresh(ram)) = 1
  BY DEF RamOk, Counted
<1>2. \E x : Fresh(ram) = {x}
  BY <1>1, FlagSets, FS_Singleton
<1> QED
  BY <1>2

\* The rescue of kv_mgr_workspace_locate: no block but the fresh one has room.
LEMMA LocateGcFacts ==
    ASSUME KvInv, MarkInv, IndexInv, Facts, Unspoiled, LocateGc PROVE Facts'
<1>0. /\ pc = "locate" /\ pc' = "gc_dst" /\ op' = op /\ allowed' = allowed /\ cycles' = cycles
      /\ ram.numInuse = 0 /\ ram.numFresh = 1 /\ Dirty(ram) # {} /\ RamOk(ram) /\ ram \in Ram
      /\ cycles.n \in Nat
  BY DEF LocateGc, Rescue, KvInv, RamOk
<1>1. PICK s, d : s = FirstBlk(Dirty(ram)) /\ d = FirstBlk(Fresh(ram))
  OBVIOUS
<1>2. /\ flash' = [flash EXCEPT ![s].src = TRUE] /\ gc'.dst = d /\ gc'.from = "locate"
  BY <1>1 DEF LocateGc
<1>3. s \in Blocks
  BY <1>0, <1>1, FirstBlkIn DEF Dirty
<1>4. Fresh(ram) # {}
  BY <1>0, FS_EmptySet DEF RamOk, Counted
<1>5. d \in Fresh(ram) /\ d \in Blocks
  BY <1>1, <1>4, FirstBlkIn DEF Fresh
<1>6. ASSUME ~cycles.window, NEW b \in Blocks \ {d} PROVE flash[b].items # << >>
  <2>1. IndexFacts
    BY <1>6 DEF IndexInv
  <2>2. Inuse(ram) = {}
    BY <1>0, <2>1, FlagSets, FS_EmptySet DEF IndexFacts, Counting, Exact
  <2>3. Fresh(ram) = {d}
    BY <1>0, <1>5, OneFresh
  <2>4. Complete(ram, flash, b)
    <3>1. pc \in Running \ {"overrun", "wild"} /\ Exempt = {}
      BY <1>0 DEF Running, Exempt, Saving, Collecting, Copying
    <3> QED
      BY <1>6, <2>1, <3>1, RunningComplete
  <2> QED
    BY <1>6, <2>2, <2>3, <2>4 DEF Complete
<1>7. flash[d].done => cycles.n >= 1
  BY <1>0, <1>5 DEF Unspoiled
<1> QED
  BY <1>0, <1>2, <1>3, <1>5, <1>6, <1>7, StartFacts

\* kv_gc: a blank block that is not fresh would have been chosen.
LEMMA BlankChosen ==
    ASSUME KvInv, FitsBlank, pc = "search", Writeable(ram), NEW b \in Inuse(ram), flash[b].items = << >>
    PROVE  /\ Choosing(ram, ItemSize(op.val)) # Invalid
           /\ b = ram.workspace => Choosing(ram, ItemSize(op.val)) = b
<1>0. RamOk(ram) /\ flash \in [Blocks -> Block] /\ op \in Op /\ op.val \in Vals /\ b \in Blocks
  BY DEF KvInv, Setting, Op, Inuse
<1>1. ram.free[b] > HdrSize /\ Describes(ram, flash, b) /\ ram.workspace \in Blocks
  BY <1>0, Described DEF RamOk, FlagsRight, Inuse, Writeable
<1>2. ram.free[b] = BlkFresh
  BY <1>0, <1>1, ItemsOf, KvSizes DEF Describes
<1>3. ItemSize(op.val) \in Nat /\ ItemSize(op.val) <= BlkFresh
  BY <1>0, KvSizes DEF FitsBlank, ItemSize
<1>4. b \in Roomy(ram, ItemSize(op.val))
  BY <1>2, <1>3, KvSizes DEF Roomy
<1>5. ram.workspace \in Int /\ ram.workspace # Invalid /\ Roomy(ram, ItemSize(op.val)) \subseteq Blocks
  <2>1. ram.workspace \in Int /\ ram.workspace # Invalid
    BY <1>1, BlockIs
  <2>2. Roomy(ram, ItemSize(op.val)) \subseteq Blocks
    BY DEF Roomy, Inuse
  <2> QED
    BY <2>1, <2>2
<1>6. CASE ram.free[ram.workspace] >= ItemSize(op.val)
  BY <1>5, <1>6 DEF Choosing
<1>7. CASE ~(ram.free[ram.workspace] >= ItemSize(op.val))
  <2>1. b # ram.workspace
    BY <1>2, <1>3, <1>7, KvSizes
  <2>2. NextBlk(Roomy(ram, ItemSize(op.val)), ram.workspace) \in Blocks
    BY <1>4, <1>5, <2>1, NextBlkIn
  <2>3. NextBlk(Roomy(ram, ItemSize(op.val)), ram.workspace) # Invalid
    BY <2>2, BlocksNat DEF Invalid
  <2> QED
    BY <1>7, <2>1, <2>3 DEF Choosing
<1> QED
  BY <1>6, <1>7

\* kv_blk_search_suitable starts a collection for a set: the destination is a blank block, and the
\* values are all in the others.
LEMMA SearchGcFacts ==
    ASSUME KvInv, MarkInv, IndexInv, FitsBlank, Facts, Unspoiled, SearchGc PROVE Facts'
<1>0. /\ pc = "search" /\ pc' = "gc_dst" /\ op' = op /\ allowed' = allowed /\ cycles' = cycles
      /\ NeedsGc(ram, ItemSize(op.val)) /\ RamOk(ram) /\ ram \in Ram /\ cycles.n \in Nat
  BY DEF SearchGc, KvInv, RamOk
<1>1. PICK s, d : s = FirstBlk(Dirty(ram)) /\ d = NextBlk(Fresh(ram), ram.workspace)
  OBVIOUS
<1>2. /\ flash' = [flash EXCEPT ![s].src = TRUE] /\ gc'.dst = d /\ gc'.from = "search"
  BY <1>1 DEF SearchGc
<1>3. /\ Dirty(ram) # {} /\ ram.numFresh = 1 /\ d # Invalid /\ Writeable(ram)
      /\ Choosing(ram, ItemSize(op.val)) = Invalid
  BY <1>0, <1>1 DEF NeedsGc, CanGc
<1>4. s \in Blocks
  BY <1>1, <1>3, FirstBlkIn DEF Dirty
<1>5. d \in Fresh(ram) /\ d \in Blocks /\ d # ram.workspace
  <2>1. ram.workspace \in Int
    BY <1>3, BlockIs DEF Writeable
  <2>2. Fresh(ram) \subseteq Blocks
    BY DEF Fresh
  <2> QED
    BY <1>1, <1>3, <2>1, <2>2, NextBlkIn
<1>6. ASSUME ~cycles.window, NEW b \in Blocks \ {d} PROVE flash[b].items # << >>
  <2>1. IndexFacts
    BY <1>6 DEF IndexInv
  <2>2. Fresh(ram) = {d}
    BY <1>0, <1>3, <1>5, OneFresh
  <2>3. Complete(ram, flash, b)
    <3>1. pc \in Running \ {"overrun", "wild"} /\ Exempt = {}
      BY <1>0 DEF Running, Exempt, Saving, Collecting, Copying
    <3> QED
      BY <1>6, <2>1, <3>1, RunningComplete
  <2>4. b \notin Inuse(ram) \/ flash[b].items # << >>
    BY <1>0, <1>3, BlankChosen
  <2> QED
    BY <1>6, <2>2, <2>3, <2>4 DEF Complete
<1>7. flash[d].done => cycles.n >= 1
  <2>1. Exempt = {}
    BY <1>0 DEF Exempt, Saving, Collecting, Copying
  <2> QED
    BY <1>0, <1>5, <2>1, FreshBlank DEF Unspoiled
<1> QED
  BY <1>0, <1>2, <1>4, <1>5, <1>6, <1>7, StartFacts

-----------------------------------------------------------------------------
(* The writes of an item                                                     *)

\* A header is appended.
LEMMA HeaderKept ==
    ASSUME flash \in [Blocks -> Block], NEW b \in Blocks, NEW s \in Slot, s.st = "hdr",
           flash' = PutHeader(b, s)
    PROVE  /\ Kept(flash') = Kept(flash) /\ Torn(flash') = Torn(flash)
           /\ \A c \in Blocks \ {b} : flash'[c] = flash[c]
           /\ SameMark(flash[b], flash'[b]) /\ flash'[b].items # << >>
           /\ flash'[b].items = Append(flash[b].items, s) /\ LastItem(flash'[b]) = s
<1>1. \E y : /\ PutHeader(b, s) = [flash EXCEPT ![b] = y]
             /\ WithItems(flash[b], y, Append(flash[b].items, s))
  BY HeaderPut, Zenon
<1>2. PICK y : flash' = [flash EXCEPT ![b] = y] /\ WithItems(flash[b], y, Append(flash[b].items, s))
  BY <1>1, Zenon
<1>3. y \in Block /\ y.items = Append(flash[b].items, s) /\ SameMark(flash[b], y)
  BY <1>2 DEF WithItems, SameMark
<1>4. flash'[b] = y /\ \A c \in Blocks \ {b} : flash'[c] = flash[c]
  BY <1>2, <1>3, Replaced
<1>5. Kept(flash') = Kept(flash) /\ Torn(flash') = Torn(flash)
  BY <1>3, <1>4, KeptHeader
<1>6. LastItem(y) = s /\ y.items # << >>
  <2>1. flash[b].items \in Seq(Slot)
    BY ItemsOf
  <2> QED
    BY <1>3, <2>1 DEF LastItem
<1> QED
  BY <1>3, <1>4, <1>5, <1>6

\* The next bytes of the last item are written.
LEMMA StageKept ==
    ASSUME flash \in [Blocks -> Block], NEW b \in Blocks, NEW st \in {"magic", "key", "full"},
           flash[b].items # << >>, ~Intact(LastItem(flash[b])), ~LastItem(flash[b]).disc,
           flash' = PutStage(b, st)
    PROVE  LET n == Len(flash[b].items)
               s == LastItem(flash[b])
               t == LastItem(flash'[b])
           IN  /\ \A c \in Blocks \ {b} : flash'[c] = flash[c]
               /\ SameMark(flash[b], flash'[b]) /\ Len(flash'[b].items) = n
               /\ flash'[b].items # << >>
               /\ t.key = s.key /\ t.val = s.val /\ t.prev = s.prev /\ ~t.disc
               /\ st # "full" => Kept(flash') = Kept(flash) /\ Torn(flash') \subseteq Torn(flash) \cup {<<b, n>>}
               /\ st = "full" =>
                      /\ Torn(flash') = Torn(flash) \ {<<b, n>>}
                      /\ \E h : /\ Kept(flash') = Kept(flash) \cup {h} /\ h \notin Kept(flash)
                                /\ h.blk = b /\ h.idx = n /\ h.pos = <<b, s.off>>
                                /\ h.key = s.key /\ h.val = s.val /\ h.prev = s.prev
<1>1. \E y : /\ PutStage(b, st) = [flash EXCEPT ![b] = y]
             /\ WithItems(flash[b], y, y.items)
             /\ Len(y.items) = Len(flash[b].items) /\ y.items # << >>
             /\ \A i \in 1 .. Len(y.items) - 1 : y.items[i] = flash[b].items[i]
             /\ LastItem(y).st = st /\ LastItem(y).off = LastItem(flash[b]).off
             /\ LastItem(y).key = LastItem(flash[b]).key
             /\ LastItem(y).val = LastItem(flash[b]).val
             /\ LastItem(y).prev = LastItem(flash[b]).prev
             /\ LastItem(y).disc = LastItem(flash[b]).disc
  <2>1. st \in Stages
    BY DEF Stages
  <2> QED
    BY <2>1, StagePut, Zenon
<1>2. PICK y : /\ flash' = [flash EXCEPT ![b] = y]
               /\ WithItems(flash[b], y, y.items)
               /\ Len(y.items) = Len(flash[b].items) /\ y.items # << >>
               /\ \A i \in 1 .. Len(y.items) - 1 : y.items[i] = flash[b].items[i]
               /\ LastItem(y).st = st /\ LastItem(y).off = LastItem(flash[b]).off
               /\ LastItem(y).key = LastItem(flash[b]).key
               /\ LastItem(y).val = LastItem(flash[b]).val
               /\ LastItem(y).prev = LastItem(flash[b]).prev
               /\ LastItem(y).disc = LastItem(flash[b]).disc
  BY <1>1, Zenon
<1>3. y \in Block /\ SameMark(flash[b], y)
  BY <1>2 DEF WithItems, SameMark
<1>4. flash' \in [Blocks -> Block] /\ flash'[b] = y /\ \A c \in Blocks \ {b} : flash'[c] = flash[c]
  BY <1>2, <1>3, Replaced
<1>5. PICK n, s, t : n = Len(flash[b].items) /\ s = LastItem(flash[b]) /\ t = LastItem(y)
  OBVIOUS
<1>a. /\ t.st = st /\ t.off = s.off /\ t.key = s.key /\ t.val = s.val /\ t.prev = s.prev
      /\ t.disc = s.disc /\ LastItem(flash'[b]) = t /\ Len(flash'[b].items) = n /\ ~Intact(s)
      /\ flash'[b].items[n] = t /\ ~s.disc
  BY <1>2, <1>4, <1>5 DEF LastItem
<1>b. ~t.disc
  BY <1>a, Zenon
<1>c. /\ LastItem(flash'[b]).st \in {"magic", "key"} =>
             Kept(flash') = Kept(flash) /\ Torn(flash') \subseteq Torn(flash) \cup {<<b, n>>}
      /\ LastItem(flash'[b]).st = "full" /\ ~LastItem(flash'[b]).disc =>
             Kept(flash') = Kept(flash) \cup {Item(flash', b, n)} /\ Torn(flash') = Torn(flash) \ {<<b, n>>}
  <2>1. \A i \in 1 .. Len(flash'[b].items) - 1 : flash'[b].items[i] = flash[b].items[i]
    BY <1>2, <1>4
  <2>2. Len(flash'[b].items) = Len(flash[b].items) /\ ~Intact(LastItem(flash[b]))
    BY <1>a, <1>5
  <2> QED
    BY <1>4, <1>5, <2>1, <2>2, KeptStage
<1>6. /\ st \in {"magic", "key"} => Kept(flash') = Kept(flash) /\ Torn(flash') \subseteq Torn(flash) \cup {<<b, n>>}
      /\ st = "full" => Kept(flash') = Kept(flash) \cup {Item(flash', b, n)} /\ Torn(flash') = Torn(flash) \ {<<b, n>>}
  BY <1>a, <1>b, <1>c
<1>7. PICK h : h = Item(flash', b, n)
  OBVIOUS
<1>8. /\ h.blk = b /\ h.idx = n /\ h.pos = <<b, s.off>> /\ h.key = s.key
      /\ h.val = s.val /\ h.prev = s.prev
  BY <1>a, <1>7, ItemIs
<1>9. h \notin Kept(flash)
  <2>1. n \notin WholeAt(flash, b)
    BY <1>5, <1>a DEF WholeAt, LastItem
  <2> QED
    BY <1>8, <2>1, KeptIn, ItemIs
<1>10. /\ \A c \in Blocks \ {b} : flash'[c] = flash[c]
       /\ SameMark(flash[b], flash'[b]) /\ flash'[b].items # << >>
  BY <1>2, <1>3, <1>4
<1>11. st = "full" => \E g : /\ Kept(flash') = Kept(flash) \cup {g} /\ g \notin Kept(flash)
                             /\ g.blk = b /\ g.idx = n /\ g.pos = <<b, s.off>>
                             /\ g.key = s.key /\ g.val = s.val /\ g.prev = s.prev
  BY <1>6, <1>7, <1>8, <1>9
<1>12. st \in {"magic", "key"} \/ st = "full"
  OBVIOUS
<1> QED
  BY <1>5, <1>a, <1>b, <1>6, <1>10, <1>11, <1>12

-----------------------------------------------------------------------------
(* The copies                                                                *)

\* The values outside a block depend on the other blocks alone, those in a block on it alone.
LEMMA OffSame ==
    ASSUME NEW f, NEW g, NEW d, \A c \in Blocks \ {d} : g[c].items = f[c].items
    PROVE  /\ Off(Kept(g), d) = Off(Kept(f), d)
           /\ \A c : c # d => In(Kept(g), c) = In(Kept(f), c)
<1>1. \A c \in Blocks \ {d} : /\ WholeAt(g, c) = WholeAt(f, c)
                              /\ \A i : Item(g, c, i) = Item(f, c, i)
  BY DEF WholeAt, Item
<1>2. ASSUME NEW h, h.blk # d PROVE h \in Kept(g) <=> h \in Kept(f)
  <2>1. h \in Kept(g) <=> \E c \in Blocks : \E i \in WholeAt(g, c) : h = Item(g, c, i)
    BY KeptIn
  <2>2. h \in Kept(f) <=> \E c \in Blocks : \E i \in WholeAt(f, c) : h = Item(f, c, i)
    BY KeptIn
  <2>3. \A c, i : Item(f, c, i).blk = c /\ Item(g, c, i).blk = c
    BY ItemIs
  <2> QED
    BY <1>1, <1>2, <2>1, <2>2, <2>3
<1> QED
  BY <1>2 DEF Off, In

\* A step that changes the destination alone
LEMMA DstChange ==
    ASSUME KvInv, Facts, pc \in Marking, pc' \in Marking \ {"gc_dst"}, allowed' = allowed,
           cycles' = cycles, op' = op, gc'.src = gc.src, gc'.dst = gc.dst, gc'.from = gc.from,
           \A c \in Blocks \ {gc.dst} : flash'[c] = flash[c],
           flash'[gc.dst].done = flash[gc.dst].done,
           Copied(Kept(flash'), gc.src, gc.dst, gc'.i),
           pc' \in Copying =>
               /\ Torn(flash') \subseteq {<<gc.dst, Len(flash'[gc.dst].items)>>}
               /\ LastItem(flash'[gc.dst]).key = flash'[gc.src].items[gc'.i].key
               /\ ~LastItem(flash'[gc.dst]).disc,
           pc' \notin Copying => Torn(flash') = {}
    PROVE  Facts'
<1>1. /\ Single(Off(Kept(flash), gc.dst)) /\ Right(Off(Kept(flash), gc.dst), allowed)
      /\ gc.from = "search" => Unsaved(Off(Kept(flash), gc.dst), op, allowed)
      /\ ~cycles.window => Spare(flash, gc.dst)
      /\ flash[gc.dst].done => cycles.n >= 1
  BY DEF Facts, Gathering
<1>2. Off(Kept(flash'), gc.dst) = Off(Kept(flash), gc.dst)
  BY OffSame
<1>3. ~cycles'.window => Spare(flash', gc.dst)
  BY <1>1 DEF Spare
<1>4. flash'[gc.dst].done => cycles'.n >= 1
  BY <1>1
<1>5. Gathering'
  BY <1>1, <1>2, <1>3, <1>4 DEF Gathering
<1> QED
  BY <1>5, FactsGather

\* What is known while a collection runs
LEMMA GatherIs ==
    ASSUME KvInv, Facts, pc \in Marking
    PROVE  /\ flash \in [Blocks -> Block] /\ gc \in Gc /\ gc.src \in Blocks /\ gc.dst \in Blocks
           /\ gc.src # gc.dst /\ gc.i \in Nat /\ flash[gc.src] \in Block /\ flash[gc.dst] \in Block
           /\ Single(Off(Kept(flash), gc.dst)) /\ Right(Off(Kept(flash), gc.dst), allowed)
           /\ pc # "gc_dst" => Copied(Kept(flash), gc.src, gc.dst, gc.i)
           /\ pc \in Copying =>
                  /\ Torn(flash) \subseteq {<<gc.dst, Len(flash[gc.dst].items)>>}
                  /\ LastItem(flash[gc.dst]).key = flash[gc.src].items[gc.i].key
                  /\ ~LastItem(flash[gc.dst]).disc
           /\ pc \notin Copying => Torn(flash) = {}
<1>1. /\ flash \in [Blocks -> Block] /\ gc \in Gc /\ gc.src \in Blocks /\ gc.dst \in Blocks
      /\ gc.src # gc.dst /\ gc.i \in Nat
  BY Classes DEF KvInv, Gc, Moving
<1>2. Gathering
  BY DEF Facts
<1> QED
  BY <1>1, <1>2 DEF Gathering

\* The gc_dst mark changes no item: the collection starts with nothing copied.
LEMMA MarkDstFacts == ASSUME KvInv, Facts, GcMarkDst PROVE Facts'
<1>0. /\ pc = "gc_dst" /\ pc' = "gc_copy" /\ allowed' = allowed /\ cycles' = cycles /\ gc' = gc
      /\ op' = op /\ pc \in Marking /\ pc' \in Marking \ {"gc_dst"} /\ pc' \notin Copying
      /\ pc \notin Copying
  BY DEF GcMarkDst, Marking, Copying
<1>1. /\ flash \in [Blocks -> Block] /\ gc.src \in Blocks /\ gc.dst \in Blocks /\ gc.src # gc.dst
      /\ Torn(flash) = {} /\ gc.i = 1 /\ flash[gc.dst].items = << >>
  <2>1. gc.i = 1 /\ flash[gc.dst].items = << >>
    BY <1>0 DEF KvInv, Moving
  <2> QED
    BY <1>0, <2>1, GatherIs
<1>2. PICK d \in Blocks : d = gc.dst
  BY <1>1
<1>3. flash' = [flash EXCEPT ![d].dst = TRUE]
  BY <1>2 DEF GcMarkDst
<1>4. PICK y : /\ flash' = [flash EXCEPT ![d] = y]
               /\ y \in Block /\ y.items = flash[d].items /\ y.magic = flash[d].magic
               /\ y.src = flash[d].src /\ y.dst = TRUE /\ y.done = flash[d].done
  BY <1>1, <1>3, MarkPut, ZenonT(40)
<1>5. flash'[d] = y /\ \A c \in Blocks \ {d} : flash'[c] = flash[c]
  BY <1>1, <1>4, Replaced
<1>a. \A c \in Blocks : flash'[c].items = flash[c].items
  BY <1>4, <1>5
<1>6. Kept(flash') = Kept(flash) /\ Torn(flash') = Torn(flash)
  BY <1>a, KeptSame
<1>7. Copied(Kept(flash), gc.src, d, 1)
  <2>1. In(Kept(flash), d) = {}
    <3>1. WholeAt(flash, d) = {}
      BY <1>1, <1>2 DEF WholeAt
    <3> QED
      BY <3>1, KeptIn, ItemIs DEF In
  <2>2. \A h \in Kept(flash) : ~(h.idx < 1)
    <3> TAKE h \in Kept(flash)
    <3>1. PICK b \in Blocks : \E i \in WholeAt(flash, b) : h = Item(flash, b, i)
      BY KeptIn
    <3>2. PICK i \in WholeAt(flash, b) : h = Item(flash, b, i)
      BY <3>1
    <3>3. i \in Nat /\ i >= 1
      BY <1>1, <3>2, ItemsOf DEF WholeAt
    <3> QED
      BY <3>2, <3>3, ItemIs
  <2> QED
    BY <2>1, <2>2 DEF Copied, Single, In
<1> QED
  BY <1>0, <1>1, <1>2, <1>4, <1>5, <1>6, <1>7, DstChange

\* The next item to copy is the first one that is left.
LEMMA NextLeast ==
    ASSUME KvInv, pc = "gc_copy", ToCopy # {}
    PROVE  \A j \in ToCopy : NextToCopy <= j
<1>1. ToCopy \subseteq Nat
  <2>1. flash[gc.src] \in Block
    BY DEF KvInv, Gc
  <2> QED
    BY <2>1, ItemsOf DEF ToCopy
<1>2. \E i \in ToCopy : \A j \in ToCopy : i <= j
  BY <1>1, LeastOf
<1> QED
  BY <1>2 DEF NextToCopy

\* The header of the next copy: a torn item, the last one of the destination and the only one.
LEMMA CopyHeaderFacts == ASSUME KvInv, KvInv', Facts, GcCopyHeader PROVE Facts'
<1>0. /\ pc = "gc_copy" /\ pc' = "c_magic" /\ allowed' = allowed /\ cycles' = cycles
      /\ op' = op /\ pc \in Marking /\ pc' \in Marking \ {"gc_dst"} /\ pc' \in Copying
      /\ pc \notin Copying /\ ToCopy # {}
  BY DEF GcCopyHeader, Marking, Copying
<1>1. /\ flash \in [Blocks -> Block] /\ gc.src \in Blocks /\ gc.dst \in Blocks /\ gc.src # gc.dst
      /\ Torn(flash) = {} /\ gc \in Gc /\ Copied(Kept(flash), gc.src, gc.dst, gc.i) /\ gc.i \in Nat
  BY <1>0, GatherIs
<1>2. PICK d, n : d = gc.dst /\ d \in Blocks /\ n = NextToCopy
  BY <1>1
<1>3. /\ n \in DOMAIN flash[gc.src].items /\ n >= gc.i /\ n \in Nat /\ \A j \in ToCopy : n <= j
      /\ flash[gc.src].items[n] \in Slot
  BY <1>0, <1>1, <1>2, NextToCopyIn, NextLeast, ItemsOf
<1>4. PICK u \in Slot : u = flash[gc.src].items[n]
  BY <1>3
<1>5. PICK s : s = NewSlot(UsableOff(ram, d), u.key, u.val, u.prev)
  OBVIOUS
<1>6. flash' = PutHeader(d, s) /\ gc' = [gc EXCEPT !.i = n]
  BY <1>2, <1>4, <1>5 DEF GcCopyHeader
<1>7. gc'.src = gc.src /\ gc'.dst = gc.dst /\ gc'.from = gc.from /\ gc'.i = n
  BY <1>1, <1>6 DEF Gc
<1>8. s \in Slot /\ s.st = "hdr" /\ s.key = u.key /\ s.disc = FALSE
  <2>1. UsableOff(ram, d) \in Nat
    <3>1. ram.free[d] = BlkFresh - WalkEnd(flash[d])
      BY <1>0, <1>2 DEF KvInv, Moving, Collecting, Copying
    <3>2. WalkEnd(flash[d]) \in Nat
      BY <1>1, <1>2, Sizes
    <3> QED
      BY <3>1, <3>2, BlocksNat DEF UsableOff
  <2>2. u.key \in Keys /\ u.val \in Vals /\ u.prev \in Pos
    BY <1>4 DEF Slot
  <2>3. s \in Slot /\ s.st = "hdr"
    BY <1>5, <2>1, <2>2, HeaderSlot
  <2> QED
    BY <1>5, <2>3 DEF NewSlot
<1>9. /\ Kept(flash') = Kept(flash) /\ Torn(flash') = Torn(flash)
      /\ \A c \in Blocks \ {d} : flash'[c] = flash[c]
      /\ SameMark(flash[d], flash'[d]) /\ LastItem(flash'[d]) = s
  BY <1>1, <1>2, <1>6, <1>8, HeaderKept
<1>10. Copied(Kept(flash'), gc.src, d, n)
  <2>1. ASSUME NEW h \in In(Kept(flash), gc.src), h.idx < n PROVE h.idx < gc.i
    <3>1. PICK i \in WholeAt(flash, gc.src) : h = Item(flash, gc.src, i)
      BY KeptIn, ItemIs DEF In
    <3>2. h.idx = i /\ i \in DOMAIN flash[gc.src].items /\ Live(flash[gc.src].items[i]) /\ i \in Nat
      BY <1>1, <3>1, ItemIs, ItemsOf DEF WholeAt
    <3>3. i >= gc.i => i \in ToCopy
      BY <3>2 DEF ToCopy
    <3> QED
      BY <1>1, <1>3, <2>1, <3>2, <3>3
  <2>2. \A h \in In(Kept(flash), gc.src) : h.idx < gc.i => h.idx < n
    <3> SUFFICES ASSUME NEW h \in In(Kept(flash), gc.src), h.idx < gc.i PROVE h.idx < n
      OBVIOUS
    <3>1. PICK i \in WholeAt(flash, gc.src) : h = Item(flash, gc.src, i)
      BY KeptIn, ItemIs DEF In
    <3>2. h.idx = i /\ i \in Nat
      BY <1>1, <3>1, ItemIs, ItemsOf DEF WholeAt
    <3> QED
      BY <1>1, <1>3, <3>2
  <2> QED
    BY <1>1, <1>2, <1>9, <2>1, <2>2 DEF Copied
<1>11. /\ Torn(flash') \subseteq {<<d, Len(flash'[d].items)>>}
       /\ LastItem(flash'[d]).key = flash'[gc.src].items[gc'.i].key
       /\ ~LastItem(flash'[d]).disc
  BY <1>1, <1>2, <1>4, <1>7, <1>8, <1>9
<1>12. flash'[d].done = flash[d].done
  BY <1>9 DEF SameMark
<1> QED
  BY <1>0, <1>2, <1>7, <1>9, <1>10, <1>11, <1>12, DstChange

\* The magic word and the key of a copy leave it torn.
LEMMA CopyPartFacts == ASSUME KvInv, Facts, GcCopyMagic \/ GcCopyKey PROVE Facts'
<1>0. /\ pc \in Copying /\ pc' \in Copying /\ allowed' = allowed /\ cycles' = cycles /\ gc' = gc
      /\ op' = op /\ pc \in Marking /\ pc' \in Marking \ {"gc_dst"} /\ pc # "gc_dst"
      /\ \E st \in {"magic", "key"} : flash' = PutStage(gc.dst, st)
  BY DEF GcCopyMagic, GcCopyKey, Marking, Copying
<1>1. /\ flash \in [Blocks -> Block] /\ gc.src \in Blocks /\ gc.dst \in Blocks /\ gc.src # gc.dst
      /\ Copied(Kept(flash), gc.src, gc.dst, gc.i)
      /\ Torn(flash) \subseteq {<<gc.dst, Len(flash[gc.dst].items)>>}
      /\ LastItem(flash[gc.dst]).key = flash[gc.src].items[gc.i].key
      /\ ~LastItem(flash[gc.dst]).disc
  BY <1>0, GatherIs
<1>2. PICK d \in Blocks : d = gc.dst
  BY <1>1
<1>3. PICK st \in {"magic", "key"} : flash' = PutStage(d, st)
  BY <1>0, <1>2
<1>4. flash[d].items # << >> /\ ~Intact(LastItem(flash[d]))
  <2>1. /\ flash[gc.dst].items # << >>
        /\ LastItem(flash[gc.dst]).st = IF pc = "c_magic" THEN "hdr" ELSE IF pc = "c_key" THEN "magic" ELSE "key"
    BY <1>0 DEF KvInv, Moving
  <2> QED
    BY <1>2, <2>1 DEF Intact
<1>5. /\ \A c \in Blocks \ {d} : flash'[c] = flash[c]
      /\ SameMark(flash[d], flash'[d]) /\ Len(flash'[d].items) = Len(flash[d].items)
      /\ LastItem(flash'[d]).key = LastItem(flash[d]).key /\ ~LastItem(flash'[d]).disc
      /\ Kept(flash') = Kept(flash) /\ Torn(flash') \subseteq Torn(flash) \cup {<<d, Len(flash[d].items)>>}
  <2>1. st \in {"magic", "key", "full"} /\ st # "full" /\ ~LastItem(flash[d]).disc
    BY <1>1, <1>2
  <2> QED
    BY <1>1, <1>3, <1>4, <2>1, StageKept
<1>6. /\ Torn(flash') \subseteq {<<d, Len(flash'[d].items)>>}
      /\ LastItem(flash'[d]).key = flash'[gc.src].items[gc'.i].key
  BY <1>0, <1>1, <1>2, <1>5
<1>7. flash'[d].done = flash[d].done
  BY <1>5 DEF SameMark
<1> QED
  BY <1>0, <1>1, <1>2, <1>5, <1>6, <1>7, DstChange

\* What a set of copies gains when the next item is copied
LEMMA OneMoreCopy ==
    ASSUME NEW S, NEW T, NEW s, NEW d, s # d, NEW n \in Nat, Copied(S, s, d, n), Single(Off(S, d)),
           \A x \in S : x.idx \in Nat, \A x, y \in S : x.blk = y.blk /\ x.idx = y.idx => x = y,
           NEW g \in In(S, s), g.idx = n,
           NEW h, T = S \cup {h}, h.blk = d, h.key = g.key, h.val = g.val
    PROVE  Copied(T, s, d, n + 1)
<1>1. In(T, s) = In(S, s) /\ In(T, d) = In(S, d) \cup {h}
  BY DEF In
<1>2. /\ \A x \in In(S, s) : x.idx < n => \E c \in In(S, d) : c.key = x.key /\ c.val = x.val
      /\ \A c \in In(S, d) : \E x \in In(S, s) : x.idx < n /\ c.key = x.key /\ c.val = x.val
      /\ Single(In(S, d))
  BY DEF Copied
<1>3. \A x \in In(S, s) : x.idx < n + 1 => x.idx < n \/ x = g
  <2> SUFFICES ASSUME NEW x \in In(S, s), x.idx < n + 1 PROVE x.idx < n \/ x = g
    OBVIOUS
  <2>1. x.idx \in Nat /\ x \in S /\ x.blk = s /\ g \in S /\ g.blk = s
    BY DEF In
  <2> QED
    BY <2>1
<1>4. \A x \in In(S, s) : x.idx < n => x.idx < n + 1
  <2> SUFFICES ASSUME NEW x \in In(S, s), x.idx < n PROVE x.idx < n + 1
    OBVIOUS
  <2>1. x.idx \in Nat
    BY DEF In
  <2> QED
    BY <2>1
<1>5. \A x \in In(T, s) : x.idx < n + 1 => \E c \in In(T, d) : c.key = x.key /\ c.val = x.val
  BY <1>1, <1>2, <1>3
<1>6. \A c \in In(T, d) : \E x \in In(T, s) : x.idx < n + 1 /\ c.key = x.key /\ c.val = x.val
  <2> SUFFICES ASSUME NEW c \in In(T, d)
               PROVE  \E x \in In(T, s) : x.idx < n + 1 /\ c.key = x.key /\ c.val = x.val
    OBVIOUS
  <2>1. CASE c \in In(S, d)
    <3>1. PICK x \in In(S, s) : x.idx < n /\ c.key = x.key /\ c.val = x.val
      BY <1>2, <2>1
    <3> QED
      BY <1>1, <1>4, <3>1
  <2>2. CASE c = h
    <3>1. g \in In(T, s) /\ g.idx < n + 1
      BY <1>1
    <3> QED
      BY <2>2, <3>1
  <2> QED
    BY <1>1, <2>1, <2>2
<1>7. \A c \in In(S, d) : c.key # h.key
  <2> SUFFICES ASSUME NEW c \in In(S, d), c.key = h.key PROVE FALSE
    OBVIOUS
  <2>1. PICK x \in In(S, s) : x.idx < n /\ c.key = x.key
    BY <1>2
  <2>2. x = g
    BY <2>1, ZenonT(40) DEF Single, Off, In
  <2> QED
    BY <2>1, <2>2
<1>8. Single(In(T, d))
  BY <1>1, <1>2, <1>7, ZenonT(40) DEF Single
<1> QED
  BY <1>5, <1>6, <1>8 DEF Copied

\* The place of an item
LEMMA KeptPlace ==
    ASSUME NEW f \in [Blocks -> Block]
    PROVE  /\ \A h \in Kept(f) : h.blk \in Blocks /\ h.idx \in Nat /\ h.idx \in WholeAt(f, h.blk)
                                 /\ h = Item(f, h.blk, h.idx)
           /\ \A g, h \in Kept(f) : g.blk = h.blk /\ g.idx = h.idx => g = h
<1>1. ASSUME NEW h \in Kept(f)
      PROVE  /\ h.blk \in Blocks /\ h.idx \in Nat /\ h.idx \in WholeAt(f, h.blk)
             /\ h = Item(f, h.blk, h.idx)
  <2>1. PICK b \in Blocks : \E i \in WholeAt(f, b) : h = Item(f, b, i)
    BY KeptIn
  <2>2. PICK i \in WholeAt(f, b) : h = Item(f, b, i)
    BY <2>1
  <2>3. h.blk = b /\ h.idx = i /\ i \in Nat
    BY <2>2, ItemIs, ItemsOf DEF WholeAt
  <2> QED
    BY <2>2, <2>3
<1> QED
  BY <1>1

\* The value of a copy makes it whole: the destination holds one more item of the source.
LEMMA CopyValFacts == ASSUME KvInv, Facts, GcCopyVal PROVE Facts'
<1>0. /\ pc = "c_val" /\ pc' = "gc_copy" /\ pc \in Copying /\ pc' \notin Copying /\ allowed' = allowed
      /\ cycles' = cycles /\ op' = op /\ pc \in Marking /\ pc' \in Marking \ {"gc_dst"} /\ pc # "gc_dst"
      /\ gc' = [gc EXCEPT !.i = gc.i + 1]
  BY DEF GcCopyVal, Marking, Copying
<1>1. /\ flash \in [Blocks -> Block] /\ gc.src \in Blocks /\ gc.dst \in Blocks /\ gc.src # gc.dst
      /\ Copied(Kept(flash), gc.src, gc.dst, gc.i) /\ Single(Off(Kept(flash), gc.dst))
      /\ Torn(flash) \subseteq {<<gc.dst, Len(flash[gc.dst].items)>>}
      /\ LastItem(flash[gc.dst]).key = flash[gc.src].items[gc.i].key
      /\ ~LastItem(flash[gc.dst]).disc /\ gc.i \in Nat /\ gc \in Gc
  BY <1>0, GatherIs
<1>2. PICK c, d, n : c = gc.src /\ d = gc.dst /\ n = gc.i
  OBVIOUS
<1>3. /\ c \in Blocks /\ d \in Blocks /\ c # d /\ n \in Nat /\ n \in DOMAIN flash[c].items
      /\ Live(flash[c].items[n]) /\ flash[d].items # << >> /\ ~Intact(LastItem(flash[d]))
      /\ LastItem(flash[d]).val = flash[c].items[n].val /\ LastItem(flash[d]).key = flash[c].items[n].key
  <2>1. /\ flash[gc.dst].items # << >> /\ gc.i \in DOMAIN flash[gc.src].items
        /\ Live(flash[gc.src].items[gc.i])
        /\ LastItem(flash[gc.dst]).val = flash[gc.src].items[gc.i].val
        /\ LastItem(flash[gc.dst]).st = IF pc = "c_magic" THEN "hdr" ELSE IF pc = "c_key" THEN "magic" ELSE "key"
    BY <1>0 DEF KvInv, Moving
  <2> QED
    BY <1>1, <1>2, <2>1 DEF Intact
<1>4. n \in WholeAt(flash, c) /\ flash[c].items[n].st = "full"
  <2>1. n \in TornAt(flash, c) => <<c, n>> \in Torn(flash)
    BY <1>3, KeptIn
  <2>2. <<c, n>> \notin Torn(flash)
    BY <1>1, <1>2, <1>3
  <2> QED
    BY <1>3, <2>1, <2>2 DEF WholeAt, TornAt, Intact
<1>5. flash' = PutStage(d, "full")
  BY <1>2, <1>4 DEF GcCopyVal
<1>6. /\ \A b \in Blocks \ {d} : flash'[b] = flash[b]
      /\ SameMark(flash[d], flash'[d]) /\ Torn(flash') = Torn(flash) \ {<<d, Len(flash[d].items)>>}
      /\ \E h : /\ Kept(flash') = Kept(flash) \cup {h}
                /\ h.blk = d /\ h.key = LastItem(flash[d]).key /\ h.val = LastItem(flash[d]).val
  <2>1. ~LastItem(flash[d]).disc
    BY <1>1, <1>2
  <2> QED
    BY <1>1, <1>3, <1>5, <2>1, StageKept
<1>7. PICK h : /\ Kept(flash') = Kept(flash) \cup {h}
               /\ h.blk = d /\ h.key = LastItem(flash[d]).key /\ h.val = LastItem(flash[d]).val
  BY <1>6
<1>8. PICK g : g = Item(flash, c, n)
  OBVIOUS
<1>9. g \in In(Kept(flash), c) /\ g.idx = n /\ g.key = h.key /\ g.val = h.val
  BY <1>3, <1>4, <1>7, <1>8, KeptIn, ItemIs DEF In
<1>10. Copied(Kept(flash'), c, d, n + 1)
  <2>1. /\ Copied(Kept(flash), c, d, n) /\ Single(Off(Kept(flash), d))
        /\ \A x \in Kept(flash) : x.idx \in Nat
        /\ \A x, y \in Kept(flash) : x.blk = y.blk /\ x.idx = y.idx => x = y
    BY <1>1, <1>2, KeptPlace
  <2> QED
    BY <1>3, <1>7, <1>9, <2>1, OneMoreCopy
<1>11. Torn(flash') = {}
  BY <1>1, <1>2, <1>6
<1>12. flash'[d].done = flash[d].done
  BY <1>6 DEF SameMark
<1>13. gc'.src = gc.src /\ gc'.dst = gc.dst /\ gc'.from = gc.from /\ gc'.i = n + 1
  BY <1>0, <1>1, <1>2 DEF Gc
<1>14. Copied(Kept(flash'), gc.src, gc.dst, gc'.i)
  BY <1>2, <1>10, <1>13
<1>15. /\ \A b \in Blocks \ {gc.dst} : flash'[b] = flash[b]
       /\ flash'[gc.dst].done = flash[gc.dst].done
  BY <1>2, <1>6, <1>12
<1> QED
  BY <1>0, <1>11, <1>13, <1>14, <1>15, DstChange

\* When all items of the source are copied, the copies stand for them.
LEMMA AllCopied ==
    ASSUME NEW S, NEW s, NEW d, s # d, NEW n, Copied(S, s, d, n), \A h \in In(S, s) : h.idx < n,
           Single(Off(S, d)), NEW al, Right(Off(S, d), al)
    PROVE  /\ Single(Off(S, s)) /\ Right(Off(S, s), al)
           /\ \A o : Unsaved(Off(S, d), o, al) => Unsaved(Off(S, s), o, al)
<1>1. ASSUME NEW h \in Off(S, d)
      PROVE  \E c \in Off(S, s) : c.key = h.key /\ c.val = h.val
  BY DEF Copied, Off, In
<1>2. ASSUME NEW h \in Off(S, s)
      PROVE  \E c \in Off(S, d) : c.key = h.key /\ c.val = h.val /\ (h.blk = d => c.blk = s) /\ (h.blk # d => c = h)
  BY DEF Copied, Off, In
<1>3. Single(Off(S, s))
  <2> SUFFICES ASSUME NEW g \in Off(S, s), NEW h \in Off(S, s), g.key = h.key PROVE g = h
    BY DEF Single
  <2>1. CASE g.blk = d /\ h.blk = d
    BY <2>1 DEF Copied, Single, In, Off
  <2>2. CASE g.blk # d /\ h.blk # d
    BY <2>2 DEF Single, Off
  <2>3. PICK x \in Off(S, d) : x.key = g.key /\ (g.blk = d => x.blk = s) /\ (g.blk # d => x = g)
    BY <1>2
  <2>4. PICK y \in Off(S, d) : y.key = h.key /\ (h.blk = d => y.blk = s) /\ (h.blk # d => y = h)
    BY <1>2
  <2>5. x = y
    BY <2>3, <2>4 DEF Single
  <2> QED
    BY <2>1, <2>2, <2>3, <2>4, <2>5 DEF Off
<1>4. Right(Off(S, s), al)
  <2>1. \A h \in Off(S, s) : h.val \in al[h.key]
    <3> TAKE h \in Off(S, s)
    <3>1. PICK c \in Off(S, d) : c.key = h.key /\ c.val = h.val
      BY <1>2
    <3> QED
      BY <3>1 DEF Right
  <2>2. \A k : HasKey(Off(S, d), k) => HasKey(Off(S, s), k)
    BY <1>1 DEF HasKey
  <2> QED
    BY <2>1, <2>2 DEF Right
<1>5. ASSUME NEW o, Unsaved(Off(S, d), o, al) PROVE Unsaved(Off(S, s), o, al)
  <2>1. \A h \in Off(S, s) : h.key = o.key => h.val # o.val
    BY <1>2, <1>5 DEF Unsaved
  <2>2. HasKey(Off(S, s), o.key) => HasKey(Off(S, d), o.key)
    BY <1>2 DEF HasKey
  <2>3. (\E h \in Off(S, d) : h.key = o.key /\ h.val = o.old.val) =>
            \E h \in Off(S, s) : h.key = o.key /\ h.val = o.old.val
    BY <1>1
  <2> QED
    BY <1>5, <2>1, <2>2, <2>3 DEF Unsaved
<1> QED
  BY <1>3, <1>4, <1>5

\* The source is erased: its copies stay.
LEMMA EraseSrcFacts == ASSUME KvInv, Facts, GcEraseSrc PROVE Facts'
<1>0. /\ pc = "gc_copy" /\ pc' = "gc_magic" /\ pc \notin Copying /\ pc' \in Erasing /\ allowed' = allowed
      /\ cycles' = cycles /\ op' = op /\ gc' = gc /\ pc \in Marking /\ pc # "gc_dst" /\ ToCopy = {}
      /\ flash' = [flash EXCEPT ![gc.src] = Erased]
  BY DEF GcEraseSrc, Marking, Copying, Erasing
<1>1. /\ flash \in [Blocks -> Block] /\ gc.src \in Blocks /\ gc.dst \in Blocks /\ gc.src # gc.dst
      /\ Copied(Kept(flash), gc.src, gc.dst, gc.i) /\ Single(Off(Kept(flash), gc.dst))
      /\ Right(Off(Kept(flash), gc.dst), allowed) /\ Torn(flash) = {} /\ gc.i \in Nat
  BY <1>0, GatherIs
<1>2. PICK s \in Blocks : s = gc.src
  BY <1>1
<1>3. flash'[s] = Erased /\ \A c \in Blocks \ {s} : flash'[c] = flash[c]
  BY <1>0, <1>1, <1>2, ErasedRight
<1>4. Kept(flash') = Off(Kept(flash), s) /\ Torn(flash') = {}
  <2>1. flash'[s].items = << >> /\ \A c \in Blocks \ {s} : flash'[c].items = flash[c].items
    BY <1>3, ErasedRight
  <2>2. Kept(flash') = Off(Kept(flash), s) /\ \A t : t \in Torn(flash') <=> t \in Torn(flash) /\ t[1] # s
    BY <2>1, KeptErase
  <2> QED
    BY <1>1, <2>2
<1>5. \A h \in In(Kept(flash), s) : h.idx < gc.i
  <2> TAKE h \in In(Kept(flash), s)
  <2>1. h.idx \in Nat /\ h.idx \in WholeAt(flash, s)
    BY <1>1, KeptPlace DEF In
  <2>2. h.idx \notin ToCopy
    BY <1>0
  <2> QED
    BY <1>1, <1>2, <2>1, <2>2 DEF ToCopy, WholeAt
<1>6. /\ Single(Off(Kept(flash), s)) /\ Right(Off(Kept(flash), s), allowed)
      /\ \A o : Unsaved(Off(Kept(flash), gc.dst), o, allowed) => Unsaved(Off(Kept(flash), s), o, allowed)
  BY <1>1, <1>2, <1>5, AllCopied
<1>7. gc.from = "search" => Unsaved(Off(Kept(flash), gc.dst), op, allowed)
  BY <1>0 DEF Facts, Gathering
<1>8. Resting'
  BY <1>0, <1>4, <1>6, <1>7 DEF Resting, Erasing
<1> QED
  BY <1>0, <1>8, FactsRest

\* A mark does not touch the values.
LEMMA RestingStays ==
    ASSUME Facts, pc \in {"locate", "locate_ws", "idle", "search", "wild"} \cup Erasing,
           pc' \in {"locate", "locate_ws", "idle", "search", "wild"} \cup Erasing,
           \A b \in Blocks : flash'[b].items = flash[b].items, allowed' = allowed, op' = op,
           (pc' = "search" \/ (pc' \in Erasing /\ gc'.from = "search")) =>
               (pc = "search" \/ (pc \in Erasing /\ gc.from = "search"))
    PROVE  Facts'
<1>1. Kept(flash') = Kept(flash) /\ Torn(flash') = Torn(flash)
  BY KeptSame
<1>2. /\ Single(Kept(flash)) /\ Right(Kept(flash), allowed) /\ Torn(flash) = {}
      /\ pc = "search" \/ (pc \in Erasing /\ gc.from = "search") => Unsaved(Kept(flash), op, allowed)
  BY DEF Facts, Resting
<1>3. Resting'
  BY <1>1, <1>2 DEF Resting
<1> QED
  BY <1>3, FactsRest

\* The magic word of the erased source changes no item.
LEMMA MagicSrcFacts == ASSUME KvInv, MarkInv, Facts, GcMagicSrc PROVE Facts'
<1>0. /\ pc \in Erasing /\ pc' \in Erasing /\ allowed' = allowed /\ op' = op /\ gc' = gc
      /\ flash' = [flash EXCEPT ![gc.src].magic = TRUE] /\ gc.src \in Blocks
      /\ flash \in [Blocks -> Block] /\ Formatted /\ pc' # "search"
  BY DEF GcMagicSrc, Erasing, KvInv, Gc, MarkInv
<1>1. \A b \in Blocks : flash'[b].items = flash[b].items
  BY <1>0, MagicWritten
<1> QED
  BY <1>0, <1>1, RestingStays

\* gc_done of the destination
LEMMA DonePut ==
    ASSUME KvInv, GcMarkDone
    PROVE  /\ flash' \in [Blocks -> Block] /\ gc.dst \in Blocks
           /\ \A b \in Blocks \ {gc.dst} : flash'[b] = flash[b]
           /\ flash'[gc.dst].items = flash[gc.dst].items /\ flash'[gc.dst].done
           /\ pc' \in {"search", "locate_ws", "locate"} /\ (pc' = "search" <=> gc.from = "search")
           /\ pc = "gc_done" /\ gc' = NoGc /\ (pc' = "locate" <=> gc.from = "incomplete")
<1>0. /\ flash \in [Blocks -> Block] /\ gc.dst \in Blocks /\ pc = "gc_done"
      /\ gc.from \in {"search", "locate", "incomplete"} /\ gc' = NoGc
  BY DEF GcMarkDone, KvInv, Gc, Moving, Collecting
<1>1. /\ pc' \in {"search", "locate_ws", "locate"} /\ (pc' = "search" <=> gc.from = "search")
      /\ (pc' = "locate" <=> gc.from = "incomplete")
  BY <1>0 DEF GcMarkDone
<1>2. PICK d \in Blocks : d = gc.dst
  BY <1>0
<1>3. flash' = [flash EXCEPT ![d].done = TRUE]
  BY <1>2 DEF GcMarkDone
<1>4. PICK y : /\ flash' = [flash EXCEPT ![d] = y]
               /\ y \in Block /\ y.items = flash[d].items /\ y.magic = flash[d].magic
               /\ y.src = flash[d].src /\ y.dst = flash[d].dst /\ y.done = TRUE
  BY <1>0, <1>3, MarkPut, ZenonT(40)
<1>5. flash' \in [Blocks -> Block] /\ flash'[d] = y /\ \A c \in Blocks \ {d} : flash'[c] = flash[c]
  BY <1>0, <1>4, Replaced
<1> QED
  BY <1>0, <1>1, <1>2, <1>4, <1>5

\* The gc_done mark changes no item: boot, or the set that asked for the collection, goes on.
LEMMA MarkDoneFacts == ASSUME KvInv, Facts, GcMarkDone PROVE Facts'
<1>1. \A b \in Blocks : flash'[b].items = flash[b].items
  BY DonePut
<1>2. allowed' = allowed /\ op' = op
  BY DEF GcMarkDone
<1>3. /\ pc \in Erasing /\ pc' \in {"locate", "locate_ws", "idle", "search", "wild"} \cup Erasing
      /\ pc' \notin Erasing /\ (pc' = "search" <=> gc.from = "search")
  BY DonePut DEF Erasing
<1> QED
  BY <1>1, <1>2, <1>3, RestingStays

-----------------------------------------------------------------------------
(* The calls                                                                 *)

\* A lookup finds the only value of the key.
LEMMA LookupVal ==
    ASSUME KvInv, pc \in {"idle", "search", "locate", "locate_ws"}, Torn(flash) = {},
           Single(Kept(flash)), NEW k
    PROVE  LET at == FindItem(ram, KeyMatch(flash, k))
           IN  \/ at = NoItem /\ ~HasKey(Kept(flash), k) /\ Lookup(k) = None
               \/ /\ at # NoItem /\ at[1] \in Blocks /\ at[2] \in WholeAt(flash, at[1])
                  /\ flash[at[1]].items[at[2]].key = k
                  /\ Lookup(k) = flash[at[1]].items[at[2]].val
                  /\ Item(flash, at[1], at[2]) \in Kept(flash)
                  /\ Item(flash, at[1], at[2]).key = k
                  /\ Item(flash, at[1], at[2]).val = Lookup(k)
                  /\ \A h \in Kept(flash) : h.key = k => h = Item(flash, at[1], at[2])
<1>1. PICK at : at = FindItem(ram, KeyMatch(flash, k))
  OBVIOUS
<1>2. \/ at = NoItem /\ ~HasKey(Kept(flash), k) /\ Lookup(k) = None
      \/ /\ at # NoItem /\ at[1] \in Blocks /\ at[2] \in WholeAt(flash, at[1])
         /\ flash[at[1]].items[at[2]].key = k
         /\ Lookup(k) = flash[at[1]].items[at[2]].val
  BY <1>1, LookupIs
<1>3. CASE at # NoItem
  <2>1. PICK g : g = Item(flash, at[1], at[2])
    OBVIOUS
  <2>2. g \in Kept(flash) /\ g.key = k /\ g.val = Lookup(k)
    BY <1>2, <1>3, <2>1, KeptIn, ItemIs
  <2>3. \A h \in Kept(flash) : h.key = k => h = g
    BY <2>2 DEF Single
  <2> QED
    BY <1>1, <1>2, <1>3, <2>1, <2>2, <2>3
<1> QED
  BY <1>1, <1>2, <1>3

\* The keys of the items are keys.
LEMMA KeptKeys ==
    ASSUME NEW f \in [Blocks -> Block], NEW h \in Kept(f)
    PROVE  h.key \in Keys /\ h.val \in Vals
<1>1. h.blk \in Blocks /\ h.idx \in WholeAt(f, h.blk) /\ h = Item(f, h.blk, h.idx)
  BY KeptPlace
<1>2. f[h.blk].items[h.idx] \in Slot
  BY <1>1, ItemsOf DEF WholeAt
<1>3. h.key = f[h.blk].items[h.idx].key /\ h.val = f[h.blk].items[h.idx].val
  BY <1>1, ItemIs
<1> QED
  BY <1>2, <1>3 DEF Slot

\* What is known between two changes of the flash
LEMMA RestIs ==
    ASSUME KvInv, Facts, pc \in {"locate", "locate_ws", "idle", "search", "wild"} \cup Erasing
    PROVE  /\ flash \in [Blocks -> Block] /\ Single(Kept(flash)) /\ Right(Kept(flash), allowed)
           /\ Torn(flash) = {} /\ allowed \in [Keys -> SUBSET (Vals \cup {None})]
           /\ pc = "search" => Unsaved(Kept(flash), op, allowed)
  BY DEF KvInv, Facts, Resting

\* Boot locates the workspace, or collects a block to have one: the items are untouched.
LEMMA LocateFacts == ASSUME KvInv, Facts, Locate PROVE Facts'
<1>0. /\ pc \in {"locate", "locate_ws"} /\ pc' = "idle" /\ flash' = flash /\ allowed' = Settled
  BY DEF Locate
<1>1. /\ flash \in [Blocks -> Block] /\ Single(Kept(flash)) /\ Right(Kept(flash), allowed)
      /\ Torn(flash) = {} /\ allowed \in [Keys -> SUBSET (Vals \cup {None})]
  BY <1>0, RestIs
<1>2. \A k \in Keys : allowed'[k] = IF Lookup(k) \in allowed[k] THEN {Lookup(k)} ELSE allowed[k]
  BY <1>0 DEF Settled
<1>3. ASSUME NEW h \in Kept(flash) PROVE h.val \in allowed'[h.key]
  <2>1. PICK k \in Keys : k = h.key
    BY <1>1, KeptKeys
  <2>2. PICK g : g \in Kept(flash) /\ g = h /\ g.val = Lookup(k)
    BY <1>0, <1>1, <2>1, LookupVal DEF HasKey
  <2> QED
    BY <1>1, <1>2, <2>1, <2>2 DEF Right
<1>4. ASSUME NEW k \in Keys, ~HasKey(Kept(flash), k) PROVE None \in allowed'[k]
  <2>1. Lookup(k) = None
    BY <1>0, <1>1, <1>4, LookupVal DEF HasKey
  <2> QED
    BY <1>1, <1>2, <1>4, <2>1 DEF Right
<1>5. Right(Kept(flash), allowed')
  BY <1>3, <1>4 DEF Right
<1>6. Resting'
  BY <1>0, <1>1, <1>5 DEF Resting, Erasing
<1> QED
  BY <1>0, <1>6, FactsRest

\* ln_kv_get changes nothing.
LEMMA GetFacts == ASSUME KvInv, Facts, NEW k \in Keys, ln_kv_get(k) PROVE Facts'
<1>1. pc = "idle" /\ pc' = "idle" /\ flash' = flash /\ op' = op /\ allowed' = allowed
  BY DEF ln_kv_get
<1> QED
  BY <1>1, RestingStays DEF Erasing

\* A search with an unknown workspace gives up: the items are untouched.
LEMMA WildFacts == ASSUME KvInv, Facts, SearchWild PROVE Facts'
<1>1. pc = "search" /\ pc' = "wild" /\ flash' = flash /\ op' = op /\ allowed' = allowed
  BY DEF SearchWild
<1> QED
  BY <1>1, RestingStays DEF Erasing

\* ln_kv_del discards the one item of its key, and no lookup finds that key any more.
LEMMA DelFacts == ASSUME KvInv, Facts, NEW k \in Keys, ln_kv_del(k) PROVE Facts'
<1>0. pc = "idle" /\ pc' = "idle" /\ op' = op
  BY DEF ln_kv_del
<1>1. /\ flash \in [Blocks -> Block] /\ Single(Kept(flash)) /\ Right(Kept(flash), allowed)
      /\ Torn(flash) = {} /\ allowed \in [Keys -> SUBSET (Vals \cup {None})]
  BY <1>0, RestIs
<1>2. PICK at : at = FindItem(ram, KeyMatch(flash, k))
  OBVIOUS
<1>3. CASE at = NoItem
  <2>1. flash' = flash /\ allowed' = allowed
    BY <1>2, <1>3, DelDrops
  <2> QED
    BY <1>0, <2>1, RestingStays DEF Erasing
<1>4. CASE at # NoItem
  <2>1. Drops(flash, flash', at[1], at[2]) /\ allowed' = [allowed EXCEPT ![k] = {None}]
    BY <1>2, <1>4, DelDrops
  <2>2. PICK g : g = Item(flash, at[1], at[2])
    OBVIOUS
  <2>3. g \in Kept(flash) /\ g.key = k /\ \A h \in Kept(flash) : h.key = k => h = g
    BY <1>0, <1>1, <1>2, <1>4, <2>2, LookupVal
  <2>4. Kept(flash') = Kept(flash) \ {g} /\ Torn(flash') = Torn(flash) \ {<<at[1], at[2]>>}
    BY <1>1, <2>1, <2>2, KeptDrops
  <2>5. Single(Kept(flash')) /\ Torn(flash') = {}
    BY <1>1, <2>4 DEF Single
  <2>6. allowed'[k] = {None} /\ \A x \in Keys \ {k} : allowed'[x] = allowed[x]
    BY <1>1, <2>1
  <2>7. Right(Kept(flash'), allowed')
    <3>1. ASSUME NEW h \in Kept(flash') PROVE h.val \in allowed'[h.key]
      BY <1>1, <2>3, <2>4, <2>6, KeptKeys DEF Right
    <3>2. ASSUME NEW x \in Keys, None \notin allowed'[x] PROVE HasKey(Kept(flash'), x)
      <4>1. x # k
        BY <2>6, <3>2
      <4>2. HasKey(Kept(flash), x)
        BY <1>1, <2>6, <3>2, <4>1 DEF Right
      <4> QED
        BY <2>3, <2>4, <4>1, <4>2 DEF HasKey
    <3> QED
      BY <3>1, <3>2 DEF Right
  <2>8. Resting'
    BY <1>0, <2>5, <2>7 DEF Resting, Erasing
  <2> QED
    BY <1>0, <2>8, FactsRest
<1> QED
  BY <1>3, <1>4

\* ln_kv_set: a value that is already there returns at once, and else the save begins with what it
\* knows of the old item.
LEMMA SetFacts == ASSUME KvInv, Facts, NEW k \in Keys, NEW v \in Vals, ln_kv_set(k, v) PROVE Facts'
<1>0. pc = "idle" /\ flash' = flash
  BY DEF ln_kv_set
<1>1. /\ flash \in [Blocks -> Block] /\ Single(Kept(flash)) /\ Right(Kept(flash), allowed)
      /\ Torn(flash) = {} /\ allowed \in [Keys -> SUBSET (Vals \cup {None})]
  BY <1>0, RestIs
<1>2. CASE Lookup(k) = v
  <2>1. pc' = pc /\ op' = op /\ allowed' = allowed
    BY <1>2 DEF ln_kv_set
  <2> QED
    BY <1>0, <2>1, RestingStays DEF Erasing
<1>3. CASE Lookup(k) # v
  <2>1. PICK at : at = FindItem(ram, KeyMatch(flash, k))
    OBVIOUS
  <2>2. /\ pc' = "search" /\ allowed' = [allowed EXCEPT ![k] = allowed[k] \cup {v}]
        /\ at = NoItem => op' = [NoOp EXCEPT !.key = k, !.val = v]
        /\ at # NoItem => op' = [NoOp EXCEPT !.key = k, !.val = v,
                                             !.prev = <<at[1], flash[at[1]].items[at[2]].off>>,
                                             !.old = flash[at[1]].items[at[2]]]
    BY <1>3, <2>1 DEF ln_kv_set
  <2>3. allowed'[k] = allowed[k] \cup {v} /\ \A x \in Keys \ {k} : allowed'[x] = allowed[x]
    BY <1>1, <2>2
  <2>4. Right(Kept(flash), allowed')
    BY <1>1, <2>3, KeptKeys DEF Right
  <2>5. op'.key = k /\ op'.val = v
    BY <2>2 DEF NoOp
  <2>6. Unsaved(Kept(flash), op', allowed')
    <3>1. CASE at = NoItem
      <4>1. ~HasKey(Kept(flash), k)
        BY <1>0, <1>1, <2>1, <3>1, LookupVal
      <4>2. op'.prev = NoPos
        BY <2>2, <3>1 DEF NoOp
      <4> QED
        BY <2>3, <2>5, <4>1, <4>2 DEF Unsaved, HasKey
    <3>2. CASE at # NoItem
      <4>1. PICK g : g = Item(flash, at[1], at[2])
        OBVIOUS
      <4>2. /\ at[1] \in Blocks /\ at[2] \in WholeAt(flash, at[1])
            /\ flash[at[1]].items[at[2]].key = k
            /\ Lookup(k) = flash[at[1]].items[at[2]].val
            /\ g \in Kept(flash) /\ g.key = k /\ g.val = Lookup(k)
            /\ \A h \in Kept(flash) : h.key = k => h = g
        BY <1>0, <1>1, <2>1, <3>2, <4>1, LookupVal
      <4>3. op'.prev = <<at[1], flash[at[1]].items[at[2]].off>> /\ op'.old = flash[at[1]].items[at[2]]
        BY <2>2, <3>2 DEF NoOp
      <4>4. op'.prev # NoPos
        BY <4>2, <4>3, BlocksNat DEF NoPos
      <4>5. op'.old.st = "full" /\ ~op'.old.disc /\ op'.old.key = k /\ op'.old.val = g.val
        <5>1. PICK s : s = flash[at[1]].items[at[2]]
          OBVIOUS
        <5>2. Live(s) /\ Intact(s) /\ s.key = k /\ s.val = g.val
          BY <4>2, <5>1 DEF WholeAt
        <5> QED
          BY <4>3, <5>1, <5>2 DEF Live, Intact
      <4> QED
        BY <1>3, <2>3, <2>5, <4>2, <4>4, <4>5 DEF Unsaved
    <3> QED
      BY <3>1, <3>2
  <2>7. Resting'
    BY <1>0, <1>1, <2>2, <2>4, <2>6 DEF Resting, Erasing
  <2> QED
    BY <2>2, <2>7, FactsRest
<1> QED
  BY <1>2, <1>3

-----------------------------------------------------------------------------
(* The set                                                                   *)

\* A save that finds no block returns an error: the old value stays.
LEMMA SaveFailsFacts == ASSUME KvInv, Facts, SaveFails PROVE Facts'
<1>0. /\ pc = "search" /\ pc' = "idle" /\ flash' = flash
      /\ allowed' = [allowed EXCEPT ![op.key] = allowed[op.key] \ {op.val}]
  BY DEF SaveFails
<1>1. /\ flash \in [Blocks -> Block] /\ Single(Kept(flash)) /\ Right(Kept(flash), allowed)
      /\ Torn(flash) = {} /\ allowed \in [Keys -> SUBSET (Vals \cup {None})]
      /\ Unsaved(Kept(flash), op, allowed)
  BY <1>0, RestIs
<1>2. op.key \in Keys /\ op.val \in Vals
  BY <1>0 DEF KvInv, Setting, Op
<1>3. /\ allowed'[op.key] = allowed[op.key] \ {op.val}
      /\ \A x \in Keys \ {op.key} : allowed'[x] = allowed[x]
  BY <1>0, <1>1, <1>2
<1>4. ASSUME NEW h \in Kept(flash) PROVE h.val \in allowed'[h.key]
  <2>1. h.key \in Keys /\ h.val \in allowed[h.key] /\ (h.key = op.key => h.val # op.val)
    BY <1>1, KeptKeys DEF Right, Unsaved
  <2> QED
    BY <1>3, <2>1
<1>5. ASSUME NEW x \in Keys, None \in allowed[x] PROVE None \in allowed'[x]
  <2>1. None # op.val
    BY <1>2, KvVals
  <2> QED
    BY <1>3, <1>5, <2>1
<1>6. Right(Kept(flash), allowed')
  BY <1>1, <1>4, <1>5 DEF Right
<1>7. Resting'
  BY <1>0, <1>1, <1>6 DEF Resting, Erasing
<1> QED
  BY <1>0, <1>7, FactsRest

\* kv_item_fix finds the old item, where it was or where a collection has moved it.
LEMMA FixedIs ==
    ASSUME KvInv, pc = "search", Unsaved(Kept(flash), op, allowed), ~FixFails
    PROVE  /\ op.prev = NoPos => FixedPos = NoPos
           /\ op.prev # NoPos => \E h \in Kept(flash) : h.key = op.key /\ h.pos = FixedPos
           /\ FixedPos = NoPos => ~HasKey(Kept(flash), op.key)
<1>0. flash \in [Blocks -> Block] /\ op \in Op /\ op.prev \in Pos
  BY DEF KvInv, Setting, Op
<1>1. op.prev = NoPos => FixedPos = NoPos
  BY DEF FixedPos, Moved
<1>2. ASSUME op.prev # NoPos PROVE \E h \in Kept(flash) : h.key = op.key /\ h.pos = FixedPos /\ h.blk \in Blocks
  <2>0. op.old.st = "full" /\ ~op.old.disc /\ op.old.key = op.key
    BY <1>2 DEF Unsaved
  <2>1. CASE Moved(flash, op)
    <3>1. PICK m, at : m = CopyMatch(flash, op.old) /\ at = FindItem(ram, m)
      OBVIOUS
    <3>2. at # NoItem /\ FixedPos = <<at[1], flash[at[1]].items[at[2]].off>>
      BY <2>1, <3>1 DEF FixFails, FixedPos
    <3>3. m \in [Blocks -> SUBSET Nat]
      BY <1>0, <3>1, Matches
    <3>4. PICK b \in Blocks : \E i \in m[b] : at = <<b, i>>
      BY <3>1, <3>2, <3>3, Found
    <3>5. PICK i \in m[b] : at = <<b, i>>
      BY <3>4
    <3>6. /\ i \in DOMAIN flash[b].items /\ Live(flash[b].items[i]) /\ flash[b].items[i].st = op.old.st
          /\ flash[b].items[i].key = op.old.key
      BY <3>1, <3>5 DEF CopyMatch
    <3>7. i \in WholeAt(flash, b)
      BY <2>0, <3>6 DEF WholeAt, Intact
    <3>8. PICK h : h = Item(flash, b, i)
      OBVIOUS
    <3>9. h \in Kept(flash) /\ h.key = op.key /\ h.pos = <<b, flash[b].items[i].off>> /\ h.blk = b
      BY <2>0, <3>6, <3>7, <3>8, KeptIn, ItemIs
    <3>10. FixedPos = <<b, flash[b].items[i].off>>
      BY <3>2, <3>5
    <3> QED
      BY <3>9, <3>10
  <2>2. CASE ~Moved(flash, op)
    <3>0. PICK b, o : b = op.prev[1] /\ o = op.prev[2]
      OBVIOUS
    <3>1. b \in Blocks /\ op.prev = <<b, o>>
      BY <1>0, <1>2, <3>0 DEF Pos, NoPos
    <3>2. PICK i \in SlotsAt(flash, op.prev) : flash[op.prev[1]].items[i] = op.old
      BY <1>2, <2>2 DEF Moved
    <3>3. i \in DOMAIN flash[b].items /\ flash[b].items[i].off = o /\ flash[b].items[i] = op.old
      BY <3>0, <3>2 DEF SlotsAt
    <3>4. i \in WholeAt(flash, b)
      BY <2>0, <3>3 DEF WholeAt, Intact, Live, Legal
    <3>5. PICK h : h = Item(flash, b, i)
      OBVIOUS
    <3>6. h \in Kept(flash) /\ h.key = op.key /\ h.pos = <<b, o>> /\ h.blk = b
      BY <2>0, <3>1, <3>3, <3>4, <3>5, KeptIn, ItemIs
    <3>7. FixedPos = <<b, o>>
      BY <2>2, <3>1 DEF FixedPos
    <3> QED
      BY <3>1, <3>6, <3>7
  <2> QED
    BY <2>1, <2>2
<1>3. op.prev # NoPos => FixedPos # NoPos
  <2> SUFFICES ASSUME op.prev # NoPos PROVE FixedPos # NoPos
    OBVIOUS
  <2>1. PICK h \in Kept(flash) : h.pos = FixedPos
    BY <1>2
  <2>2. h.blk \in Blocks /\ h = Item(flash, h.blk, h.idx)
    BY <1>0, KeptPlace
  <2>3. h.pos = <<h.blk, flash[h.blk].items[h.idx].off>>
    BY <2>2, ItemIs
  <2> QED
    BY <2>1, <2>2, <2>3, BlocksNat DEF NoPos
<1>4. op.prev = NoPos => ~HasKey(Kept(flash), op.key)
  BY DEF Unsaved
<1> QED
  BY <1>1, <1>2, <1>3, <1>4

\* The header of the new item, after kv_item_fix: it is torn, and it names the place the old item
\* has now, also when a collection has moved it.
LEMMA SaveHeaderFacts == ASSUME KvInv, KvInv', FitsBlank, Facts, SaveHeader PROVE Facts'
<1>0. pc = "search" /\ allowed' = allowed /\ ~FixFails
  BY DEF SaveHeader
<1>1. /\ flash \in [Blocks -> Block] /\ Single(Kept(flash)) /\ Right(Kept(flash), allowed)
      /\ Torn(flash) = {} /\ Unsaved(Kept(flash), op, allowed)
  BY <1>0, RestIs
<1>2. op \in Op /\ op.key \in Keys /\ op.val \in Vals
  BY <1>0 DEF KvInv, Setting, Op
<1>3. PICK c, r, p : /\ c = Suitable(ram, ItemSize(op.val)) /\ r = [FixedRam EXCEPT !.workspace = c.ws]
                     /\ p = FixedPos
  OBVIOUS
<1>4. PICK s : s = NewSlot(UsableOff(r, c.blk), op.key, op.val, p)
  OBVIOUS
<1>5. /\ c.blk # Invalid /\ op' = [op EXCEPT !.blk = c.blk, !.prev = p]
      /\ \/ flash' = PutHeader(c.blk, s) /\ pc' = "s_magic"
         \/ pc' = "overrun"
  BY <1>3, <1>4 DEF SaveHeader
<1>6. pc' # "overrun"
  <2>1. ItemFits /\ [Next]_vars
    BY <1>0 DEF ItemFits, Next, Save
  <2> QED
    BY <2>1, NoOverrun DEF ItemFits
<1>7. c.blk \in Blocks
  BY <1>2, <1>3, <1>5, SuitableRight, Sizes DEF KvInv
<1>8. op'.blk = c.blk /\ op'.prev = p /\ op'.key = op.key /\ op'.val = op.val /\ p \in Pos
  BY <1>0, <1>2, <1>3, <1>5, Fixed DEF Op
<1>9. UsableOff(r, c.blk) \in Nat
  <2>1. ItemSize(op.val) <= r.free[c.blk]
    BY <1>3, <1>6 DEF SaveHeader
  <2>2. /\ RamOk(FixedRam) /\ \A b \in Blocks : Describes(FixedRam, flash, b)
        /\ c.ws \in Blocks \cup {Invalid, Unset}
    <3>1. RamOk(ram) /\ ItemSize(op.val) \in Nat
      BY <1>2, Sizes DEF KvInv
    <3> QED
      BY <1>0, <1>3, <3>1, Fixed, SuitableRight
  <2>3. r.free = FixedRam.free /\ FixedRam \in Ram
    BY <1>3, <2>2, WorkspaceOnly DEF RamOk
  <2>4. FixedRam.free[c.blk] > HdrSize
    <3>1. ItemSize(op.val) \in Nat /\ ItemSize(op.val) > HdrSize
      BY <1>2, Sizes
    <3>2. FixedRam.free[c.blk] \in Int
      BY <1>7, <2>3 DEF Ram
    <3> QED
      BY <3>1, <3>2, <2>1, <2>3, BlocksNat
  <2>5. FixedRam.free[c.blk] = BlkFresh - WalkEnd(flash[c.blk])
    BY <1>7, <2>2, <2>4 DEF Describes
  <2>6. PICK w \in Nat : w = WalkEnd(flash[c.blk])
    BY <1>1, <1>7, Sizes
  <2>7. r.free[c.blk] = BlkFresh - w
    BY <2>3, <2>5, <2>6
  <2> QED
    BY <2>6, <2>7, BlocksNat DEF UsableOff
<1>10. s \in Slot /\ s.st = "hdr" /\ s.key = op.key /\ s.prev = p /\ s.disc = FALSE
  <2>1. s \in Slot /\ s.st = "hdr"
    BY <1>2, <1>4, <1>8, <1>9, HeaderSlot
  <2> QED
    BY <1>4, <2>1 DEF NewSlot
<1>11. /\ Kept(flash') = Kept(flash) /\ Torn(flash') = Torn(flash) /\ LastItem(flash'[c.blk]) = s
  BY <1>1, <1>5, <1>6, <1>7, <1>10, HeaderKept
<1>12. Halfway(Kept(flash), op', allowed)
  <2>1. /\ op.prev = NoPos => p = NoPos
        /\ op.prev # NoPos => \E h \in Kept(flash) : h.key = op.key /\ h.pos = p
        /\ p = NoPos => ~HasKey(Kept(flash), op.key)
    BY <1>0, <1>1, <1>3, FixedIs
  <2> QED
    BY <1>1, <1>8, <2>1 DEF Halfway, Unsaved
<1>13. /\ pc' = "s_magic"
       /\ LastItem(flash'[op'.blk]).key = op'.key /\ LastItem(flash'[op'.blk]).prev = op'.prev
       /\ ~LastItem(flash'[op'.blk]).disc
  BY <1>5, <1>6, <1>8, <1>10, <1>11
<1>14. Writing'
  BY <1>0, <1>1, <1>11, <1>12, <1>13 DEF Writing, LastItem, Saving
<1> QED
  BY <1>13, <1>14, FactsWrite DEF Saving

\* What is known while the item of a set is written
LEMMA WriteIs ==
    ASSUME KvInv, Facts, pc \in Saving
    PROVE  /\ flash \in [Blocks -> Block] /\ op \in Op /\ op.blk \in Blocks /\ op.key \in Keys
           /\ op.val \in Vals /\ flash[op.blk].items # << >> /\ allowed \in [Keys -> SUBSET (Vals \cup {None})]
           /\ Single(Kept(flash)) /\ Right(Kept(flash), allowed) /\ Halfway(Kept(flash), op, allowed)
           /\ Torn(flash) \subseteq {<<op.blk, Len(flash[op.blk].items)>>}
           /\ LastItem(flash[op.blk]).key = op.key /\ LastItem(flash[op.blk]).val = op.val
           /\ LastItem(flash[op.blk]).prev = op.prev /\ ~LastItem(flash[op.blk]).disc
           /\ ~Intact(LastItem(flash[op.blk]))
<1>1. /\ flash \in [Blocks -> Block] /\ op \in Op /\ op.blk \in Blocks /\ op.key \in Keys
      /\ op.val \in Vals /\ flash[op.blk].items # << >> /\ allowed \in [Keys -> SUBSET (Vals \cup {None})]
  BY DEF KvInv, Setting, Op
<1>2. /\ LastItem(flash[op.blk]).val = op.val
      /\ LastItem(flash[op.blk]).st = IF pc = "s_magic" THEN "hdr" ELSE IF pc = "s_key" THEN "magic" ELSE "key"
  BY DEF KvInv, Setting
<1>3. Writing
  BY DEF Facts
<1> QED
  BY <1>1, <1>2, <1>3 DEF Writing, LastItem, Intact

\* The magic word and the key of the new item leave it torn: the old value counts.
LEMMA SavePartFacts == ASSUME KvInv, Facts, SaveMagic \/ SaveKey PROVE Facts'
<1>0. /\ pc \in Saving /\ pc' \in Saving /\ allowed' = allowed /\ op' = op /\ pc' # "del_old"
      /\ \E st \in {"magic", "key"} : flash' = PutStage(op.blk, st)
  BY DEF SaveMagic, SaveKey, Saving
<1>1. /\ flash \in [Blocks -> Block] /\ op.blk \in Blocks /\ flash[op.blk].items # << >>
      /\ Single(Kept(flash)) /\ Right(Kept(flash), allowed) /\ Halfway(Kept(flash), op, allowed)
      /\ Torn(flash) \subseteq {<<op.blk, Len(flash[op.blk].items)>>}
      /\ LastItem(flash[op.blk]).key = op.key
      /\ LastItem(flash[op.blk]).prev = op.prev /\ ~LastItem(flash[op.blk]).disc
      /\ ~Intact(LastItem(flash[op.blk]))
  BY <1>0, WriteIs
<1>2. PICK b \in Blocks : b = op.blk
  BY <1>1
<1>3. PICK st \in {"magic", "key"} : flash' = PutStage(b, st)
  BY <1>0, <1>2
<1>4. /\ Len(flash'[b].items) = Len(flash[b].items)
      /\ LastItem(flash'[b]).key = LastItem(flash[b]).key /\ ~LastItem(flash'[b]).disc
      /\ LastItem(flash'[b]).prev = LastItem(flash[b]).prev
      /\ Kept(flash') = Kept(flash) /\ Torn(flash') \subseteq Torn(flash) \cup {<<b, Len(flash[b].items)>>}
  <2>1. st \in {"magic", "key", "full"} /\ st # "full" /\ ~LastItem(flash[b]).disc /\ ~Intact(LastItem(flash[b]))
        /\ flash[b].items # << >>
    BY <1>1, <1>2
  <2> QED
    BY <1>1, <1>3, <2>1, StageKept
<1>5. /\ Torn(flash') \subseteq {<<b, Len(flash'[b].items)>>}
      /\ LastItem(flash'[b]).key = op.key /\ LastItem(flash'[b]).prev = op.prev
  BY <1>1, <1>2, <1>4
<1>6. Writing'
  BY <1>0, <1>1, <1>2, <1>4, <1>5 DEF Writing, LastItem
<1> QED
  BY <1>0, <1>6, FactsWrite

\* The value of the new item makes it whole: it supersedes the item that its prev_pos names.
LEMMA SaveValFacts == ASSUME KvInv, Facts, SaveVal PROVE Facts'
<1>0. /\ pc \in Saving /\ flash' = PutStage(op.blk, "full")
  BY DEF SaveVal, Saving
<1>1. /\ flash \in [Blocks -> Block] /\ op.blk \in Blocks /\ flash[op.blk].items # << >>
      /\ Single(Kept(flash)) /\ Right(Kept(flash), allowed) /\ Halfway(Kept(flash), op, allowed)
      /\ Torn(flash) \subseteq {<<op.blk, Len(flash[op.blk].items)>>}
      /\ LastItem(flash[op.blk]).key = op.key /\ LastItem(flash[op.blk]).val = op.val
      /\ LastItem(flash[op.blk]).prev = op.prev /\ ~LastItem(flash[op.blk]).disc
      /\ ~Intact(LastItem(flash[op.blk])) /\ op.key \in Keys /\ allowed \in [Keys -> SUBSET (Vals \cup {None})]
  BY <1>0, WriteIs
<1>2. PICK b \in Blocks : b = op.blk
  BY <1>1
<1>3. /\ Torn(flash') = Torn(flash) \ {<<b, Len(flash[b].items)>>}
      /\ \E h : /\ Kept(flash') = Kept(flash) \cup {h} /\ h \notin Kept(flash)
                /\ h.key = LastItem(flash[b]).key /\ h.val = LastItem(flash[b]).val
                /\ h.prev = LastItem(flash[b]).prev
  <2>1. /\ ~LastItem(flash[b]).disc /\ ~Intact(LastItem(flash[b])) /\ flash[b].items # << >>
        /\ flash' = PutStage(b, "full")
    BY <1>0, <1>1, <1>2
  <2> QED
    BY <1>1, <2>1, StageKept
<1>4. Torn(flash') = {}
  BY <1>1, <1>2, <1>3
<1>5. PICK h : /\ Kept(flash') = Kept(flash) \cup {h} /\ h \notin Kept(flash)
               /\ h.key = op.key /\ h.val = op.val /\ h.prev = op.prev
  BY <1>1, <1>2, <1>3
<1>6. CASE op.prev = NoPos
  <2>1. pc' = "idle" /\ allowed' = [allowed EXCEPT ![op.key] = {op.val}]
    BY <1>6 DEF SaveVal
  <2>2. allowed'[op.key] = {op.val} /\ \A x \in Keys \ {op.key} : allowed'[x] = allowed[x]
    BY <1>1, <2>1
  <2>3. ~HasKey(Kept(flash), op.key)
    BY <1>1, <1>6 DEF Halfway
  <2>4. Single(Kept(flash'))
    BY <1>1, <1>5, <2>3 DEF Single, HasKey
  <2>5. Right(Kept(flash'), allowed')
    <3>1. ASSUME NEW g \in Kept(flash') PROVE g.val \in allowed'[g.key]
      <4>1. CASE g \in Kept(flash)
        <5>1. g.key \in Keys /\ g.key # op.key /\ g.val \in allowed[g.key]
          BY <1>1, <2>3, <4>1, KeptKeys DEF HasKey, Right
        <5> QED
          BY <2>2, <5>1
      <4>2. CASE g = h
        BY <1>5, <2>2, <4>2
      <4> QED
        BY <1>5, <4>1, <4>2
    <3>2. ASSUME NEW x \in Keys PROVE None \in allowed'[x] \/ HasKey(Kept(flash'), x)
      <4>1. CASE x = op.key
        BY <1>5, <4>1 DEF HasKey
      <4>2. CASE x # op.key
        BY <1>1, <1>5, <2>2, <4>2 DEF Right, HasKey
      <4> QED
        BY <4>1, <4>2
    <3> QED
      BY <3>1, <3>2 DEF Right
  <2>6. Resting'
    BY <1>4, <2>1, <2>4, <2>5 DEF Resting, Erasing
  <2> QED
    BY <2>1, <2>6, FactsRest
<1>7. CASE op.prev # NoPos
  <2>1. pc' = "del_old" /\ allowed' = allowed /\ op' = op
    BY <1>7 DEF SaveVal
  <2>2. Right(Kept(flash'), allowed)
    <3>1. op.val \in allowed[op.key]
      BY <1>1 DEF Halfway
    <3> QED
      BY <1>1, <1>5, <3>1 DEF Right, HasKey
  <2>3. Both(Kept(flash'), op)
    <3>1. Kept(flash') \ {h} = Kept(flash) /\ h \in Kept(flash')
      BY <1>5
    <3>2. \E m \in Kept(flash) : m.key = op.key /\ m.pos = op.prev
      BY <1>1, <1>7 DEF Halfway
    <3> QED
      BY <1>1, <1>5, <3>1, <3>2 DEF Both
  <2>4. Writing'
    BY <1>4, <2>1, <2>2, <2>3 DEF Writing, Saving
  <2> QED
    BY <2>1, <2>4, FactsWrite
<1> QED
  BY <1>6, <1>7

\* The old item is the one that is discarded.
LEMMA OldDrops ==
    ASSUME KvInv, Facts, DeleteOld
    PROVE  \E n, m \in Kept(flash) :
               /\ n # m /\ n.key = op.key /\ n.val = op.val /\ m.key = op.key /\ Single(Kept(flash) \ {n})
               /\ Kept(flash') = Kept(flash) \ {m} /\ Torn(flash') = {} /\ Right(Kept(flash), allowed)
               /\ Drops(flash, flash', m.blk, m.idx)
<1>0. pc = "del_old" /\ flash \in [Blocks -> Block] /\ \A b \in Blocks : LaidOut(flash[b])
  BY DEF DeleteOld, KvInv
<1>1. Right(Kept(flash), allowed) /\ Both(Kept(flash), op) /\ Torn(flash) = {}
  BY <1>0 DEF Facts, Writing
<1>2. PICK n \in Kept(flash) : /\ n.key = op.key /\ n.val = op.val /\ Single(Kept(flash) \ {n})
                               /\ \E m \in Kept(flash) \ {n} : m.key = op.key /\ m.pos = op.prev
  BY <1>1 DEF Both
<1>3. PICK m \in Kept(flash) \ {n} : m.key = op.key /\ m.pos = op.prev
  BY <1>2
<1>4. PICK b, j : b = m.blk /\ j = m.idx
  OBVIOUS
<1>5. /\ b \in Blocks /\ j \in DOMAIN flash[b].items /\ m = Item(flash, b, j)
      /\ op.prev = <<b, flash[b].items[j].off>>
  BY <1>0, <1>3, <1>4, KeptPlace, ItemIs DEF WholeAt
<1>6. op.prev[1] = b /\ op.prev[2] = flash[b].items[j].off
  BY <1>5
<1>7. PICK y : /\ flash' = [flash EXCEPT ![op.prev[1]] = y]
               /\ Discarded(flash[op.prev[1]], y)
               /\ \A i \in 1 .. Len(y.items) : IF flash[op.prev[1]].items[i].off = op.prev[2]
                                               THEN y.items[i].disc = TRUE
                                               ELSE y.items[i] = flash[op.prev[1]].items[i]
  BY DeletePut, Zenon
<1>8. /\ flash' = [flash EXCEPT ![b] = y] /\ Discarded(flash[b], y)
      /\ \A i \in 1 .. Len(y.items) : IF flash[b].items[i].off = flash[b].items[j].off
                                      THEN y.items[i].disc = TRUE
                                      ELSE y.items[i] = flash[b].items[i]
  BY <1>6, <1>7
<1>9. /\ y \in Block /\ DOMAIN flash[b].items = 1 .. Len(y.items) /\ flash[b] \in Block /\ LaidOut(flash[b])
  BY <1>0, <1>5, <1>8, ItemsOf DEF Discarded, WithItems
<1>10. flash' \in [Blocks -> Block] /\ flash'[b] = y /\ \A c \in Blocks \ {b} : flash'[c] = flash[c]
  BY <1>0, <1>5, <1>8, <1>9, Replaced
<1>11. y.items[j].disc = TRUE /\ \A i \in DOMAIN flash[b].items \ {j} : y.items[i] = flash[b].items[i]
  BY <1>5, <1>8, <1>9, OffOnce
<1>12. Drops(flash, flash', b, j)
  BY <1>5, <1>8, <1>10, <1>11 DEF Drops
<1>13. Kept(flash') = Kept(flash) \ {m} /\ Torn(flash') = {}
  BY <1>0, <1>1, <1>5, <1>12, KeptDrops
<1> QED
  BY <1>1, <1>2, <1>3, <1>4, <1>12, <1>13

\* kv_item_del_by_pos discards the old item: one item of the key is left, with the new value.
LEMMA DeleteOldFacts == ASSUME KvInv, Facts, DeleteOld PROVE Facts'
<1>0. pc = "del_old" /\ pc' = "idle" /\ allowed' = [allowed EXCEPT ![op.key] = {op.val}]
  BY DEF DeleteOld
<1>1. PICK n, m \in Kept(flash) :
          /\ n # m /\ n.key = op.key /\ n.val = op.val /\ m.key = op.key /\ Single(Kept(flash) \ {n})
          /\ Kept(flash') = Kept(flash) \ {m} /\ Torn(flash') = {} /\ Right(Kept(flash), allowed)
  BY OldDrops
<1>2. op.key \in Keys /\ allowed \in [Keys -> SUBSET (Vals \cup {None})] /\ flash \in [Blocks -> Block]
  BY <1>0 DEF KvInv, Setting, Op
<1>3. allowed'[op.key] = {op.val} /\ \A x \in Keys \ {op.key} : allowed'[x] = allowed[x]
  BY <1>0, <1>2
<1>4. \A h \in Kept(flash') : h.key = op.key => h = n
  BY <1>1 DEF Single
<1>5. Single(Kept(flash'))
  BY <1>1, <1>4 DEF Single
<1>6. Right(Kept(flash'), allowed')
  <2>1. ASSUME NEW h \in Kept(flash') PROVE h.val \in allowed'[h.key]
    <3>1. h \in Kept(flash) /\ h.key \in Keys /\ h.val \in allowed[h.key]
      BY <1>1, <1>2, KeptKeys DEF Right
    <3> QED
      BY <1>1, <1>3, <1>4, <3>1
  <2>2. ASSUME NEW x \in Keys PROVE None \in allowed'[x] \/ HasKey(Kept(flash'), x)
    <3>1. CASE x = op.key
      BY <1>1, <3>1 DEF HasKey
    <3>2. CASE x # op.key
      BY <1>1, <1>3, <3>2 DEF Right, HasKey
    <3> QED
      BY <3>1, <3>2
  <2> QED
    BY <2>1, <2>2 DEF Right
<1>7. Resting'
  BY <1>0, <1>1, <1>5, <1>6 DEF Resting, Erasing
<1> QED
  BY <1>0, <1>7, FactsRest

-----------------------------------------------------------------------------
(* The power failure                                                         *)

\* What a power failure counts
LEMMA PowerIs ==
    ASSUME KvInv, KvInv', MarkInv, PowerFail, Good'
    PROVE  /\ Good /\ cycles.n \in Nat /\ cycles'.n \in Nat /\ cycles'.n >= cycles.n
           /\ cycles.window => pc \in {"failed", "overrun", "wild"}
           /\ pc \notin {"failed", "overrun", "wild"} => cycles'.n = cycles.n + 1
           /\ pc \notin Erasing => cycles'.window = cycles.window
<1>0. /\ cycles \in [n : 0 .. MaxCycle, window : BOOLEAN] /\ MaxCycle \in Nat /\ Marks
      /\ cycles' \in [n : 0 .. MaxCycle, window : BOOLEAN]
  BY KvEnv DEF KvInv, MarkInv
<1>1. CASE cycles' = cycles /\ pc \in {"failed", "overrun", "wild"}
  <2>1. Good' = Good
    BY <1>1 DEF Good
  <2> QED
    BY <1>0, <1>1, <2>1
<1>2. CASE /\ cycles.n < MaxCycle
           /\ cycles' = [n |-> cycles.n + 1, window |-> cycles.window \/ pc \in {"gc_magic", "gc_done"}]
  <2>1. /\ cycles'.n = cycles.n + 1 /\ cycles.n \in Nat
        /\ cycles'.window = (cycles.window \/ pc \in {"gc_magic", "gc_done"})
    BY <1>0, <1>2
  <2>2. cycles'.window <=> (cycles.window \/ pc \in Erasing)
    BY <2>1 DEF Erasing
  <2>3. ~cycles.window
    <3>1. CASE ~cycles'.window
      BY <2>2, <3>1
    <3>2. CASE MaxCycle <= 1
      <4>1. cycles.n = 0
        BY <1>0, <1>2, <2>1, <3>2
      <4> QED
        BY <1>0, <4>1 DEF Marks
    <3> QED
      BY <3>1, <3>2 DEF Good
  <2>4. pc \notin Erasing => cycles'.window = cycles.window
    <3>1. cycles.window = FALSE
      BY <1>0, <2>3
    <3>2. pc \notin Erasing => cycles'.window = FALSE
      BY <1>0, <2>2, <2>3
    <3> QED
      BY <3>1, <3>2
  <2>5. pc \notin {"failed", "overrun", "wild"} => cycles'.n = cycles.n + 1
    BY <2>1
  <2> QED
    BY <1>0, <2>1, <2>3, <2>4, <2>5 DEF Good
<1> QED
  BY <1>1, <1>2 DEF PowerFail

\* Outside a collection: nothing is to be completed, and of two values of a key one is known
\* to be the newer one.
LEMMA PowerRunning ==
    ASSUME KvInv, KvInv', MarkInv, Facts, PowerFail, Good', pc \in Running \cup Erasing
    PROVE  Facts'
<1>0. /\ flash' = flash /\ allowed' = allowed /\ pc' = "off" /\ pc' \in Booting
  BY DEF PowerFail, Booting
<1>1. Good /\ (cycles.window => pc \in {"failed", "overrun", "wild"}) /\ pc # "overrun"
      /\ (pc \notin Erasing => cycles'.window = cycles.window)
  BY PowerIs DEF Facts
<1>2. GcSrcs = {}
  BY <1>1 DEF MarkInv, Marks
<1>3. GcSrcs' = GcSrcs
  BY <1>0 DEF GcSrcs
<1>4. /\ Linked(Kept(flash)) /\ Right(Kept(flash), allowed)
      /\ pc \notin Saving \cup {"del_old"} => Single(Kept(flash)) /\ Torn(flash) = {}
  <2>1. CASE pc \in Saving
    <3>1. Single(Kept(flash)) /\ Right(Kept(flash), allowed)
      BY <2>1 DEF Facts, Writing
    <3> QED
      BY <2>1, <3>1 DEF Single, Linked
  <2>2. CASE pc = "del_old"
    <3>1. Right(Kept(flash), allowed) /\ Both(Kept(flash), op)
      BY <2>2 DEF Facts, Writing
    <3>2. PICK n \in Kept(flash) : /\ n.key = op.key /\ n.prev = op.prev /\ Single(Kept(flash) \ {n})
                                   /\ \E m \in Kept(flash) \ {n} : m.key = op.key /\ m.pos = op.prev
      BY <3>1 DEF Both
    <3>3. PICK m \in Kept(flash) \ {n} : m.key = op.key /\ m.pos = op.prev
      BY <3>2
    <3>4. \A h \in Kept(flash) \ {n} : h.key = n.key => n.prev = h.pos
      BY <3>2, <3>3 DEF Single
    <3>5. Linked(Kept(flash))
      BY <3>2, <3>4 DEF Single, Linked
    <3> QED
      BY <2>2, <3>1, <3>5
  <2>3. CASE pc \notin Saving \cup {"del_old"}
    <3>1. pc \in {"locate", "locate_ws", "idle", "search", "wild"} \cup Erasing
      BY <1>1, <2>3 DEF Running
    <3>2. Single(Kept(flash)) /\ Right(Kept(flash), allowed) /\ Torn(flash) = {}
      BY <3>1 DEF Facts, Resting
    <3> QED
      BY <3>2 DEF Single, Linked
  <2> QED
    BY <2>1, <2>2, <2>3
<1>5. cycles'.window => pc \notin Saving \cup {"del_old"}
  BY <1>1 DEF Saving, Erasing
<1>6. Rebooting'
  BY <1>0, <1>2, <1>3, <1>4, <1>5 DEF Rebooting
<1> QED
  BY <1>0, <1>6, FactsBoot

\* During a collection: the values are all outside the destination.
LEMMA PowerGathering ==
    ASSUME KvInv, KvInv', MarkInv, Facts, PowerFail, Good', pc \in Marking \cup {"inc_magic"}
    PROVE  Facts'
<1>0. /\ flash' = flash /\ allowed' = allowed /\ pc' = "off" /\ pc' \in Booting
      /\ flash \in [Blocks -> Block] /\ gc \in Gc /\ gc.src \in Blocks /\ gc.dst \in Blocks
  BY DEF PowerFail, Booting, KvInv, Gc
<1>1. Good /\ ~cycles.window /\ cycles'.n = cycles.n + 1 /\ cycles.n \in Nat
  <2>1. pc \notin {"failed", "overrun", "wild"}
    BY Classes DEF Booting, Running
  <2> QED
    BY <2>1, PowerIs
<1>2. PICK s, d : s = gc.src /\ d = gc.dst
  OBVIOUS
<1>3. s # d /\ (pc \in {"gc_dst", "inc_magic"} => flash[d].items = << >>)
  <2>1. gc.src # gc.dst
    BY Classes DEF KvInv, Moving
  <2>2. pc = "gc_dst" => flash[gc.dst].items = << >>
    BY DEF KvInv, Moving
  <2>3. pc = "inc_magic" => flash[gc.dst].items = << >>
    BY ErasedRight DEF KvInv, Moving
  <2> QED
    BY <1>2, <2>1, <2>2, <2>3
<1>4. /\ GcSrcs = {s} /\ (pc = "inc_magic" => GcDsts = {}) /\ (pc \in Marking => GcDsts \subseteq {d})
      /\ pc \in Marking \ {"gc_dst"} => flash[d].dst
  BY <1>1, <1>2 DEF MarkInv, Marks
<1>5. GcDsts \subseteq {d}
  BY <1>4
<1>6. /\ Single(Off(Kept(flash), d)) /\ Right(Off(Kept(flash), d), allowed) /\ Spare(flash, d)
      /\ flash[d].done => cycles.n >= 1
      /\ pc \in Marking \ {"gc_dst"} => Copied(Kept(flash), s, d, gc.i)
      /\ \A t \in Torn(flash) : t[1] = d
  <2>1. Gathering
    BY DEF Facts
  <2> QED
    BY <1>1, <1>2, <2>1 DEF Gathering
<1>7. \A h \in In(Kept(flash), d) : HasKey(Off(Kept(flash), d), h.key)
  <2>1. CASE pc \in {"gc_dst", "inc_magic"}
    <3>1. WholeAt(flash, d) = {}
      BY <1>3, <2>1 DEF WholeAt
    <3> QED
      BY <1>0, <3>1, KeptPlace DEF In
  <2>2. CASE pc \in Marking \ {"gc_dst"}
    BY <1>3, <1>6, <2>2 DEF Copied, In, Off, HasKey
  <2> QED
    BY <2>1, <2>2
<1>8. CASE GcDsts = {d} \/ flash[d].items = << >>
  <2>1. GcDsts = {d} \/ (GcDsts = {} /\ flash[d].items = << >>)
    BY <1>5, <1>8
  <2>2. d \notin GcSrcs /\ Lone(GcSrcs)
    BY <1>3, <1>4 DEF Lone
  <2>3. Repairable(d)
    BY <1>6, <1>7, <2>1, <2>2 DEF Repairable
  <2>4. Repairable(d)'
    BY <1>0, <2>3 DEF Repairable, GcSrcs, GcDsts
  <2>5. GcSrcs' # {}
    BY <1>0, <1>4 DEF GcSrcs
  <2>6. Rebooting'
    BY <1>0, <1>2, <2>4, <2>5 DEF Rebooting
  <2> QED
    BY <1>0, <2>6, FactsBoot
<1>9. CASE GcDsts # {d} /\ flash[d].items # << >>
  <2>1. pc \in Marking \ {"gc_dst"} /\ flash[d].dst /\ GcDsts = {}
    BY <1>3, <1>4, <1>5, <1>9
  <2>2. flash[d].magic /\ ~flash[d].src
    <3>1. flash[d].magic
      BY <1>0, <1>2, <1>9, ErasedRight DEF MarkInv, Formatted
    <3>2. d \notin GcSrcs
      BY <1>3, <1>4
    <3> QED
      BY <1>0, <1>2, <3>1, <3>2 DEF GcSrcs, IsGcSrc
  <2>3. flash[d].done
    BY <1>0, <1>2, <2>1, <2>2 DEF GcDsts, IsGcDstNotDone
  <2>4. cycles'.n >= 2
    BY <1>1, <1>6, <2>3
  <2>5. \A b \in Blocks : flash[b].items # << >>
    BY <1>6, <1>9 DEF Spare
  <2>6. GcDsts' = {} /\ GcSrcs' # {}
    BY <1>0, <1>4, <2>1 DEF GcDsts, GcSrcs
  <2>7. Doomed'
    BY <1>0, <2>4, <2>5, <2>6 DEF Doomed
  <2>8. Rebooting'
    BY <1>0, <2>6, <2>7 DEF Rebooting
  <2> QED
    BY <1>0, <2>8, FactsBoot
<1> QED
  BY <1>8, <1>9

\* Power fails: boot finds linked items outside a collection, a repairable destination in one.
LEMMA PowerFacts == ASSUME KvInv, KvInv', MarkInv, Facts, PowerFail, Good' PROVE Facts'
<1>1. CASE pc \in Running \cup Erasing
  BY <1>1, PowerRunning
<1>2. CASE pc \in Marking \cup {"inc_magic"}
  BY <1>2, PowerGathering
<1>3. CASE pc \in Booting
  <2>1. /\ flash' = flash /\ allowed' = allowed /\ pc' = "off" /\ pc' \in Booting \ {"failed"}
    BY DEF PowerFail, Booting
  <2>2. /\ cycles.n \in Nat /\ cycles'.n \in Nat /\ cycles'.n >= cycles.n /\ cycles'.window = cycles.window
    BY <1>3, PowerIs, Classes
  <2>3. GcSrcs' = GcSrcs /\ GcDsts' = GcDsts
    BY <2>1 DEF GcSrcs, GcDsts
  <2>4. GcSrcs = {} => Right(Kept(flash), allowed)
    BY <1>3 DEF Facts, Rebooting
  <2> QED
    BY <1>3, <2>1, <2>2, <2>3, <2>4, BootStep
<1> QED
  BY <1>1, <1>2, <1>3, Classes DEF KvInv

-----------------------------------------------------------------------------
(* The blocks before the first power failure                                 *)

\* No block that was a destination is blank.
NoneSpoiled(f) == \A b \in Blocks : ~(f[b].done /\ f[b].items = << >>)

\* A step that writes items leaves no block blank that was not.
LEMMA StaysFilled ==
    ASSUME KvInv, KvInv', Formatted, Writes
    PROVE  \A b \in Blocks : /\ flash'[b].done = flash[b].done
                             /\ flash'[b].items = << >> => flash[b].items = << >>
<1>0. flash \in [Blocks -> Block] /\ gc \in Gc
  BY DEF KvInv
<1>1. \A b \in Blocks : flash'[b].done = flash[b].done
  BY WritesItems DEF ItemsOnly, SameMark
<1>2. ASSUME NEW b, NEW j, Drops(flash, flash', b, j)
      PROVE  \A c \in Blocks : flash'[c].items = << >> => flash[c].items = << >>
  <2>1. b \in Blocks /\ j \in DOMAIN flash[b].items /\ flash[b] \in Block /\ flash'[b] \in Block
        /\ Len(flash'[b].items) = Len(flash[b].items) /\ \A c \in Blocks \ {b} : flash'[c] = flash[c]
    BY <1>0, <1>2 DEF Drops, Discarded
  <2>2. flash[b].items # << >> /\ flash'[b].items # << >>
    BY <2>1, ItemsOf
  <2> QED
    BY <2>1, <2>2
<1>3. ASSUME NEW b \in Blocks, NEW st \in Stages, flash[b].items # << >>, flash' = PutStage(b, st)
      PROVE  \A c \in Blocks : flash'[c].items = << >> => flash[c].items = << >>
  <2>1. PICK y : /\ flash' = [flash EXCEPT ![b] = y] /\ WithItems(flash[b], y, y.items)
                 /\ y.items # << >>
    BY <1>0, <1>3, StagePut
  <2>3. flash'[b].items # << >>
    BY <1>0, <2>1
  <2>2. \A c \in Blocks \ {b} : flash'[c] = flash[c]
    BY <1>0, <1>3, PutElsewhere
  <2> QED
    BY <1>3, <2>2, <2>3
<1>4. ASSUME NEW b \in Blocks, NEW s, flash' = PutHeader(b, s), flash'[b].items # << >>
      PROVE  \A c \in Blocks : flash'[c].items = << >> => flash[c].items = << >>
  <2>1. \A c \in Blocks \ {b} : flash'[c] = flash[c]
    BY <1>0, <1>4, PutElsewhere
  <2> QED
    BY <1>4, <2>1
<1>5. CASE ScanRecover
  BY <1>1, <1>2, <1>5, RecoverDrops
<1>6. CASE \E k \in Keys : ln_kv_del(k)
  <2>1. PICK k \in Keys : ln_kv_del(k)
    BY <1>6
  <2>2. flash' = flash \/ \E b, j : Drops(flash, flash', b, j)
    BY <2>1, DelDrops
  <2> QED
    BY <1>1, <1>2, <2>2
<1>7. CASE DeleteOld
  <2>1. PICK d, y : /\ d = op.prev[1] /\ d \in Blocks /\ flash[d].items # << >>
                    /\ flash' = [flash EXCEPT ![d] = y] /\ Discarded(flash[d], y)
    BY <1>7, DeletePut
  <2>2. y \in Block
    BY <2>1 DEF Discarded, WithItems
  <2>3. flash'[d] = y /\ \A c \in Blocks \ {d} : flash'[c] = flash[c]
    BY <1>0, <2>1, <2>2, Replaced
  <2>4. y.items # << >>
    BY <1>0, <2>1, <2>2, ItemsOf DEF Discarded
  <2> QED
    BY <1>1, <2>1, <2>3, <2>4
<1>8. CASE GcCopyMagic \/ GcCopyKey \/ GcCopyVal
  <2>1. /\ pc \in Copying /\ \E st : flash' = PutStage(gc.dst, st)
                                   /\ st \in {"magic", "key", flash[gc.src].items[gc.i].st}
    BY <1>8 DEF GcCopyMagic, GcCopyKey, GcCopyVal, Copying
  <2>2. flash[gc.dst].items # << >> /\ gc.dst \in Blocks /\ flash[gc.src].items[gc.i] \in Slot
    BY <2>1, CopyFacts
  <2> QED
    BY <1>1, <1>3, <2>1, <2>2 DEF Slot, Stages
<1>9. CASE SaveMagic \/ SaveKey \/ SaveVal
  <2>1. pc \in Saving /\ \E st \in {"magic", "key", "full"} : flash' = PutStage(op.blk, st)
    BY <1>9 DEF SaveMagic, SaveKey, SaveVal, Saving
  <2>2. flash[op.blk].items # << >> /\ op.blk \in Blocks
    BY <2>1 DEF KvInv, Setting, Op
  <2> QED
    BY <1>1, <1>3, <2>1, <2>2 DEF Stages
<1>10. CASE GcCopyHeader
  <2>1. PICK s : flash' = PutHeader(gc.dst, s)
    BY <1>10 DEF GcCopyHeader
  <2>2. pc' = "c_magic" /\ gc' = [gc EXCEPT !.i = NextToCopy]
    BY <1>10 DEF GcCopyHeader
  <2>3. gc'.dst = gc.dst /\ gc.dst \in Blocks
    BY <1>0, <2>2 DEF Gc
  <2>4. flash'[gc.dst].items # << >>
    BY <2>2, <2>3 DEF KvInv, Moving, Copying
  <2> QED
    BY <1>1, <1>4, <2>1, <2>3, <2>4
<1>11. CASE SaveHeader
  <2>1. PICK c : c = Suitable(ram, ItemSize(op.val))
    OBVIOUS
  <2>2. PICK s : /\ pc = "search" /\ c.blk # Invalid /\ op' = [op EXCEPT !.blk = c.blk, !.prev = FixedPos]
                 /\ flash' = flash \/ (flash' = PutHeader(c.blk, s) /\ pc' = "s_magic")
    BY <1>11, <2>1 DEF SaveHeader
  <2>3. CASE flash' = PutHeader(c.blk, s) /\ pc' = "s_magic"
    <3>1. op \in Op /\ op.val \in Vals
      BY <2>2 DEF KvInv, Setting, Op
    <3>2. c.blk \in Blocks
      BY <2>1, <2>2, <3>1, SuitableRight, Sizes DEF KvInv
    <3>3. op'.blk = c.blk /\ flash'[op'.blk].items # << >>
      BY <2>2, <2>3, <3>1 DEF KvInv, Setting, Op, Saving
    <3> QED
      BY <1>1, <1>4, <2>3, <3>2, <3>3
  <2> QED
    BY <1>1, <2>2, <2>3
<1> QED
  BY <1>5, <1>6, <1>7, <1>8, <1>9, <1>10, <1>11 DEF Writes

\* Past boot it is enough that the flash has no such block.
LEMMA UnspoiledRuns ==
    ASSUME pc' \notin Booting \cup {"locate", "locate_ws", "inc_magic"},
           pc' \in Marking \cup Erasing => gc'.from = "search", NoneSpoiled(flash')
    PROVE  Unspoiled'
  BY DEF Unspoiled, NoneSpoiled

\* A step that writes items, outside boot
LEMMA UnspoiledWrites ==
    ASSUME KvInv, KvInv', MarkInv, Unspoiled, cycles.n = 0, cycles'.n = 0, pc # "search",
           Writes, ~ScanRecover
    PROVE  Unspoiled'
<1>1. NoneSpoiled(flash)
  BY DEF Unspoiled, NoneSpoiled
<1>2. NoneSpoiled(flash')
  BY <1>1, StaysFilled DEF NoneSpoiled, MarkInv
<1>3. CASE pc \in Marking
  <2>1. GcCopyHeader \/ GcCopyMagic \/ GcCopyKey \/ GcCopyVal
    BY <1>3 DEF Writes, Marking, Copying, SaveHeader, SaveMagic, SaveKey, SaveVal, DeleteOld, ln_kv_del
  <2>2. pc' \in Marking /\ gc'.from = gc.from
    BY <2>1 DEF GcCopyHeader, GcCopyMagic, GcCopyKey, GcCopyVal, Marking, Copying, KvInv, Gc
  <2>3. gc.from = "search"
    BY <1>3 DEF Unspoiled
  <2> QED
    BY <1>2, <2>2, <2>3, UnspoiledRuns, Classes DEF Running
<1>4. CASE pc \notin Marking
  <2>1. SaveHeader \/ SaveMagic \/ SaveKey \/ SaveVal \/ DeleteOld \/ \E k \in Keys : ln_kv_del(k)
    BY <1>4 DEF Writes, Marking, Copying, GcCopyHeader, GcCopyMagic, GcCopyKey, GcCopyVal
  <2>2. pc' \in {"s_magic", "overrun", "s_key", "s_val", "idle", "del_old"}
    BY <2>1 DEF SaveHeader, SaveMagic, SaveKey, SaveVal, DeleteOld, ln_kv_del
  <2> QED
    BY <1>2, <2>2, UnspoiledRuns DEF Booting, Marking, Erasing, Copying
<1> QED
  BY <1>3, <1>4

\* Boot before the first power failure finds blank blocks.
LEMMA UnspoiledBoots ==
    ASSUME KvInv, MarkInv, Unspoiled, cycles.n = 0, Boot
    PROVE  Unspoiled'
<1>0. flash \in [Blocks -> Block] /\ pc # "locate_ws" /\ pc # "inc_magic" /\ Formatted
  BY DEF KvInv, Unspoiled, MarkInv
<1>1. ASSUME pc \in Booting \cup {"locate"}, pc' \in Booting \cup {"locate"},
             \A b \in Blocks : flash'[b].items = flash[b].items /\ flash'[b].done = flash[b].done
      PROVE  Unspoiled'
  <2>1. \A b \in Blocks : flash'[b].items = << >> /\ ~flash'[b].done
    BY <1>1 DEF Unspoiled
  <2>2. pc' \notin {"locate_ws", "inc_magic"} /\ pc' \notin Marking \cup Erasing
    BY <1>1, Classes DEF Running, Booting, Marking, Erasing, Copying
  <2> QED
    BY <2>1, <2>2 DEF Unspoiled
<1>2. CASE \/ ln_kv_init \/ ScanErase \/ ScanMarked \/ ScanIndex \/ ScanDone \/ IncompleteFails
           \/ IncompleteNone
  <2>1. pc \in Booting \cup {"locate"} /\ pc' \in Booting \cup {"locate"}
    BY <1>2 DEF ln_kv_init, ScanErase, ScanMarked, ScanIndex, IndexBuild, ScanDone, IncompleteFails,
                IncompleteNone, Booting
  <2>2. flash' = flash
    BY <1>0, <1>2, ScanEraseSame DEF ln_kv_init, ScanMarked, ScanIndex, ScanDone, IncompleteFails,
                                     IncompleteNone
  <2> QED
    BY <1>1, <2>1, <2>2
<1>3. CASE ScanMagic
  <2>1. /\ pc = "scan_magic" /\ pc' = "scan" /\ cur \in Blocks /\ flash' = [flash EXCEPT ![cur].magic = TRUE]
    BY <1>3 DEF ScanMagic, KvInv, Scanning
  <2>2. \A b \in Blocks : flash'[b].items = flash[b].items /\ flash'[b].done = flash[b].done
    BY <1>0, <2>1, MagicWritten
  <2> QED
    BY <1>1, <2>1, <2>2 DEF Booting
<1>4. CASE ScanRecover
  <2>1. pc \in Booting /\ cur \in Blocks /\ Recover(flash, cur) # {}
    BY <1>4 DEF ScanRecover, IndexBuild, Booting
  <2>2. flash[cur].items = << >>
    BY <2>1 DEF Unspoiled
  <2> QED
    BY <2>1, <2>2 DEF Recover
<1>5. CASE IncompleteErase \/ IncompleteFresh
  <2>1. pc \in Booting /\ GcSrcs # {}
    BY <1>5 DEF IncompleteErase, IncompleteFresh, Booting
  <2>2. PICK b \in Blocks : flash[b].src
    BY <2>1 DEF GcSrcs, IsGcSrc
  <2> QED
    BY <2>1, <2>2, SourceHasItems DEF Unspoiled
<1>6. CASE LocateGc
  <2>1. pc = "locate" /\ Dirty(ram) # {}
    BY <1>6 DEF LocateGc, Rescue
  <2>2. PICK b \in Blocks : b \in Dirty(ram)
    BY <2>1 DEF Dirty
  <2>3. Describes(ram, flash, b)
    BY <2>1, Described DEF Calm
  <2> QED
    BY <2>1, <2>2, <2>3 DEF Unspoiled, Describes
<1>7. CASE Locate
  <2>1. pc = "locate" /\ pc' = "idle" /\ flash' = flash
    BY <1>0, <1>7 DEF Locate
  <2>2. NoneSpoiled(flash')
    BY <2>1 DEF Unspoiled, NoneSpoiled
  <2> QED
    BY <2>1, <2>2, UnspoiledRuns DEF Booting, Marking, Erasing, Copying
<1> QED
  BY <1>0, <1>2, <1>3, <1>4, <1>5, <1>6, <1>7 DEF Boot, IncompleteMagic

\* A collection: gc_done makes the destination the workspace.
LEMMA UnspoiledCollects ==
    ASSUME KvInv, KvInv', MarkInv, Unspoiled, cycles.n = 0, cycles'.n = 0, Collect
    PROVE  Unspoiled'
<1>0. flash \in [Blocks -> Block] /\ gc \in Gc /\ gc.src \in Blocks /\ gc.dst \in Blocks /\ Formatted
  BY DEF KvInv, Gc, MarkInv
<1>1. pc \in Marking \cup Erasing /\ pc # "search"
  BY DEF Collect, GcMarkDst, GcCopyHeader, GcCopyMagic, GcCopyKey, GcCopyVal, GcEraseSrc, GcMagicSrc,
         GcMarkDone, Marking, Erasing, Copying
<1>2. gc.from = "search" /\ NoneSpoiled(flash)
  BY <1>1 DEF Unspoiled, NoneSpoiled
<1>3. CASE GcCopyHeader \/ GcCopyMagic \/ GcCopyKey \/ GcCopyVal
  <2>1. Writes /\ ~ScanRecover
    BY <1>1, <1>3 DEF Writes, ScanRecover, IndexBuild, Marking, Erasing, Copying
  <2> QED
    BY <1>1, <2>1, UnspoiledWrites
<1>4. CASE GcMarkDst
  <2>1. PICK d \in Blocks : d = gc.dst
    BY <1>0
  <2>2. pc' = "gc_copy" /\ gc' = gc /\ flash' = [flash EXCEPT ![d].dst = TRUE]
    BY <1>4, <2>1 DEF GcMarkDst
  <2>3. PICK y : /\ flash' = [flash EXCEPT ![d] = y]
                 /\ y \in Block /\ y.items = flash[d].items /\ y.magic = flash[d].magic
                 /\ y.src = flash[d].src /\ y.dst = TRUE /\ y.done = flash[d].done
    BY <1>0, <2>2, MarkPut, ZenonT(40)
  <2>4. flash'[d] = y /\ \A c \in Blocks \ {d} : flash'[c] = flash[c]
    BY <1>0, <2>3, Replaced
  <2>5. NoneSpoiled(flash')
    BY <1>2, <2>3, <2>4 DEF NoneSpoiled
  <2> QED
    BY <1>2, <2>2, <2>5, UnspoiledRuns DEF Booting
<1>5. CASE GcEraseSrc
  <2>1. pc' = "gc_magic" /\ gc' = gc /\ flash' = [flash EXCEPT ![gc.src] = Erased]
    BY <1>5 DEF GcEraseSrc
  <2>2. flash'[gc.src] = Erased /\ \A c \in Blocks \ {gc.src} : flash'[c] = flash[c]
    BY <1>0, <2>1, ErasedRight
  <2>3. NoneSpoiled(flash')
    BY <1>2, <2>2 DEF NoneSpoiled, Erased
  <2> QED
    BY <1>2, <2>1, <2>3, UnspoiledRuns DEF Booting
<1>6. CASE GcMagicSrc
  <2>1. pc' = "gc_done" /\ gc' = gc /\ flash' = [flash EXCEPT ![gc.src].magic = TRUE]
    BY <1>6 DEF GcMagicSrc
  <2>2. \A b \in Blocks : flash'[b].items = flash[b].items /\ flash'[b].done = flash[b].done
    BY <1>0, <2>1, MagicWritten
  <2>3. NoneSpoiled(flash')
    BY <1>2, <2>2 DEF NoneSpoiled
  <2> QED
    BY <1>2, <2>1, <2>3, UnspoiledRuns DEF Booting
<1>7. CASE GcMarkDone
  <2>1. /\ \A b \in Blocks \ {gc.dst} : flash'[b] = flash[b]
        /\ flash'[gc.dst].items = flash[gc.dst].items /\ pc' = "search" /\ pc = "gc_done"
    BY <1>2, <1>7, DonePut
  <2>2. PICK d, r, q : /\ d = gc.dst /\ r = kv_blk_reset_fresh(ram, d)
                       /\ q = IF kv_blk_is_full(r, d) THEN r ELSE kv_blk_set_inuse(r, d)
    OBVIOUS
  <2>3. ram' = [q EXCEPT !.workspace = d] /\ d \in Blocks /\ RamOk(ram)
    BY <1>0, <1>2, <1>7, <2>2 DEF GcMarkDone, KvInv
  <2>4. ram.free[d] = BlkFresh - WalkEnd(flash[d])
    BY <2>1, <2>2 DEF KvInv, Moving, Collecting, Copying
  <2>5. ASSUME flash[d].items = << >> PROVE d \in Inuse(ram') /\ ram'.workspace = d
    <3>1. WalkEnd(flash[d]) = 0
      BY <2>5 DEF WalkEnd
    <3>2. ram.free[d] = BlkFresh
      BY <2>4, <3>1, KvSizes
    <3>3. RamOk(r) /\ r.flags[d] = ram.flags[d] \ {"fresh"} /\ r.free = ram.free
      BY <2>2, <2>3, ResetFresh
    <3>4. ~kv_blk_is_full(r, d) /\ r.free[d] > HdrSize
      BY <3>2, <3>3, KvSizes DEF kv_blk_is_full
    <3>5. q = kv_blk_set_inuse(r, d)
      BY <2>2, <3>4
    <3>6. RamOk(q) /\ q.flags[d] = r.flags[d] \cup {"inuse"}
      BY <2>3, <3>3, <3>4, <3>5, SetInuse
    <3>7. ram'.flags = q.flags /\ ram'.workspace = d
      BY <2>3, <3>6, WorkspaceOnly DEF RamOk
    <3> QED
      BY <2>3, <3>6, <3>7 DEF Inuse
  <2>6. ASSUME NEW b \in Blocks, flash'[b].done, flash'[b].items = << >>
        PROVE  b = ram'.workspace /\ b \in Inuse(ram')
    BY <1>2, <2>1, <2>2, <2>5, <2>6 DEF NoneSpoiled
  <2> QED
    BY <2>1, <2>6 DEF Unspoiled, Booting, Marking, Erasing, Copying
<1> QED
  BY <1>3, <1>4, <1>5, <1>6, <1>7 DEF Collect

\* kv_item_fix does not fail: a collection takes no copy of the old item away.
LEMMA FixFinds ==
    ASSUME KvInv, pc = "search", Unsaved(Kept(flash), op, allowed)
    PROVE  ~FixFails
<1>1. SUFFICES ASSUME Moved(flash, op), FindItem(ram, CopyMatch(flash, op.old)) = NoItem PROVE FALSE
  BY DEF FixFails
<1>2. flash \in [Blocks -> Block] /\ Exempt = {}
  BY DEF KvInv, Exempt, Saving, Collecting, Copying
<1>3. op.prev # NoPos
  BY <1>1 DEF Moved
<1>4. op.old.st = "full" /\ op.old.key = op.key /\ \E h \in Kept(flash) : h.key = op.key /\ h.val = op.old.val
  BY <1>3 DEF Unsaved
<1>5. PICK h \in Kept(flash) : h.key = op.key /\ h.val = op.old.val
  BY <1>4
<1>6. PICK b, i : b = h.blk /\ i = h.idx
  OBVIOUS
<1>7. b \in Blocks /\ i \in WholeAt(flash, b) /\ h = Item(flash, b, i)
  BY <1>2, <1>6, KeptPlace
<1>8. i \in DOMAIN flash[b].items /\ Live(flash[b].items[i]) /\ flash[b].items[i].st = "full"
      /\ flash[b].items[i].key = op.key /\ flash[b].items[i].val = op.old.val
  BY <1>5, <1>7, ItemIs DEF WholeAt, Intact
<1>9. PICK m : m = CopyMatch(flash, op.old)
  OBVIOUS
<1>10. i \in m[b]
  BY <1>4, <1>7, <1>8, <1>9 DEF CopyMatch
<1>11. b \notin Fresh(ram)
  BY <1>2, <1>8, FreshBlank
<1> QED
  BY <1>1, <1>7, <1>9, <1>10, <1>11, NotFound

\* The blank workspace that a collection left takes the item of the set that asked for it.
LEMMA SpoiledChosen ==
    ASSUME KvInv, FitsBlank, Facts, Unspoiled, cycles.n = 0, pc = "search", ~NoneSpoiled(flash)
    PROVE  /\ \A b \in Blocks : flash[b].done /\ flash[b].items = << >> => b = ram.workspace
           /\ ~NeedsGc(ram, ItemSize(op.val)) /\ ~FixFails
           /\ Suitable(ram, ItemSize(op.val)).blk = ram.workspace /\ ram.workspace \in Blocks
<1>0. RamOk(ram) /\ ram \in Ram
  BY DEF KvInv, RamOk
<1>1. PICK b \in Blocks : flash[b].done /\ flash[b].items = << >>
  BY DEF NoneSpoiled
<1>2. b = ram.workspace /\ b \in Inuse(ram)
  BY <1>1 DEF Unspoiled
<1>3. Writeable(ram)
  <2>1. Cardinality(Inuse(ram)) # 0 /\ Cardinality(Inuse(ram)) \in Nat
    BY <1>0, <1>2, FlagSets, FS_EmptySet, FS_CardinalityType
  <2>2. ram.numInuse >= Cardinality(Inuse(ram)) /\ ram.numInuse \in Int
    BY <1>0 DEF RamOk, Counted, Ram
  <2>3. ram.numInuse # 0
    BY <2>1, <2>2
  <2> QED
    BY <1>1, <1>2, <2>3 DEF Writeable, KV_NO_WRITEABLE_BLK
<1>4. Choosing(ram, ItemSize(op.val)) = b /\ b # Invalid
  BY <1>1, <1>2, <1>3, BlankChosen, BlockIs
<1>5. ~NeedsGc(ram, ItemSize(op.val)) /\ Suitable(ram, ItemSize(op.val)).blk = b
  BY <1>3, <1>4 DEF NeedsGc, Suitable
<1>6. ~FixFails
  BY FixFinds DEF Facts, Resting
<1>7. \A c \in Blocks : flash[c].done /\ flash[c].items = << >> => c = ram.workspace
  BY DEF Unspoiled
<1> QED
  BY <1>1, <1>2, <1>5, <1>6, <1>7

\* The steps of a set
LEMMA UnspoiledSaves ==
    ASSUME KvInv, KvInv', MarkInv, IndexInv, FitsBlank, Facts, Facts', Unspoiled, cycles.n = 0,
           cycles'.n = 0, Save
    PROVE  Unspoiled'
<1>0. flash \in [Blocks -> Block] /\ op \in Op \cup {NoOp} /\ Formatted
  BY DEF KvInv, MarkInv
<1>1. CASE SaveMagic \/ SaveKey \/ SaveVal \/ DeleteOld
  <2>1. Writes /\ ~ScanRecover /\ pc # "search"
    BY <1>1 DEF Writes, ScanRecover, IndexBuild, SaveMagic, SaveKey, SaveVal, DeleteOld
  <2> QED
    BY <2>1, UnspoiledWrites
<1>2. CASE SearchWild
  <2>1. ~cycles.window
    BY DEF MarkInv, Marks
  <2> QED
    BY <1>2, <2>1 DEF SearchWild, IndexInv, IndexFacts, Usable
<1>3. CASE SearchGc
  <2>1. pc = "search" /\ pc' = "gc_dst" /\ NeedsGc(ram, ItemSize(op.val))
    BY <1>3 DEF SearchGc
  <2>2. NoneSpoiled(flash)
    BY <2>1, SpoiledChosen
  <2>3. PICK s : s = FirstBlk(Dirty(ram))
    OBVIOUS
  <2>4. flash' = [flash EXCEPT ![s].src = TRUE] /\ gc'.from = "search"
    BY <1>3, <2>3 DEF SearchGc
  <2>5. s \in Blocks
    BY <2>1, <2>3, FirstBlkIn DEF Dirty, NeedsGc, CanGc
  <2>6. PICK y : /\ flash' = [flash EXCEPT ![s] = y]
                 /\ y \in Block /\ y.items = flash[s].items /\ y.magic = flash[s].magic
                 /\ y.src = TRUE /\ y.dst = flash[s].dst /\ y.done = flash[s].done
    BY <1>0, <2>4, <2>5, MarkPut, ZenonT(40)
  <2>7. flash'[s] = y /\ \A c \in Blocks \ {s} : flash'[c] = flash[c]
    BY <1>0, <2>5, <2>6, Replaced
  <2>8. NoneSpoiled(flash')
    BY <2>2, <2>5, <2>6, <2>7 DEF NoneSpoiled
  <2> QED
    BY <2>1, <2>4, <2>8, UnspoiledRuns DEF Booting
<1>4. CASE SaveFails
  <2>1. pc = "search" /\ pc' = "idle" /\ flash' = flash
    BY <1>4 DEF SaveFails
  <2>2. Suitable(ram, ItemSize(op.val)).blk = Invalid \/ FixFails
    BY <1>4 DEF SaveFails
  <2>3. NoneSpoiled(flash)
    BY <2>1, <2>2, SpoiledChosen, BlockIs
  <2> QED
    BY <2>1, <2>3, UnspoiledRuns DEF Booting, Marking, Erasing, Copying
<1>5. CASE SaveHeader
  <2>1. PICK c, p : c = Suitable(ram, ItemSize(op.val)) /\ p = FixedPos
    OBVIOUS
  <2>2. /\ pc = "search" /\ pc' \in {"s_magic", "overrun"} /\ op' = [op EXCEPT !.blk = c.blk, !.prev = p]
    BY <1>5, <2>1 DEF SaveHeader
  <2>3. pc' = "s_magic"
    BY <2>2 DEF Facts
  <2>4. op \in Op
    BY <2>2 DEF KvInv, Setting
  <2>5. op'.blk = c.blk /\ flash'[c.blk].items # << >>
    BY <2>2, <2>3, <2>4 DEF KvInv, Setting, Op, Saving
  <2>6. \A b \in Blocks : /\ flash'[b].done = flash[b].done
                          /\ flash'[b].items = << >> => flash[b].items = << >>
    BY <1>0, <1>5, StaysFilled DEF Writes
  <2>7. NoneSpoiled(flash')
    <3>1. CASE NoneSpoiled(flash)
      BY <2>6, <3>1 DEF NoneSpoiled
    <3>2. CASE ~NoneSpoiled(flash)
      <4>1. /\ \A b \in Blocks : flash[b].done /\ flash[b].items = << >> => b = ram.workspace
            /\ c.blk = ram.workspace
        BY <2>1, <2>2, <3>2, SpoiledChosen
      <4> QED
        BY <2>5, <2>6, <4>1 DEF NoneSpoiled
    <3> QED
      BY <3>1, <3>2
  <2> QED
    BY <2>3, <2>7, UnspoiledRuns DEF Booting, Marking, Erasing, Copying
<1> QED
  BY <1>1, <1>2, <1>3, <1>4, <1>5 DEF Save

\* The calls
LEMMA UnspoiledCalls ==
    ASSUME KvInv, KvInv', MarkInv, Unspoiled, cycles.n = 0, cycles'.n = 0, Call
    PROVE  Unspoiled'
<1>1. PICK k \in Keys : ln_kv_get(k) \/ ln_kv_del(k) \/ \E v \in Vals : ln_kv_set(k, v)
  BY DEF Call
<1>2. CASE ln_kv_del(k)
  <2>1. Writes /\ ~ScanRecover /\ pc # "search"
    BY <1>2 DEF Writes, ScanRecover, IndexBuild, ln_kv_del
  <2> QED
    BY <2>1, UnspoiledWrites
<1>3. CASE ln_kv_get(k) \/ \E v \in Vals : ln_kv_set(k, v)
  <2>1. pc = "idle" /\ pc' \in {"idle", "search"} /\ flash' = flash
    BY <1>3 DEF ln_kv_get, ln_kv_set
  <2>2. NoneSpoiled(flash')
    BY <2>1 DEF Unspoiled, NoneSpoiled
  <2> QED
    BY <2>1, <2>2, UnspoiledRuns DEF Booting, Marking, Erasing, Copying
<1> QED
  BY <1>1, <1>2, <1>3

\* A power failure, or the restart of a store that cannot be used: there is none before the first.
LEMMA UnspoiledFails ==
    ASSUME KvInv, KvInv', MarkInv, IndexInv, Facts, PowerFail, Good'
    PROVE  Unspoiled'
<1>0. /\ Good /\ cycles.n \in Nat /\ cycles'.n \in Nat
      /\ pc \notin {"failed", "overrun", "wild"} => cycles'.n = cycles.n + 1
  BY PowerIs
<1>1. SUFFICES ASSUME cycles'.n = 0 PROVE FALSE
  BY DEF Unspoiled
<1>2. pc \in {"failed", "overrun", "wild"}
  BY <1>0, <1>1
<1>3. cycles.n = 0
  BY <1>0, <1>1, PowerIs
<1>4. ~cycles.window
  BY <1>3 DEF MarkInv, Marks
<1>5. pc = "failed"
  BY <1>2, <1>4 DEF Facts, IndexInv, IndexFacts, Usable
<1>6. Rebooting /\ pc \in Booting
  BY <1>5 DEF Facts, Booting
<1>7. Doomed
  BY <1>5, <1>6 DEF Rebooting
<1> QED
  BY <1>3, <1>7 DEF Doomed

-----------------------------------------------------------------------------
(* The values hold                                                           *)

\* Before the first boot the blocks are blank and no key has a value.
LEMMA DataInit == Init => DataInv
<1> SUFFICES ASSUME Init PROVE DataInv
  OBVIOUS
<1>0. /\ flash = [b \in Blocks |-> Erased] /\ pc = "off" /\ allowed = [k \in Keys |-> {None}]
      /\ cycles = [n |-> 0, window |-> FALSE] /\ pc \in Booting
  BY DEF Init, Booting
<1>1. \A b \in Blocks : flash[b].items = << >> /\ ~flash[b].done /\ ~flash[b].src
  BY <1>0 DEF Erased
<1>2. GcSrcs = {}
  BY <1>1 DEF GcSrcs, IsGcSrc
<1>3. Kept(flash) = {}
  BY <1>1, KeptIn DEF WholeAt
<1>4. Linked(Kept(flash)) /\ Right(Kept(flash), allowed)
  BY <1>0, <1>3 DEF Linked, Right
<1>5. Rebooting
  BY <1>0, <1>2, <1>4 DEF Rebooting
<1>6. Facts
  BY <1>0, <1>5 DEF Facts, Resting, Writing, Gathering, Erasing, Saving, Marking, Copying
<1>7. Unspoiled
  BY <1>0, <1>1 DEF Unspoiled, Marking, Erasing, Copying
<1> QED
  BY <1>6, <1>7 DEF DataInv

\* The values are inductive, together with the layout, the marks and the index.
LEMMA DataNext ==
    ASSUME KvInv, KvInv', MarkInv, IndexInv, FitsBlank, DataInv, [Next]_vars
    PROVE  DataInv'
<1>0. SUFFICES ASSUME Good' PROVE Facts' /\ Unspoiled'
  BY DEF DataInv
<1>1. CASE PowerFail
  <2>1. Good
    BY <1>0, <1>1, PowerIs
  <2>2. Facts
    BY <2>1 DEF DataInv
  <2> QED
    BY <1>0, <1>1, <2>2, PowerFacts, UnspoiledFails
<1>2. CASE UNCHANGED vars
  <2>1. /\ flash' = flash /\ ram' = ram /\ pc' = pc /\ cur' = cur /\ op' = op /\ gc' = gc
        /\ cycles' = cycles /\ allowed' = allowed
    BY <1>2 DEF vars
  <2>2. Good /\ GcSrcs' = GcSrcs /\ GcDsts' = GcDsts
    BY <1>0, <2>1 DEF Good, GcSrcs, GcDsts
  <2>3. Facts /\ Unspoiled
    BY <2>2 DEF DataInv
  <2>4. Doomed' = Doomed /\ \A d : Repairable(d)' = Repairable(d)
    BY <2>1, <2>2 DEF Doomed, Repairable
  <2>5. Rebooting'
    BY <2>1, <2>2, <2>3, <2>4 DEF Facts, Rebooting
  <2>6. Resting' /\ Writing' /\ Gathering'
    BY <2>1, <2>3 DEF Facts, Resting, Writing, Gathering
  <2>7. Unspoiled'
    BY <2>1, <2>3 DEF Unspoiled
  <2> QED
    BY <2>1, <2>3, <2>5, <2>6, <2>7 DEF Facts
<1>3. CASE Boot \/ Collect \/ Save \/ Call
  <2>1. UNCHANGED cycles
    BY <1>3 DEF Boot, Collect, Save, Call, ln_kv_init, ScanErase, ScanMagic, ScanMarked, ScanRecover,
                ScanIndex, ScanDone, IncompleteFails, IncompleteNone, IncompleteErase, IncompleteMagic,
                IncompleteFresh, LocateGc, Locate, GcMarkDst, GcCopyHeader, GcCopyMagic, GcCopyKey,
                GcCopyVal, GcEraseSrc, GcMagicSrc, GcMarkDone, SearchWild, SearchGc, SaveFails,
                SaveHeader, SaveMagic, SaveKey, SaveVal, DeleteOld, ln_kv_get, ln_kv_del, ln_kv_set
  <2>2. Good
    BY <1>0, <2>1 DEF Good
  <2>3. Facts /\ Unspoiled
    BY <2>2 DEF DataInv
  <2>4. Facts'
    <3>1. CASE Boot
      BY <2>2, <2>3, <3>1, ScanQuiet, RecoverFacts, FailsFacts, NoneFacts, EraseFacts, MagicFacts,
         FreshFacts, LocateGcFacts, LocateFacts DEF Boot
    <3>2. CASE Collect
      BY <2>3, <3>2, MarkDstFacts, CopyHeaderFacts, CopyPartFacts, CopyValFacts, EraseSrcFacts,
         MagicSrcFacts, MarkDoneFacts DEF Collect
    <3>3. CASE Save
      BY <2>3, <3>3, WildFacts, SearchGcFacts, SaveFailsFacts, SaveHeaderFacts, SavePartFacts,
         SaveValFacts, DeleteOldFacts DEF Save
    <3>4. CASE Call
      BY <2>3, <3>4, GetFacts, DelFacts, SetFacts DEF Call
    <3> QED
      BY <1>3, <3>1, <3>2, <3>3, <3>4
  <2>5. Unspoiled'
    <3>1. CASE cycles.n # 0
      BY <2>1, <3>1 DEF Unspoiled
    <3>2. CASE cycles.n = 0
      BY <1>3, <2>1, <2>3, <2>4, <3>2, UnspoiledBoots, UnspoiledCollects, UnspoiledSaves, UnspoiledCalls
    <3> QED
      BY <3>1, <3>2
  <2> QED
    BY <2>4, <2>5
<1> QED
  BY <1>1, <1>2, <1>3 DEF Next

\* The four invariants together
KvAll == KvInv /\ MarkInv /\ IndexInv /\ DataInv

\* Every step keeps the four invariants; each is shown from the ones before it.
LEMMA AllNext == ASSUME FitsBlank, KvAll, [Next]_vars PROVE KvAll'
<1>1. KvInv' /\ MarkInv'
  BY MarkNext DEF KvAll
<1>2. IndexInv'
  BY <1>1, IndexNext DEF KvAll
<1>3. DataInv'
  BY <1>1, DataNext DEF KvAll
<1> QED
  BY <1>1, <1>2, <1>3 DEF KvAll

\* The invariant behind the results on the values, for any number of power failures: at every
\* point of a boot, a set, a delete and a collection of the KV store the flash and the index in
\* RAM hold enough to restore every value, unless power failed in the window between the erase
\* of a gc source and its gc_done mark and may fail again.
THEOREM KvAllAlways == ASSUME FitsBlank PROVE Spec => []KvAll
<1>1. Init => KvAll
  BY KvInit, MarkInit, IndexInit, DataInit DEF KvAll
<1>2. KvAll /\ [Next]_vars => KvAll'
  BY AllNext
<1> QED
  BY <1>1, <1>2, PTL DEF Spec

\* Between calls the values are the ones a lookup may return, outside the window and with one
\* power failure at any point.
LEMMA DurableIs == ASSUME KvAll, Good PROVE Durable
<1>1. SUFFICES ASSUME pc = "idle", NEW k \in Keys PROVE Lookup(k) \in allowed[k]
  BY DEF Durable
<1>2. KvInv /\ Facts
  BY DEF KvAll, DataInv
<1>3. Single(Kept(flash)) /\ Right(Kept(flash), allowed) /\ Torn(flash) = {}
  BY <1>1, <1>2, RestIs
<1>4. PICK at : at = FindItem(ram, KeyMatch(flash, k))
  OBVIOUS
<1>5. \/ at = NoItem /\ ~HasKey(Kept(flash), k) /\ Lookup(k) = None
      \/ /\ Item(flash, at[1], at[2]) \in Kept(flash)
         /\ Item(flash, at[1], at[2]).key = k
         /\ Item(flash, at[1], at[2]).val = Lookup(k)
  BY <1>1, <1>2, <1>3, <1>4, LookupVal
<1> QED
  BY <1>3, <1>5 DEF Right

\* Power may fail any number of times, at any write or erase of the KV store but the ones between
\* the erase of a gc source and the gc_done mark: ln_kv_get returns what the last completed
\* ln_kv_set or ln_kv_del left, and a call that was cut short took effect entirely or not at all.
THEOREM KvDurableOutside == ASSUME FitsBlank PROVE Spec => []DurableOutsideWindow
<1>1. KvAll => DurableOutsideWindow
  BY DurableIs DEF DurableOutsideWindow, Good
<1> QED
  BY <1>1, KvAllAlways, PTL

\* Power fails at most once, at any write or erase whatever, that window of kv_gc included:
\* ln_kv_get returns what the last completed ln_kv_set or ln_kv_del left, and never a value that
\* is half written.
THEOREM KvDurable == ASSUME FitsBlank, MaxCycle <= 1 PROVE Spec => []Durable
<1>1. KvAll => Durable
  BY DurableIs DEF Good
<1> QED
  BY <1>1, KvAllAlways, PTL

\* Power fails at most once: ln_kv_init never gives up with KV_ERR_BLK_STATUS_ERROR, because it
\* finds the destination of an interrupted collection by its mark or as the only blank block.
THEOREM KvInitSucceeds == ASSUME FitsBlank, MaxCycle <= 1 PROVE Spec => []InitSucceeds
<1>1. KvAll => InitSucceeds
  <2>1. SUFFICES ASSUME KvAll, pc = "failed" PROVE FALSE
    BY DEF InitSucceeds
  <2>2. Rebooting /\ pc \in Booting
    BY <2>1 DEF KvAll, DataInv, Good, Facts, Booting
  <2>3. Doomed
    BY <2>1, <2>2 DEF Rebooting
  <2>4. cycles.n \in 0 .. MaxCycle /\ MaxCycle \in Nat
    BY <2>1, KvEnv DEF KvAll, KvInv
  <2> QED
    BY <2>3, <2>4 DEF Doomed
<1> QED
  BY <1>1, KvAllAlways, PTL

-----------------------------------------------------------------------------
(* The items of a key                                                        *)

\* A set with at most one element, counted
LEMMA LoneCounted == ASSUME NEW S, Lone(S) PROVE Cardinality(S) <= 1
<1>1. CASE S = {}
  BY <1>1, FS_EmptySet
<1>2. CASE S # {}
  <2>1. PICK x : S = {x}
    BY <1>2 DEF Lone
  <2> QED
    BY <2>1, FS_Singleton
<1> QED
  BY <1>1, <1>2

\* Between calls no item is torn and no two have the same key.
THEOREM KvOneCopy == ASSUME FitsBlank, MaxCycle <= 1 PROVE Spec => []OneCopy
<1>1. KvAll => OneCopy
  <2>1. SUFFICES ASSUME KvAll, pc = "idle", NEW k \in Keys PROVE Lone(LiveAt(flash, k))
    BY LoneCounted DEF OneCopy
  <2>2. KvInv /\ Facts
    BY <2>1 DEF KvAll, DataInv, Good
  <2>3. Single(Kept(flash)) /\ Torn(flash) = {}
    BY <2>1, <2>2, RestIs
  <2>4. ASSUME NEW p \in LiveAt(flash, k)
        PROVE  \E b \in Blocks : \E i : p = <<b, i>> /\ Item(flash, b, i) \in Kept(flash)
                                        /\ Item(flash, b, i).key = k
    <3>1. PICK b \in Blocks : \E i \in 1 .. BlkFresh : p = <<b, i>>
      BY DEF LiveAt
    <3>2. PICK i \in 1 .. BlkFresh : p = <<b, i>>
      BY <3>1
    <3>3. i \in DOMAIN flash[b].items /\ flash[b].items[i].key = k /\ Live(flash[b].items[i])
      BY <2>4, <3>2 DEF LiveAt
    <3>4. i \notin TornAt(flash, b)
      BY <2>3, KeptIn, ZenonT(40)
    <3>5. i \in WholeAt(flash, b)
      BY <3>3, <3>4 DEF WholeAt, TornAt
    <3> QED
      BY <3>2, <3>3, <3>5, KeptIn, ItemIs
  <2>5. ASSUME NEW p \in LiveAt(flash, k), NEW q \in LiveAt(flash, k) PROVE p = q
    <3>1. PICK b, i : p = <<b, i>> /\ Item(flash, b, i) \in Kept(flash) /\ Item(flash, b, i).key = k
      BY <2>4
    <3>2. PICK c, j : q = <<c, j>> /\ Item(flash, c, j) \in Kept(flash) /\ Item(flash, c, j).key = k
      BY <2>4
    <3>3. Item(flash, b, i) = Item(flash, c, j)
      BY <2>3, <3>1, <3>2 DEF Single
    <3>4. b = c /\ i = j
      BY <3>3, ItemIs
    <3> QED
      BY <3>1, <3>2, <3>4
  <2> QED
    BY <2>5 DEF Lone
<1> QED
  BY <1>1, KvAllAlways, PTL

\* Every item takes at least one unit: an item has no larger number than its block has units.
LEMMA ItemsFew ==
    ASSUME NEW x \in Block, LaidOut(x), NEW i \in DOMAIN x.items
    PROVE  i \in 1 .. BlkFresh
<1>0. /\ Len(x.items) \in Nat /\ DOMAIN x.items = 1 .. Len(x.items) /\ x.items # << >>
      /\ \A j \in 1 .. Len(x.items) : x.items[j].off \in Nat /\ Extent(x.items[j]) \in Nat \ {0}
  BY ItemsOf
<1>1. \A j \in DOMAIN x.items : x.items[j].off >= j - 1
  <2> DEFINE B == {j \in DOMAIN x.items : ~(x.items[j].off >= j - 1)}
  <2>1. SUFFICES ASSUME B # {} PROVE FALSE
    OBVIOUS
  <2>2. B \subseteq Nat
    BY <1>0
  <2>3. PICK j \in B : \A n \in B : j <= n
    <3> HIDE DEF B
    <3> QED
      BY <2>1, <2>2, LeastOf
  <2>4. j \in 1 .. Len(x.items) /\ ~(x.items[j].off >= j - 1)
    BY <1>0, <2>3
  <2>5. j # 1
    BY <1>0, <2>4 DEF LaidOut
  <2>6. j - 1 \in 1 .. Len(x.items)
    BY <1>0, <2>4, <2>5
  <2>7. j - 1 \notin B
    BY <1>0, <2>3, <2>4
  <2>8. x.items[j - 1].off >= (j - 1) - 1
    BY <1>0, <2>6, <2>7
  <2>9. x.items[j].off = x.items[j - 1].off + Extent(x.items[j - 1])
    BY <1>0, <2>4, <2>5 DEF LaidOut
  <2>10. PICK o, e : o = x.items[j - 1].off /\ e = Extent(x.items[j - 1])
    OBVIOUS
  <2>11. o \in Nat /\ e \in Nat \ {0} /\ o >= (j - 1) - 1 /\ ~(o + e >= j - 1) /\ j \in Nat
    BY <1>0, <2>4, <2>6, <2>8, <2>9, <2>10
  <2> QED
    BY <2>11
<1>2. PICK n \in 1 .. Len(x.items) : n = Len(x.items)
  BY <1>0, ItemsOf
<1>3. WalkEnd(x) = x.items[n].off + Extent(x.items[n]) /\ WalkEnd(x) <= BlkFresh
  BY <1>0, <1>2, ItemsOf DEF LaidOut, LastItem
<1>4. PICK o, e : o = x.items[n].off /\ e = Extent(x.items[n])
  OBVIOUS
<1>5. o \in Nat /\ e \in Nat \ {0} /\ o >= n - 1 /\ o + e <= BlkFresh /\ i \in 1 .. n
  BY <1>0, <1>1, <1>2, <1>3, <1>4
<1> QED
  BY <1>5, KvSizes

\* A key has a value if and only if it has an item that is neither discarded nor torn.
LEMMA ValueIs ==
    ASSUME NEW f \in [Blocks -> Block], \A b \in Blocks : LaidOut(f[b]), NEW k
    PROVE  HasValue(f, k) <=> HasKey(Kept(f), k)
<1>1. ASSUME HasValue(f, k) PROVE HasKey(Kept(f), k)
  <2>1. PICK p \in LiveAt(f, k) : Intact(f[p[1]].items[p[2]])
    BY <1>1 DEF HasValue
  <2>2. PICK b \in Blocks : \E i \in 1 .. BlkFresh : p = <<b, i>>
    BY DEF LiveAt
  <2>3. PICK i \in 1 .. BlkFresh : p = <<b, i>>
    BY <2>2
  <2>4. i \in DOMAIN f[b].items /\ f[b].items[i].key = k /\ Live(f[b].items[i]) /\ Intact(f[b].items[i])
    BY <2>1, <2>3 DEF LiveAt
  <2>5. Item(f, b, i) \in Kept(f) /\ Item(f, b, i).key = k
    BY <2>4, KeptIn, ItemIs DEF WholeAt
  <2> QED
    BY <2>5 DEF HasKey
<1>2. ASSUME NEW h \in Kept(f), h.key = k PROVE HasValue(f, k)
  <2>1. PICK b, i : b = h.blk /\ i = h.idx
    OBVIOUS
  <2>2. b \in Blocks /\ i \in WholeAt(f, b) /\ h = Item(f, b, i)
    BY <2>1, KeptPlace
  <2>3. i \in DOMAIN f[b].items /\ f[b].items[i].key = k /\ Live(f[b].items[i]) /\ Intact(f[b].items[i])
    BY <1>2, <2>2, ItemIs DEF WholeAt
  <2>4. i \in 1 .. BlkFresh
    BY <2>2, <2>3, ItemsFew
  <2>5. PICK p : p = <<b, i>>
    OBVIOUS
  <2>6. p \in {<<c, j>> : c \in Blocks, j \in 1 .. BlkFresh} /\ p[1] = b /\ p[2] = i
    BY <2>2, <2>4, <2>5
  <2>7. p \in LiveAt(f, k)
    BY <2>3, <2>6 DEF LiveAt, Intact
  <2> QED
    BY <2>3, <2>6, <2>7 DEF HasValue
<1> QED
  BY <1>1, <1>2 DEF HasKey

-----------------------------------------------------------------------------
(* The last copy                                                             *)

\* The steps that change marks, RAM or nothing leave the items alone.
LEMMA ItemsStay ==
    ASSUME KvInv, MarkInv,
           \/ ln_kv_init \/ ScanErase \/ ScanMagic \/ ScanMarked \/ ScanIndex \/ ScanDone
           \/ IncompleteFails \/ IncompleteNone \/ IncompleteMagic \/ IncompleteFresh \/ LocateGc
           \/ Locate \/ GcMarkDst \/ GcMagicSrc \/ GcMarkDone \/ SearchWild \/ SearchGc \/ SaveFails
           \/ PowerFail \/ (\E k \in Keys : ln_kv_get(k) \/ \E v \in Vals : ln_kv_set(k, v))
    PROVE  \A b \in Blocks : flash'[b].items = flash[b].items
<1>0. flash \in [Blocks -> Block] /\ gc.dst \in Blocks /\ gc.src \in Blocks /\ Formatted
  BY DEF KvInv, Gc, MarkInv
<1>1. CASE \/ ln_kv_init \/ ScanErase \/ ScanMarked \/ ScanIndex \/ ScanDone
           \/ IncompleteFails \/ IncompleteNone \/ IncompleteFresh \/ Locate \/ SearchWild
           \/ SaveFails \/ PowerFail \/ (\E k \in Keys : ln_kv_get(k) \/ \E v \in Vals : ln_kv_set(k, v))
  <2>1. flash' = flash
    BY <1>0, <1>1, ScanEraseSame DEF ln_kv_init, ScanMarked, ScanIndex, ScanDone, IncompleteFails,
       IncompleteNone, IncompleteFresh, Locate, SearchWild, SaveFails, PowerFail, ln_kv_get, ln_kv_set
  <2> QED
    BY <2>1
<1>2. CASE ScanMagic \/ IncompleteMagic \/ GcMagicSrc
  <2>1. PICK b \in Blocks : flash' = [flash EXCEPT ![b].magic = TRUE]
    BY <1>0, <1>2 DEF ScanMagic, IncompleteMagic, GcMagicSrc, KvInv, Scanning
  <2> QED
    BY <1>0, <2>1, MagicWritten
<1>3. CASE GcMarkDone
  BY <1>3, DonePut
<1>4. CASE GcMarkDst
  <2>1. PICK d \in Blocks : d = gc.dst
    BY <1>0
  <2>2. flash' = [flash EXCEPT ![d].dst = TRUE]
    BY <1>4, <2>1 DEF GcMarkDst
  <2>3. PICK y : /\ flash' = [flash EXCEPT ![d] = y]
                 /\ y \in Block /\ y.items = flash[d].items /\ y.magic = flash[d].magic
                 /\ y.src = flash[d].src /\ y.dst = TRUE /\ y.done = flash[d].done
    BY <1>0, <2>2, MarkPut, ZenonT(40)
  <2> QED
    BY <1>0, <2>3, Replaced
<1>5. CASE LocateGc \/ SearchGc
  <2>1. PICK s : s = FirstBlk(Dirty(ram))
    OBVIOUS
  <2>2. flash' = [flash EXCEPT ![s].src = TRUE] /\ Dirty(ram) # {}
    BY <1>5, <2>1 DEF LocateGc, Rescue, SearchGc, NeedsGc, CanGc
  <2>3. s \in Blocks
    BY <2>1, <2>2, FirstBlkIn DEF Dirty
  <2>4. PICK y : /\ flash' = [flash EXCEPT ![s] = y]
                 /\ y \in Block /\ y.items = flash[s].items /\ y.magic = flash[s].magic
                 /\ y.src = TRUE /\ y.dst = flash[s].dst /\ y.done = flash[s].done
    BY <1>0, <2>2, <2>3, MarkPut, ZenonT(40)
  <2> QED
    BY <1>0, <2>3, <2>4, Replaced
<1> QED
  BY <1>1, <1>2, <1>3, <1>4, <1>5

\* A write to an item that is not whole takes no value away.
LEMMA KeptGrows ==
    ASSUME NEW f, NEW g, NEW b \in Blocks, NEW j, Changes(f, g, b, j), j \notin WholeAt(f, b)
    PROVE  Kept(f) \subseteq Kept(g)
<1>1. ASSUME NEW h \in Kept(f) PROVE h \in Kept(g)
  <2>1. PICK c \in Blocks : \E i \in WholeAt(f, c) : h = Item(f, c, i)
    BY KeptIn
  <2>2. PICK i \in WholeAt(f, c) : h = Item(f, c, i)
    BY <2>1
  <2>3. h.blk = c /\ h.idx = i
    BY <2>2, ItemIs
  <2>4. ~(h.blk = b /\ h.idx = j)
    BY <2>2, <2>3
  <2> QED
    BY <2>4, KeptChanges
<1> QED
  BY <1>1

\* A new header takes no whole item away.
LEMMA HeaderGrows ==
    ASSUME flash \in [Blocks -> Block], NEW b \in Blocks, NEW s, flash' = PutHeader(b, s)
    PROVE  Kept(flash) \subseteq Kept(flash')
<1>1. flash[b].items \in Seq(Slot) /\ Len(flash[b].items) \in Nat
      /\ DOMAIN flash[b].items = 1 .. Len(flash[b].items)
  BY ItemsOf
<1>2. PICK t, n : t = flash[b].items /\ n = Len(t) + 1
  OBVIOUS
<1>3. flash'[b].items = Append(t, s) /\ \A c \in Blocks \ {b} : flash'[c] = flash[c]
  BY <1>2 DEF PutHeader
<1>4. DOMAIN Append(t, s) = 1 .. n /\ \A i \in 1 .. Len(t) : Append(t, s)[i] = t[i]
  BY <1>1, <1>2
<1>5. \A i : i # n => (i \in 1 .. n <=> i \in 1 .. Len(t))
  BY <1>1, <1>2
<1>6. Changes(flash, flash', b, n)
  BY <1>1, <1>2, <1>3, <1>4, <1>5 DEF Changes
<1>7. n \notin WholeAt(flash, b)
  BY <1>1, <1>2 DEF WholeAt
<1> QED
  BY <1>6, <1>7, KeptGrows

\* A new part of a torn item takes no whole item away.
LEMMA StageGrows ==
    ASSUME flash \in [Blocks -> Block], NEW b \in Blocks, NEW st \in Stages,
           flash[b].items # << >>, ~Intact(LastItem(flash[b])), flash' = PutStage(b, st)
    PROVE  Kept(flash) \subseteq Kept(flash')
<1>1. PICK y : /\ flash' = [flash EXCEPT ![b] = y] /\ WithItems(flash[b], y, y.items)
               /\ Len(y.items) = Len(flash[b].items)
               /\ \A i \in 1 .. Len(y.items) - 1 : y.items[i] = flash[b].items[i]
  BY StagePut
<1>2. PICK n : n = Len(flash[b].items)
  OBVIOUS
<1>3. y \in Block /\ n \in Nat /\ DOMAIN flash[b].items = 1 .. n /\ DOMAIN y.items = 1 .. n
  BY <1>1, <1>2, ItemsOf DEF WithItems
<1>4. flash'[b] = y /\ \A c \in Blocks \ {b} : flash'[c] = flash[c]
  BY <1>1, <1>3, Replaced
<1>5. \A i \in 1 .. n : i # n => i \in 1 .. n - 1
  BY <1>3
<1>6. Changes(flash, flash', b, n)
  BY <1>1, <1>2, <1>3, <1>4, <1>5 DEF Changes
<1>7. n \notin WholeAt(flash, b)
  BY <1>2 DEF WholeAt, LastItem
<1> QED
  BY <1>6, <1>7, KeptGrows

\* The writes of a set and of a collection take no value away.
LEMMA WritesGrow ==
    ASSUME KvInv, GcCopyHeader \/ GcCopyMagic \/ GcCopyKey \/ GcCopyVal \/ SaveHeader \/ SaveMagic
                  \/ SaveKey \/ SaveVal
    PROVE  Kept(flash) \subseteq Kept(flash')
<1>0. flash \in [Blocks -> Block] /\ gc.dst \in Blocks
  BY DEF KvInv, Gc
<1>1. CASE GcCopyHeader
  <2>1. PICK s : flash' = PutHeader(gc.dst, s)
    BY <1>1 DEF GcCopyHeader
  <2> QED
    BY <1>0, <2>1, HeaderGrows
<1>2. CASE SaveHeader
  <2>1. PICK c : c = Suitable(ram, ItemSize(op.val))
    OBVIOUS
  <2>2. PICK s : pc = "search" /\ c.blk # Invalid /\ (flash' = flash \/ flash' = PutHeader(c.blk, s))
    BY <1>2, <2>1 DEF SaveHeader
  <2>3. op.val \in Vals
    BY <2>2 DEF KvInv, Setting, Op
  <2>4. c.blk \in Blocks
    BY <2>1, <2>2, <2>3, SuitableRight, Sizes DEF KvInv
  <2> QED
    BY <1>0, <2>2, <2>4, HeaderGrows
<1>3. CASE GcCopyMagic \/ GcCopyKey \/ GcCopyVal
  <2>1. /\ pc \in Copying /\ \E st : flash' = PutStage(gc.dst, st)
                                   /\ st \in {"magic", "key", flash[gc.src].items[gc.i].st}
    BY <1>3 DEF GcCopyMagic, GcCopyKey, GcCopyVal, Copying
  <2>2. flash[gc.dst].items # << >> /\ flash[gc.src].items[gc.i] \in Slot
    BY <2>1, CopyFacts
  <2>3. ~Intact(LastItem(flash[gc.dst]))
    BY <2>1 DEF KvInv, Moving, Intact
  <2> QED
    BY <1>0, <2>1, <2>2, <2>3, StageGrows DEF Slot, Stages
<1>4. CASE SaveMagic \/ SaveKey \/ SaveVal
  <2>1. pc \in Saving /\ \E st \in {"magic", "key", "full"} : flash' = PutStage(op.blk, st)
    BY <1>4 DEF SaveMagic, SaveKey, SaveVal, Saving
  <2>2. flash[op.blk].items # << >> /\ op.blk \in Blocks
    BY <2>1 DEF KvInv, Setting, Op
  <2>3. ~Intact(LastItem(flash[op.blk]))
    BY <2>1 DEF KvInv, Setting, Intact
  <2> QED
    BY <1>0, <2>1, <2>2, <2>3, StageGrows DEF Stages
<1> QED
  BY <1>1, <1>2, <1>3, <1>4

\* Recovery discards a whole item only when another item of the key supersedes it.
LEMMA RecoverKeeps ==
    ASSUME KvInv, ScanRecover, NEW k, HasKey(Kept(flash), k)
    PROVE  HasKey(Kept(flash'), k)
<1>0. flash \in [Blocks -> Block] /\ cur \in Blocks
  BY DEF KvInv, ScanRecover, IndexBuild
<1>1. PICK i \in Recover(flash, cur) : \E b \in Blocks : \E j \in DOMAIN flash[b].items :
          Discards(flash, cur, i) = <<b, j>> /\ Drops(flash, flash', b, j)
  BY RecoverDrops
<1>2. PICK b \in Blocks : \E j \in DOMAIN flash[b].items :
          Discards(flash, cur, i) = <<b, j>> /\ Drops(flash, flash', b, j)
  BY <1>1
<1>3. PICK j \in DOMAIN flash[b].items :
          Discards(flash, cur, i) = <<b, j>> /\ Drops(flash, flash', b, j)
  BY <1>2
<1>4. PICK q : q = Item(flash, b, j)
  OBVIOUS
<1>5. Kept(flash') = Kept(flash) \ {q}
  BY <1>0, <1>3, <1>4, KeptDrops
<1>6. \/ b = cur /\ j = i /\ i \in TornAt(flash, cur)
      \/ /\ i \in WholeAt(flash, cur) /\ j \in WholeAt(flash, b) \cup TornAt(flash, b)
         /\ flash[b].items[j].key = flash[cur].items[i].key
         /\ flash[cur].items[i].prev = <<b, flash[b].items[j].off>>
         /\ flash[cur].items[i].prev # <<cur, flash[cur].items[i].off>>
  BY <1>0, <1>3, RecoverIs
<1>7. CASE j \in TornAt(flash, b)
  <2>1. j \notin WholeAt(flash, b)
    BY <1>7 DEF WholeAt, TornAt
  <2>2. q \notin Kept(flash)
    BY <1>4, <2>1, KeptIn, ItemIs
  <2>3. Kept(flash') = Kept(flash)
    BY <1>5, <2>2
  <2> QED
    BY <2>3
<1>8. CASE j \notin TornAt(flash, b)
  <2>1. PICK p : p = Item(flash, cur, i)
    OBVIOUS
  <2>2. i \in WholeAt(flash, cur)
    BY <1>6, <1>8
  <2>3. p \in Kept(flash) /\ p.key = q.key /\ p # q
    BY <1>0, <1>4, <1>6, <1>8, <2>1, <2>2, KeptIn, ItemIs
  <2> QED
    BY <1>5, <2>3 DEF HasKey
<1> QED
  BY <1>7, <1>8

\* The two erases and the two deletions
LEMMA ErasesKeep ==
    ASSUME KvInv, Facts, IncompleteErase \/ GcEraseSrc \/ DeleteOld, NEW k, HasKey(Kept(flash), k)
    PROVE  HasKey(Kept(flash'), k)
<1>0. flash \in [Blocks -> Block]
  BY DEF KvInv
<1>1. CASE IncompleteErase
  <2>0. /\ GcSrcs # {} /\ GcDsts # {} /\ Rebooting /\ pc \in Booting
    BY <1>1 DEF IncompleteErase, Facts, Booting
  <2>1. PICK d : d = FirstBlk(GcDsts)
    OBVIOUS
  <2>2. flash' = [flash EXCEPT ![d] = Erased]
    BY <1>1, <2>1 DEF IncompleteErase
  <2>3. PICK e \in Blocks : Repairable(e)
    BY <2>0 DEF Rebooting, Doomed
  <2>4. d = e /\ d \in Blocks
    <3>1. GcDsts = {e} /\ GcDsts \subseteq Blocks
      BY <2>0, <2>3 DEF Repairable, GcDsts
    <3> QED
      BY <2>1, <3>1, FirstBlkIn
  <2>5. flash'[d] = Erased /\ \A c \in Blocks \ {d} : flash'[c] = flash[c]
    BY <1>0, <2>2, <2>4, ErasedRight
  <2>6. Kept(flash') = Off(Kept(flash), d)
    <3>1. flash'[d].items = << >> /\ \A c \in Blocks \ {d} : flash'[c].items = flash[c].items
      BY <2>5, ErasedRight
    <3> QED
      BY <2>4, <3>1, KeptErase
  <2>7. \A h \in In(Kept(flash), d) : HasKey(Off(Kept(flash), d), h.key)
    BY <2>3, <2>4 DEF Repairable
  <2> QED
    BY <2>6, <2>7 DEF HasKey, In, Off
<1>2. CASE GcEraseSrc
  <2>0. /\ pc = "gc_copy" /\ pc \in Marking /\ ToCopy = {} /\ flash' = [flash EXCEPT ![gc.src] = Erased]
    BY <1>2 DEF GcEraseSrc, Marking
  <2>1. /\ gc.src \in Blocks /\ gc.dst \in Blocks /\ gc.src # gc.dst
        /\ Copied(Kept(flash), gc.src, gc.dst, gc.i) /\ gc.i \in Nat
    BY <2>0, GatherIs
  <2>2. PICK s \in Blocks : s = gc.src
    BY <2>1
  <2>3. flash'[s].items = << >> /\ \A c \in Blocks \ {s} : flash'[c].items = flash[c].items
    BY <1>0, <2>0, <2>2, ErasedRight
  <2>4. Kept(flash') = Off(Kept(flash), s)
    BY <2>3, KeptErase
  <2>5. \A h \in In(Kept(flash), s) : h.idx < gc.i
    <3> TAKE h \in In(Kept(flash), s)
    <3>1. h.idx \in Nat /\ h.idx \in WholeAt(flash, s)
      BY <1>0, KeptPlace DEF In
    <3>2. h.idx \notin ToCopy
      BY <2>0
    <3> QED
      BY <2>1, <2>2, <3>1, <3>2 DEF ToCopy, WholeAt
  <2>6. \A h \in In(Kept(flash), s) : \E c \in In(Kept(flash), gc.dst) : c.key = h.key
    BY <2>1, <2>2, <2>5 DEF Copied
  <2> QED
    BY <2>1, <2>2, <2>4, <2>6 DEF HasKey, In, Off
<1>3. CASE DeleteOld
  <2>1. PICK n, m \in Kept(flash) : /\ n # m /\ n.key = op.key /\ m.key = op.key
                                    /\ Kept(flash') = Kept(flash) \ {m}
    BY <1>3, OldDrops
  <2> QED
    BY <2>1 DEF HasKey
<1> QED
  BY <1>1, <1>2, <1>3

\* ln_kv_del takes the value of its own key away, and of no other.
LEMMA DelKeeps ==
    ASSUME KvInv, NEW k \in Keys, ln_kv_del(k), NEW x \in Keys, HasKey(Kept(flash), x)
    PROVE  HasKey(Kept(flash'), x) \/ allowed'[x] = {None}
<1>0. /\ flash \in [Blocks -> Block] /\ pc = "idle" /\ allowed \in [Keys -> SUBSET (Vals \cup {None})]
  BY DEF KvInv, ln_kv_del
<1>1. PICK m, at : m = KeyMatch(flash, k) /\ at = FindItem(ram, m)
  OBVIOUS
<1>2. IF at = NoItem THEN UNCHANGED <<flash, allowed>>
      ELSE Drops(flash, flash', at[1], at[2]) /\ allowed' = [allowed EXCEPT ![k] = {None}]
  BY <1>1, DelDrops
<1>3. CASE at = NoItem
  BY <1>2, <1>3
<1>4. CASE at # NoItem
  <2>1. Kept(flash') = Kept(flash) \ {Item(flash, at[1], at[2])}
    BY <1>0, <1>2, <1>4, KeptDrops
  <2>2. PICK b \in Blocks : \E i \in m[b] : at = <<b, i>>
    BY <1>0, <1>1, <1>4, Matches, Found
  <2>3. PICK i \in m[b] : at = <<b, i>>
    BY <2>2
  <2>4. Item(flash, at[1], at[2]).key = k
    <3>1. flash[b].items[i].key = k
      BY <1>1, <2>3 DEF KeyMatch
    <3>2. at[1] = b /\ at[2] = i
      BY <2>3
    <3> QED
      BY <3>1, <3>2, ItemIs
  <2>5. allowed'[k] = {None}
    BY <1>0, <1>2, <1>4
  <2> QED
    BY <2>1, <2>4, <2>5 DEF HasKey
<1> QED
  BY <1>3, <1>4

\* No step but ln_kv_del takes the last item of a key away.
LEMMA KeyStays ==
    ASSUME KvInv, MarkInv, Facts, [Next]_vars, NEW k \in Keys, HasKey(Kept(flash), k)
    PROVE  HasKey(Kept(flash'), k) \/ allowed'[k] = {None}
<1>1. ASSUME \A b \in Blocks : flash'[b].items = flash[b].items PROVE HasKey(Kept(flash'), k)
  <2>1. Kept(flash') = Kept(flash)
    BY <1>1, KeptSame
  <2> QED
    BY <2>1
<1>2. ASSUME Kept(flash) \subseteq Kept(flash') PROVE HasKey(Kept(flash'), k)
  BY <1>2 DEF HasKey
<1>3. CASE UNCHANGED vars
  BY <1>1, <1>3 DEF vars
<1>4. CASE PowerFail
  BY <1>1, <1>4, ItemsStay
<1>5. CASE Boot
  BY <1>1, <1>5, ItemsStay, RecoverKeeps, ErasesKeep DEF Boot
<1>6. CASE Collect
  BY <1>1, <1>2, <1>6, ItemsStay, WritesGrow, ErasesKeep DEF Collect
<1>7. CASE Save
  BY <1>1, <1>2, <1>7, ItemsStay, WritesGrow, ErasesKeep DEF Save
<1>8. CASE Call
  BY <1>1, <1>8, ItemsStay, DelKeeps DEF Call
<1> QED
  BY <1>3, <1>4, <1>5, <1>6, <1>7, <1>8 DEF Next

\* Power fails at most once: no erase and no discard takes away the last readable value of a key,
\* except ln_kv_del of that key.
THEOREM KvKeepsLastCopy == ASSUME FitsBlank, MaxCycle <= 1 PROVE Spec => KeepsLastCopy
<1>1. ASSUME KvAll, KvAll', [Next]_vars, NEW k \in Keys, HasValue(flash, k), ~HasValue(flash', k)
      PROVE  allowed'[k] = {None}
  <2>1. KvInv /\ MarkInv /\ Facts /\ KvInv'
    BY <1>1 DEF KvAll, DataInv, Good
  <2>2. /\ flash \in [Blocks -> Block] /\ \A b \in Blocks : LaidOut(flash[b])
        /\ flash' \in [Blocks -> Block] /\ \A b \in Blocks : LaidOut(flash'[b])
    BY <2>1 DEF KvInv
  <2>3. HasKey(Kept(flash), k) /\ ~HasKey(Kept(flash'), k)
    BY <1>1, <2>2, ValueIs
  <2> QED
    BY <1>1, <2>1, <2>3, KeyStays
<1>2. KvAll /\ KvAll' /\ [Next]_vars =>
          [\A k \in Keys : HasValue(flash, k) /\ ~HasValue(flash', k) => allowed'[k] = {None}]_vars
  BY <1>1
<1> QED
  BY <1>2, KvAllAlways, PTL DEF Spec, KeepsLastCopy

=============================================================================
