----------------------------- MODULE LnKvProofs -----------------------------
(* Proofs about LnKv, for any number of keys, values, blocks and power       *)
(* failures and for all sizes: the values of the variables, the layout of    *)
(* the items on flash, the truth of the index in RAM, that an item fits the  *)
(* block that it is written to, and what the marks on flash and the index    *)
(* say together.                                                             *)
(*                                                                           *)
(* The invariant says of every block that its items lie back to back and     *)
(* that its index entry describes it, but for the block that the step in     *)
(* progress has changed on flash and not yet in RAM; of a garbage collection *)
(* that its copies reach no further than the items they are copies of.       *)
(*                                                                           *)
(* Marks: which blocks may carry an open gc_src or gc_dst mark at each point *)
(* of a boot, a call and a garbage collection.  Index: a block with room for *)
(* an item is known as fresh or inuse, num_inuse is exact during boot, and   *)
(* the workspace is located before a search.  The index facts need the marks *)
(* (boot leaves a block that an interrupted collection marked out of the     *)
(* index), and they hold as long as no power failure came between the erase  *)
(* of a gc source and the gc_done mark of its destination.                   *)
EXTENDS LnKv, FiniteSetTheorems, TLAPS

-----------------------------------------------------------------------------
(* The invariant                                                             *)

Saving  == {"s_magic", "s_key", "s_val"}
Copying == {"c_magic", "c_key", "c_val"}
Collecting == Copying \cup {"gc_dst", "gc_copy", "gc_magic", "gc_done"}

LastItem(blk) == blk.items[Len(blk.items)]

\* The items of a block lie back to back in address order, inside the block.
LaidOut(blk) ==
    /\ \A i \in DOMAIN blk.items :
           blk.items[i].off = IF i = 1 THEN 0
                              ELSE blk.items[i - 1].off + Extent(blk.items[i - 1])
    /\ \A i \in DOMAIN blk.items, j \in DOMAIN blk.items :
           i < j => blk.items[i].off + Extent(blk.items[i]) <= blk.items[j].off
    /\ WalkEnd(blk) <= BlkFresh

\* The two counters
Counted(r) == /\ r.numFresh = Cardinality(Fresh(r))
              /\ r.numInuse >= Cardinality(Inuse(r))

\* A fresh block has no other flag, and a block inuse has room for a header and more.
FlagsRight(r) == \A b \in Blocks :
                     /\ "fresh" \in r.flags[b] => r.flags[b] = {"fresh"}
                     /\ "inuse" \in r.flags[b] => r.free[b] > HdrSize

\* The index entry of a block describes the block: a free size that could be used is
\* exact, a fresh block is blank and a dirty one is not.
Describes(r, f, b) ==
    /\ r.free[b] > HdrSize => r.free[b] = BlkFresh - WalkEnd(f[b])
    /\ b \in Fresh(r) => r.free[b] = BlkFresh /\ f[b].items = << >>
    /\ b \in Dirty(r) => f[b].items # << >>

\* The blocks that the step in progress has changed on flash and not in RAM
Exempt == IF pc \in Saving THEN {op.blk}
          ELSE IF pc = "scan_magic" THEN {cur}
          ELSE IF pc = "inc_magic" THEN {gc.dst}
          ELSE IF pc = "gc_magic" THEN {gc.src, gc.dst}
          ELSE IF pc \in Collecting THEN {gc.dst}
          ELSE {}

Indexed == \A b \in Blocks \ Exempt : Describes(ram, flash, b)

\* A block marked as a source has items.
Sources == \A b \in Blocks : flash[b].src = TRUE => flash[b].items # << >>

\* What the boot scan has not reached
Scanning ==
    /\ pc \in {"scan", "scan_magic"} =>
           \A b \in Blocks : b >= cur => ram.flags[b] \subseteq {"dirty"} /\ ram.free[b] = 0
    /\ pc = "scan_magic" => cur \in Blocks /\ flash[cur] = Erased

\* The set in progress, with the item that it is writing
Setting ==
    /\ (pc \in Saving \cup {"search", "del_old"} \/ gc.from = "search") => op \in Op
    /\ pc \in Saving \cup {"del_old"} /\ op.prev # NoPos =>
           op.prev[1] \in Blocks \ Fresh(ram) /\ flash[op.prev[1]].items # << >>
    /\ pc = "del_old" => op.prev # NoPos
    /\ pc \in Saving =>
           /\ flash[op.blk].items # << >>
           /\ LET s == LastItem(flash[op.blk])
              IN  /\ s.val = op.val
                  /\ s.off = BlkFresh - ram.free[op.blk]
                  /\ ItemSize(op.val) <= ram.free[op.blk]
                  /\ s.st = IF pc = "s_magic" THEN "hdr" ELSE IF pc = "s_key" THEN "magic" ELSE "key"

\* How far the copies in the destination may reach before item i is copied
Reach(i) == IF i \in DOMAIN flash[gc.src].items THEN flash[gc.src].items[i].off
            ELSE WalkEnd(flash[gc.src])

\* The garbage collection in progress: the copies never reach further than the items
\* of the source that they are copies of.
Moving ==
    /\ pc \in Collecting => gc.src # gc.dst /\ gc.from \in {"search", "locate", "incomplete"}
    /\ pc \notin Collecting => gc.from # "search"
    /\ pc = "inc_magic" => gc.src # gc.dst /\ gc.from = "incomplete" /\ gc.i = 1
                           /\ flash[gc.dst] = Erased
    /\ pc \in Collecting => "fresh" \in ram.flags[gc.dst]
    /\ pc = "gc_dst" => gc.i = 1 /\ flash[gc.dst].items = << >>
    /\ pc \in Collecting \ Copying => ram.free[gc.dst] = BlkFresh - WalkEnd(flash[gc.dst])
    /\ pc = "gc_copy" => gc.i >= 1 /\ WalkEnd(flash[gc.dst]) <= Reach(gc.i)
    /\ pc \in Copying =>
           /\ gc.i \in DOMAIN flash[gc.src].items
           /\ Live(flash[gc.src].items[gc.i])
           /\ flash[gc.dst].items # << >>
           /\ LET s == LastItem(flash[gc.dst])
              IN  /\ s.val = flash[gc.src].items[gc.i].val
                  /\ s.off = BlkFresh - ram.free[gc.dst]
                  /\ s.off <= flash[gc.src].items[gc.i].off
                  /\ s.st = IF pc = "c_magic" THEN "hdr" ELSE IF pc = "c_key" THEN "magic" ELSE "key"
    /\ pc = "gc_magic" => flash[gc.src].items = << >>

\* An index of the right type with true counters and flags
RamOk(r) == r \in Ram /\ Counted(r) /\ FlagsRight(r)

KvInv == /\ flash \in [Blocks -> Block] /\ RamOk(ram) /\ pc \in PC
         /\ cur \in 0 .. NumBlk /\ op \in Op \cup {NoOp} /\ gc \in Gc
         /\ cycles \in [n : 0 .. MaxCycle, window : BOOLEAN]
         /\ allowed \in [Keys -> SUBSET (Vals \cup {None})]
         /\ \A b \in Blocks : LaidOut(flash[b])
         /\ Indexed /\ Sources /\ Scanning /\ Setting /\ Moving

-----------------------------------------------------------------------------
(* Searches                                                                  *)

\* A set of numbers has a least one.
LEMMA LeastOf ==
    ASSUME NEW S, S \subseteq Nat, S # {}
    PROVE  \E x \in S : \A y \in S : x <= y
<1>1. PICK x \in S : \A y \in S : ~(<<y, x>> \in OpToRel(<, Nat))
  BY WFMin, NatLessThanWellFounded, Zenon
<1>2. \A y \in S : x <= y
  <2> TAKE y \in S
  <2>1. x \in Nat /\ y \in Nat
    OBVIOUS
  <2>2. ~(y < x)
    BY <1>1, <2>1, Zenon DEF OpToRel
  <2> QED
    BY <2>1, <2>2
<1> QED
  BY <1>2

LEMMA BlocksNat == /\ Blocks \subseteq Nat /\ NumBlk \in Nat \ {0} /\ NumBlk \notin Blocks
                   /\ 0 \in Blocks /\ HdrSize \in Nat \ {0} /\ BlkFresh \in Nat
                   /\ HdrSize < BlkFresh /\ -1 \notin Blocks
                   /\ IsFiniteSet(Blocks)
  BY KvSizes, FS_Interval DEF Blocks

\* The first block of a set is one of the set.
LEMMA FirstBlkIn ==
    ASSUME NEW S, S \subseteq Blocks, S # {}
    PROVE  /\ FirstBlk(S) \in S /\ FirstBlk(S) # Invalid
           /\ \A c \in S : FirstBlk(S) <= c
<1>1. \E x \in S : \A y \in S : x <= y
  BY BlocksNat, LeastOf
<1>2. FirstBlk(S) \in S /\ \A c \in S : FirstBlk(S) <= c
  BY <1>1, Zenon DEF FirstBlk
<1> QED
  BY <1>2, BlocksNat DEF Invalid

\* The next block on the ring, if there is one, is one of the set and not the start.
LEMMA NextBlkIn ==
    ASSUME NEW S, S \subseteq Blocks, NEW start \in Int
    PROVE  /\ NextBlk(S, start) = Invalid \/ NextBlk(S, start) \in S \ {start}
           /\ S \ {start} # {} => NextBlk(S, start) \in S \ {start}
<1>1. CASE S \ {start} = {}
  BY <1>1 DEF NextBlk
<1>2. CASE S \ {start} # {}
  <2> DEFINE T == S \ {start}
             dist(b) == (b - start) % NumBlk
             D == {dist(b) : b \in T}
  <2>1. \A b \in T : dist(b) \in Nat
    <3> TAKE b \in T
    <3>1. b - start \in Int /\ NumBlk \in Nat \ {0}
      BY BlocksNat
    <3> QED
      BY <3>1
  <2>2. D \subseteq Nat /\ D # {}
    BY <1>2, <2>1, Zenon
  <2>3. \E x \in D : \A y \in D : x <= y
    <3> HIDE DEF D
    <3> QED
      BY <2>2, LeastOf
  <2>4. \E b \in T : \A c \in T : dist(b) <= dist(c)
    BY <2>3, Zenon
  <2>5. NextBlk(S, start) = CHOOSE b \in T : \A c \in T : dist(b) <= dist(c)
    BY <1>2, Zenon DEF NextBlk
  <2> HIDE DEF T, dist
  <2>6. NextBlk(S, start) \in T
    BY <2>4, <2>5, Zenon
  <2> QED
    BY <2>6 DEF T
<1> QED
  BY <1>1, <1>2

\* kv_item_find returns NULL or an item that its walker accepts, in a block that is not
\* fresh.
LEMMA Found ==
    ASSUME NEW r, NEW match \in [Blocks -> SUBSET Nat]
    PROVE  LET at == FindItem(r, match)
           IN  \/ at = NoItem
               \/ \E b \in Blocks \ Fresh(r) : \E i \in match[b] : at = <<b, i>> /\ at # NoItem
<1> DEFINE hit == {b \in Blocks \ Fresh(r) : match[b] # {}}
<1>1. CASE hit = {}
  BY <1>1 DEF FindItem
<1>2. CASE hit # {}
  <2>1. FirstBlk(hit) \in hit
    BY <1>2, FirstBlkIn
  <2>2. PICK b \in Blocks \ Fresh(r) : b = FirstBlk(hit) /\ match[b] # {}
    BY <2>1
  <2>3. match[b] \subseteq Nat
    BY <2>2
  <2>4. \E i \in match[b] : \A j \in match[b] : i <= j
    BY <2>2, <2>3, LeastOf
  <2>5. FindItem(r, match) = <<b, CHOOSE i \in match[b] : \A j \in match[b] : i <= j>>
    BY <1>2, <2>2, Zenon DEF FindItem
  <2>6. PICK i \in match[b] : FindItem(r, match) = <<b, i>>
    BY <2>4, <2>5, Zenon
  <2>7. <<b, i>> # NoItem
    BY <2>2, BlocksNat DEF NoItem
  <2> QED
    BY <2>2, <2>6, <2>7
<1> QED
  BY <1>1, <1>2

-----------------------------------------------------------------------------
(* The index                                                                 *)

\* An index that differs from another in one entry and, by the change of that entry, in
\* the counters
Entry(r, q, b) == /\ q \in Ram /\ q.workspace = r.workspace
                  /\ \A c \in Blocks \ {b} : q.flags[c] = r.flags[c] /\ q.free[c] = r.free[c]

LEMMA FlagSets ==
    ASSUME NEW r \in Ram
    PROVE  /\ Fresh(r) \subseteq Blocks /\ IsFiniteSet(Fresh(r)) /\ Cardinality(Fresh(r)) \in Nat
           /\ Inuse(r) \subseteq Blocks /\ IsFiniteSet(Inuse(r)) /\ Cardinality(Inuse(r)) \in Nat
<1>1. Fresh(r) \subseteq Blocks /\ Inuse(r) \subseteq Blocks
  BY DEF Fresh, Inuse
<1> QED
  BY <1>1, BlocksNat, FS_Subset, FS_CardinalityType

\* The index keeps its form when one entry is rewritten and the counters follow.
LEMMA EntryRight ==
    ASSUME NEW r, RamOk(r), NEW b \in Blocks, NEW q, Entry(r, q, b),
           q.numFresh = r.numFresh + (IF "fresh" \in q.flags[b] THEN 1 ELSE 0)
                                   - (IF "fresh" \in r.flags[b] THEN 1 ELSE 0),
           q.numInuse >= r.numInuse + (IF "inuse" \in q.flags[b] THEN 1 ELSE 0)
                                    - (IF "inuse" \in r.flags[b] THEN 1 ELSE 0),
           "fresh" \in q.flags[b] => q.flags[b] = {"fresh"},
           "inuse" \in q.flags[b] => q.free[b] > HdrSize
    PROVE  RamOk(q)
<1>0. r \in Ram /\ q \in Ram /\ Counted(r) /\ FlagsRight(r)
  BY DEF RamOk, Entry
<1>1. /\ IsFiniteSet(Fresh(r)) /\ Cardinality(Fresh(r)) \in Nat
      /\ IsFiniteSet(Inuse(r)) /\ Cardinality(Inuse(r)) \in Nat
      /\ IsFiniteSet(Fresh(q)) /\ Cardinality(Fresh(q)) \in Nat
      /\ IsFiniteSet(Inuse(q)) /\ Cardinality(Inuse(q)) \in Nat
  BY <1>0, FlagSets
<1>2. /\ Fresh(q) = IF "fresh" \in q.flags[b] THEN Fresh(r) \cup {b} ELSE Fresh(r) \ {b}
      /\ Inuse(q) = IF "inuse" \in q.flags[b] THEN Inuse(r) \cup {b} ELSE Inuse(r) \ {b}
      /\ b \in Fresh(r) <=> "fresh" \in r.flags[b]
      /\ b \in Inuse(r) <=> "inuse" \in r.flags[b]
  BY DEF Entry, Fresh, Inuse
<1>3. q.numFresh = Cardinality(Fresh(q))
  <2>1. r.numFresh = Cardinality(Fresh(r))
    BY <1>0 DEF Counted
  <2>2. /\ Cardinality(Fresh(r) \cup {b}) = IF b \in Fresh(r) THEN Cardinality(Fresh(r))
                                            ELSE Cardinality(Fresh(r)) + 1
        /\ Cardinality(Fresh(r) \ {b}) = IF b \in Fresh(r) THEN Cardinality(Fresh(r)) - 1
                                         ELSE Cardinality(Fresh(r))
    BY <1>1, FS_AddElement, FS_RemoveElement
  <2>3. CASE "fresh" \in q.flags[b]
    BY <1>1, <1>2, <2>1, <2>2, <2>3
  <2>4. CASE "fresh" \notin q.flags[b]
    BY <1>1, <1>2, <2>1, <2>2, <2>4
  <2> QED
    BY <2>3, <2>4
<1>4. q.numInuse >= Cardinality(Inuse(q))
  <2>1. r.numInuse >= Cardinality(Inuse(r)) /\ r.numInuse \in Int /\ q.numInuse \in Int
    BY <1>0 DEF Counted, Ram
  <2>2. /\ Cardinality(Inuse(r) \cup {b}) = IF b \in Inuse(r) THEN Cardinality(Inuse(r))
                                            ELSE Cardinality(Inuse(r)) + 1
        /\ Cardinality(Inuse(r) \ {b}) = IF b \in Inuse(r) THEN Cardinality(Inuse(r)) - 1
                                         ELSE Cardinality(Inuse(r))
    BY <1>1, FS_AddElement, FS_RemoveElement
  <2>3. CASE "inuse" \in q.flags[b]
    BY <1>1, <1>2, <2>1, <2>2, <2>3
  <2>4. CASE "inuse" \notin q.flags[b]
    BY <1>1, <1>2, <2>1, <2>2, <2>4
  <2> QED
    BY <2>3, <2>4
<1>5. FlagsRight(q)
  BY <1>0 DEF FlagsRight, Entry
<1> QED
  BY <1>0, <1>3, <1>4, <1>5 DEF RamOk, Counted

LEMMA SetFresh ==
    ASSUME NEW r, RamOk(r), NEW b \in Blocks
    PROVE  LET q == kv_blk_set_fresh(r, b)
           IN  RamOk(q) /\ Entry(r, q, b) /\ q.flags[b] = {"fresh"} /\ q.free[b] = BlkFresh
<1> DEFINE q == kv_blk_set_fresh(r, b)
<1>0. r \in Ram /\ BlkFresh \in Int
  BY BlocksNat DEF RamOk
<1>a. PICK n \in Int : n = IF "fresh" \in r.flags[b] THEN r.numFresh ELSE r.numFresh + 1
  BY <1>0 DEF Ram
<1>b. q = [r EXCEPT !.numFresh = n, !.free[b] = BlkFresh, !.flags[b] = {"fresh"}]
  BY <1>a, Zenon DEF kv_blk_set_fresh
<1>1. q = [flags |-> [r.flags EXCEPT ![b] = {"fresh"}], free |-> [r.free EXCEPT ![b] = BlkFresh],
           numFresh |-> n,
           numInuse |-> r.numInuse, workspace |-> r.workspace]
  BY <1>0, <1>b DEF Ram
<1>2. /\ q.flags = [r.flags EXCEPT ![b] = {"fresh"}] /\ q.free = [r.free EXCEPT ![b] = BlkFresh]
      /\ q.numFresh = IF "fresh" \in r.flags[b] THEN r.numFresh ELSE r.numFresh + 1
      /\ q.numInuse = r.numInuse /\ q.workspace = r.workspace
  BY <1>a, <1>1
<1> HIDE DEF q
<1>3. Entry(r, q, b) /\ q.flags[b] = {"fresh"} /\ q.free[b] = BlkFresh
  BY <1>0, <1>1, <1>2 DEF Entry, Ram, Flags
<1>4. r.numFresh \in Int /\ r.numInuse \in Int
  BY <1>0 DEF Ram
<1>5. /\ q.numFresh = r.numFresh + (IF "fresh" \in q.flags[b] THEN 1 ELSE 0)
                                 - (IF "fresh" \in r.flags[b] THEN 1 ELSE 0)
      /\ q.numInuse >= r.numInuse + (IF "inuse" \in q.flags[b] THEN 1 ELSE 0)
                                  - (IF "inuse" \in r.flags[b] THEN 1 ELSE 0)
      /\ "fresh" \in q.flags[b] => q.flags[b] = {"fresh"}
      /\ "inuse" \in q.flags[b] => q.free[b] > HdrSize
  BY <1>2, <1>3, <1>4
<1>6. RamOk(q)
  BY <1>3, <1>5, EntryRight, Zenon
<1> QED
  BY <1>3, <1>6 DEF q

LEMMA SetInuse ==
    ASSUME NEW r, RamOk(r), NEW b \in Blocks, "fresh" \notin r.flags[b], r.free[b] > HdrSize
    PROVE  LET q == kv_blk_set_inuse(r, b)
           IN  /\ RamOk(q) /\ Entry(r, q, b) /\ q.flags[b] = r.flags[b] \cup {"inuse"}
               /\ q.free[b] = r.free[b]
<1> DEFINE q == kv_blk_set_inuse(r, b)
<1>0. r \in Ram
  BY DEF RamOk
<1>a. PICK n \in Int : n = IF "inuse" \in r.flags[b] THEN r.numInuse ELSE r.numInuse + 1
  BY <1>0 DEF Ram
<1>b. q = [r EXCEPT !.numInuse = n, !.flags[b] = @ \cup {"inuse"}]
  BY <1>a, Zenon DEF kv_blk_set_inuse
<1>1. q = [flags |-> [r.flags EXCEPT ![b] = r.flags[b] \cup {"inuse"}], free |-> r.free,
           numFresh |-> r.numFresh,
           numInuse |-> n,
           workspace |-> r.workspace]
  BY <1>0, <1>b DEF Ram
<1>2. /\ q.flags = [r.flags EXCEPT ![b] = r.flags[b] \cup {"inuse"}] /\ q.free = r.free
      /\ q.numInuse = IF "inuse" \in r.flags[b] THEN r.numInuse ELSE r.numInuse + 1
      /\ q.numFresh = r.numFresh /\ q.workspace = r.workspace
  BY <1>a, <1>1
<1> HIDE DEF q
<1>3. /\ Entry(r, q, b) /\ q.flags[b] = r.flags[b] \cup {"inuse"} /\ q.free[b] = r.free[b]
  BY <1>0, <1>1, <1>2 DEF Entry, Ram, Flags
<1>4. r.numFresh \in Int /\ r.numInuse \in Int
  BY <1>0 DEF Ram
<1>5. /\ q.numFresh = r.numFresh + (IF "fresh" \in q.flags[b] THEN 1 ELSE 0)
                                 - (IF "fresh" \in r.flags[b] THEN 1 ELSE 0)
      /\ q.numInuse >= r.numInuse + (IF "inuse" \in q.flags[b] THEN 1 ELSE 0)
                                  - (IF "inuse" \in r.flags[b] THEN 1 ELSE 0)
      /\ "fresh" \in q.flags[b] => q.flags[b] = {"fresh"}
      /\ "inuse" \in q.flags[b] => q.free[b] > HdrSize
  BY <1>2, <1>3, <1>4
<1>6. RamOk(q)
  BY <1>3, <1>5, EntryRight, Zenon
<1> QED
  BY <1>3, <1>6 DEF q

LEMMA SetDirty ==
    ASSUME NEW r, RamOk(r), NEW b \in Blocks, "fresh" \notin r.flags[b]
    PROVE  LET q == kv_blk_set_dirty(r, b)
           IN  /\ RamOk(q) /\ Entry(r, q, b) /\ q.flags[b] = r.flags[b] \cup {"dirty"}
               /\ q.free = r.free
<1> DEFINE q == kv_blk_set_dirty(r, b)
<1>0. r \in Ram
  BY DEF RamOk
<1>1. q = [flags |-> [r.flags EXCEPT ![b] = r.flags[b] \cup {"dirty"}], free |-> r.free,
           numFresh |-> r.numFresh, numInuse |-> r.numInuse, workspace |-> r.workspace]
  BY <1>0 DEF kv_blk_set_dirty, Ram
<1>2. /\ q.flags = [r.flags EXCEPT ![b] = r.flags[b] \cup {"dirty"}] /\ q.free = r.free
      /\ q.numInuse = r.numInuse /\ q.numFresh = r.numFresh /\ q.workspace = r.workspace
  BY <1>1
<1> HIDE DEF q
<1>3. Entry(r, q, b) /\ q.flags[b] = r.flags[b] \cup {"dirty"} /\ q.free = r.free
  BY <1>0, <1>1, <1>2 DEF Entry, Ram, Flags
<1>4. r.numFresh \in Int /\ r.numInuse \in Int
  BY <1>0 DEF Ram
<1>5. "inuse" \in q.flags[b] => q.free[b] > HdrSize
  BY <1>3 DEF RamOk, FlagsRight
<1>6. /\ q.numFresh = r.numFresh + (IF "fresh" \in q.flags[b] THEN 1 ELSE 0)
                                 - (IF "fresh" \in r.flags[b] THEN 1 ELSE 0)
      /\ q.numInuse >= r.numInuse + (IF "inuse" \in q.flags[b] THEN 1 ELSE 0)
                                  - (IF "inuse" \in r.flags[b] THEN 1 ELSE 0)
      /\ "fresh" \in q.flags[b] => q.flags[b] = {"fresh"}
      /\ "inuse" \in q.flags[b] => q.free[b] > HdrSize
  BY <1>2, <1>3, <1>4, <1>5 DEF RamOk, FlagsRight
<1>7. RamOk(q)
  BY <1>3, <1>6, EntryRight, Zenon
<1> QED
  BY <1>3, <1>7 DEF q

LEMMA ResetFresh ==
    ASSUME NEW r, RamOk(r), NEW b \in Blocks
    PROVE  LET q == kv_blk_reset_fresh(r, b)
           IN  /\ RamOk(q) /\ Entry(r, q, b) /\ q.flags[b] = r.flags[b] \ {"fresh"}
               /\ q.free = r.free
<1> DEFINE q == kv_blk_reset_fresh(r, b)
<1>0. r \in Ram
  BY DEF RamOk
<1>a. PICK n \in Int : n = IF "fresh" \in r.flags[b] THEN r.numFresh - 1 ELSE r.numFresh
  BY <1>0 DEF Ram
<1>b. q = [r EXCEPT !.numFresh = n, !.flags[b] = @ \ {"fresh"}]
  BY <1>a, Zenon DEF kv_blk_reset_fresh
<1>1. q = [flags |-> [r.flags EXCEPT ![b] = r.flags[b] \ {"fresh"}], free |-> r.free,
           numFresh |-> n,
           numInuse |-> r.numInuse, workspace |-> r.workspace]
  BY <1>0, <1>b DEF Ram
<1>2. /\ q.flags = [r.flags EXCEPT ![b] = r.flags[b] \ {"fresh"}] /\ q.free = r.free
      /\ q.numFresh = IF "fresh" \in r.flags[b] THEN r.numFresh - 1 ELSE r.numFresh
      /\ q.numInuse = r.numInuse /\ q.workspace = r.workspace
  BY <1>a, <1>1
<1> HIDE DEF q
<1>3. Entry(r, q, b) /\ q.flags[b] = r.flags[b] \ {"fresh"} /\ q.free = r.free
  BY <1>0, <1>1, <1>2 DEF Entry, Ram, Flags
<1>4. r.numFresh \in Int /\ r.numInuse \in Int
  BY <1>0 DEF Ram
<1>5. "inuse" \in q.flags[b] => q.free[b] > HdrSize
  BY <1>3 DEF RamOk, FlagsRight
<1>6. /\ q.numFresh = r.numFresh + (IF "fresh" \in q.flags[b] THEN 1 ELSE 0)
                                 - (IF "fresh" \in r.flags[b] THEN 1 ELSE 0)
      /\ q.numInuse >= r.numInuse + (IF "inuse" \in q.flags[b] THEN 1 ELSE 0)
                                  - (IF "inuse" \in r.flags[b] THEN 1 ELSE 0)
      /\ "fresh" \in q.flags[b] => q.flags[b] = {"fresh"}
      /\ "inuse" \in q.flags[b] => q.free[b] > HdrSize
  BY <1>2, <1>3, <1>4, <1>5 DEF RamOk, FlagsRight
<1>7. RamOk(q)
  BY <1>3, <1>6, EntryRight, Zenon
<1> QED
  BY <1>3, <1>7 DEF q

LEMMA ResetInuse ==
    ASSUME NEW r, RamOk(r), NEW b \in Blocks
    PROVE  LET q == kv_blk_reset_inuse(r, b)
           IN  /\ RamOk(q) /\ Entry(r, q, b) /\ q.flags[b] = r.flags[b] \ {"inuse"}
               /\ q.free = r.free
<1> DEFINE q == kv_blk_reset_inuse(r, b)
<1>0. r \in Ram
  BY DEF RamOk
<1>a. PICK n \in Int : n = IF "inuse" \in r.flags[b] THEN r.numInuse - 1 ELSE r.numInuse
  BY <1>0 DEF Ram
<1>b. q = [r EXCEPT !.numInuse = n, !.flags[b] = @ \ {"inuse"}]
  BY <1>a, Zenon DEF kv_blk_reset_inuse
<1>1. q = [flags |-> [r.flags EXCEPT ![b] = r.flags[b] \ {"inuse"}], free |-> r.free,
           numFresh |-> r.numFresh,
           numInuse |-> n,
           workspace |-> r.workspace]
  BY <1>0, <1>b DEF Ram
<1>2. /\ q.flags = [r.flags EXCEPT ![b] = r.flags[b] \ {"inuse"}] /\ q.free = r.free
      /\ q.numInuse = IF "inuse" \in r.flags[b] THEN r.numInuse - 1 ELSE r.numInuse
      /\ q.numFresh = r.numFresh /\ q.workspace = r.workspace
  BY <1>a, <1>1
<1> HIDE DEF q
<1>3. Entry(r, q, b) /\ q.flags[b] = r.flags[b] \ {"inuse"} /\ q.free = r.free
  BY <1>0, <1>1, <1>2 DEF Entry, Ram, Flags
<1>4. r.numFresh \in Int /\ r.numInuse \in Int
  BY <1>0 DEF Ram
<1>5. "fresh" \in q.flags[b] => q.flags[b] = {"fresh"}
  BY <1>3 DEF RamOk, FlagsRight
<1>6. /\ q.numFresh = r.numFresh + (IF "fresh" \in q.flags[b] THEN 1 ELSE 0)
                                 - (IF "fresh" \in r.flags[b] THEN 1 ELSE 0)
      /\ q.numInuse >= r.numInuse + (IF "inuse" \in q.flags[b] THEN 1 ELSE 0)
                                  - (IF "inuse" \in r.flags[b] THEN 1 ELSE 0)
      /\ "fresh" \in q.flags[b] => q.flags[b] = {"fresh"}
      /\ "inuse" \in q.flags[b] => q.free[b] > HdrSize
  BY <1>2, <1>3, <1>4, <1>5 DEF RamOk, FlagsRight
<1>7. RamOk(q)
  BY <1>3, <1>6, EntryRight, Zenon
<1> QED
  BY <1>3, <1>7 DEF q

\* A smaller free size; of a block inuse it may be too small for that flag.
LEMMA Reduce ==
    ASSUME NEW r, r \in Ram, NEW b \in Blocks, NEW size \in Int
    PROVE  LET q == kv_blk_freesz_reduce(r, b, size)
           IN  /\ Entry(r, q, b) /\ q.flags = r.flags /\ q.free[b] = r.free[b] - size
               /\ q.numFresh = r.numFresh /\ q.numInuse = r.numInuse
               /\ Fresh(q) = Fresh(r) /\ Inuse(q) = Inuse(r)
<1> DEFINE q == kv_blk_freesz_reduce(r, b, size)
<1>1. q = [flags |-> r.flags, free |-> [r.free EXCEPT ![b] = r.free[b] - size],
           numFresh |-> r.numFresh, numInuse |-> r.numInuse, workspace |-> r.workspace]
  BY DEF kv_blk_freesz_reduce, Ram
<1>2. /\ q.flags = r.flags /\ q.free = [r.free EXCEPT ![b] = r.free[b] - size]
      /\ q.numInuse = r.numInuse /\ q.numFresh = r.numFresh /\ q.workspace = r.workspace
  BY <1>1
<1> HIDE DEF q
<1>3. Entry(r, q, b) /\ q.free[b] = r.free[b] - size
  BY <1>1, <1>2 DEF Entry, Ram
<1> QED
  BY <1>2, <1>3 DEF q, Fresh, Inuse

\* The sizes of two finite sets and of their union
LEMMA UnionSize ==
    ASSUME NEW S, NEW T, IsFiniteSet(S), IsFiniteSet(T)
    PROVE  /\ IsFiniteSet(S \cup T) /\ Cardinality(S \cup T) \in Nat
           /\ Cardinality(S) \in Nat /\ Cardinality(T) \in Nat
           /\ Cardinality(S \cup T) <= Cardinality(S) + Cardinality(T)
           /\ S \cap T = {} => Cardinality(S \cup T) = Cardinality(S) + Cardinality(T)
<1>1. IsFiniteSet(S \cup T) /\ IsFiniteSet(S \cap T)
  BY FS_Union, FS_Intersection
<1>2. /\ Cardinality(S) \in Nat /\ Cardinality(T) \in Nat
      /\ Cardinality(S \cup T) \in Nat /\ Cardinality(S \cap T) \in Nat
  BY <1>1, FS_CardinalityType
<1>3. Cardinality(S \cup T) = Cardinality(S) + Cardinality(T) - Cardinality(S \cap T)
  BY FS_Union
<1>4. S \cap T = {} => Cardinality(S \cap T) = 0
  BY FS_EmptySet
<1> QED
  BY <1>1, <1>2, <1>3, <1>4

\* Sizes and the end of a walk are numbers.
LEMMA Sizes ==
    /\ \A v \in Vals : ItemSize(v) \in Nat /\ ItemSize(v) > HdrSize
    /\ \A s \in Slot : Extent(s) \in Nat \ {0} /\ s.off \in Nat /\ s.val \in Vals
    /\ \A blk \in Block : WalkEnd(blk) \in Nat
<1>1. \A v \in Vals : ItemSize(v) \in Nat /\ ItemSize(v) > HdrSize
  <2> TAKE v \in Vals
  <2>1. BodySize[v] \in Nat \ {0} /\ HdrSize \in Nat
    BY KvSizes
  <2> QED
    BY <2>1 DEF ItemSize
<1>2. \A s \in Slot : Extent(s) \in Nat \ {0} /\ s.off \in Nat /\ s.val \in Vals
  BY <1>1, BlocksNat DEF Slot, Extent
<1>3. \A blk \in Block : WalkEnd(blk) \in Nat
  <2> TAKE blk \in Block
  <2>1. blk.items \in Seq(Slot)
    BY DEF Block
  <2>2. CASE blk.items = << >>
    BY <2>2 DEF WalkEnd
  <2>3. CASE blk.items # << >>
    <3> DEFINE s == blk.items[Len(blk.items)]
    <3>1. s \in Slot
      BY <2>1, <2>3
    <3>2. WalkEnd(blk) = s.off + Extent(s)
      BY <2>3 DEF WalkEnd
    <3> HIDE DEF s
    <3> QED
      BY <1>2, <3>1, <3>2
  <2> QED
    BY <2>2, <2>3
<1> QED
  BY <1>1, <1>2, <1>3

\* What a walk finds out about a block that is blank if it is fresh
LEMMA WalkOne ==
    ASSUME NEW r, RamOk(r), NEW f \in [Blocks -> Block], NEW b \in Blocks,
           "fresh" \in r.flags[b] => f[b].items = << >>
    PROVE  /\ WalkFlags(r, f, b) \subseteq Flags /\ WalkFree(f, b) \in Int
           /\ "fresh" \in WalkFlags(r, f, b) <=> f[b].items = << >>
           /\ "fresh" \in WalkFlags(r, f, b) =>
                  WalkFlags(r, f, b) = {"fresh"} /\ WalkFree(f, b) = BlkFresh
           /\ "inuse" \in WalkFlags(r, f, b) => WalkFree(f, b) > HdrSize
           /\ WalkFree(f, b) > HdrSize => WalkFree(f, b) = BlkFresh - WalkEnd(f[b])
           /\ f[b].items # << >> => WalkFree(f, b) = IF WalkEnd(f[b]) + HdrSize < BlkFresh
                                                     THEN BlkFresh - WalkEnd(f[b]) ELSE 0
<1>0. /\ WalkEnd(f[b]) \in Nat /\ HdrSize \in Nat /\ BlkFresh \in Nat
      /\ r.flags[b] \subseteq Flags
  BY Sizes, BlocksNat DEF RamOk, Ram
<1>1. CASE f[b].items = << >>
  <2>1. WalkFlags(r, f, b) = {"fresh"} /\ WalkFree(f, b) = BlkFresh /\ WalkEnd(f[b]) = 0
    BY <1>1 DEF WalkFlags, WalkFree, WalkEnd
  <2> QED
    BY <1>0, <1>1, <2>1 DEF Flags
<1>2. CASE f[b].items # << >>
  <2>0. "fresh" \notin r.flags[b]
    BY <1>2
  <2>1. PICK seen : /\ seen = IF DirtUpTo(f[b], Len(f[b].items))
                              THEN r.flags[b] \cup {"dirty"} ELSE r.flags[b]
                    /\ WalkFlags(r, f, b) = IF WalkEnd(f[b]) + HdrSize < BlkFresh
                                            THEN seen \cup {"inuse"} ELSE seen \ {"inuse"}
    BY <1>2, Zenon DEF WalkFlags
  <2>2. seen \subseteq Flags /\ "fresh" \notin seen
    BY <1>0, <2>0, <2>1 DEF Flags
  <2>3. WalkFree(f, b) = IF WalkEnd(f[b]) + HdrSize < BlkFresh
                         THEN BlkFresh - WalkEnd(f[b]) ELSE 0
    BY <1>2 DEF WalkFree
  <2> QED
    BY <1>0, <1>2, <2>1, <2>2, <2>3 DEF Flags
<1> QED
  BY <1>1, <1>2

\* The walks of a set of blocks leave an index that describes each of them.
LEMMA WalkAllRight ==
    ASSUME NEW r, RamOk(r), NEW f \in [Blocks -> Block], NEW W \in SUBSET Blocks,
           \A b \in W : "fresh" \in r.flags[b] => f[b].items = << >>
    PROVE  LET q == WalkAll(r, f, W)
           IN  /\ RamOk(q) /\ q.workspace = r.workspace
               /\ \A b \in Blocks \ W : q.flags[b] = r.flags[b] /\ q.free[b] = r.free[b]
               /\ \A b \in W : /\ Describes(q, f, b)
                               /\ q.flags[b] = WalkFlags(r, f, b) /\ q.free[b] = WalkFree(f, b)
<1> DEFINE q == WalkAll(r, f, W)
           gains == {b \in W : f[b].items = << >> /\ "fresh" \notin r.flags[b]}
           starts == {b \in W : /\ f[b].items # << >> /\ "inuse" \notin r.flags[b]
                                /\ "inuse" \in WalkFlags(r, f, b)}
           stops == {b \in W : /\ f[b].items # << >> /\ "inuse" \in r.flags[b]
                               /\ "inuse" \notin WalkFlags(r, f, b)}
<1>0. r \in Ram /\ Counted(r) /\ FlagsRight(r)
  BY DEF RamOk
<1>1. /\ q.flags = [b \in Blocks |-> IF b \in W THEN WalkFlags(r, f, b) ELSE r.flags[b]]
      /\ q.free = [b \in Blocks |-> IF b \in W THEN WalkFree(f, b) ELSE r.free[b]]
      /\ q.numFresh = r.numFresh + Cardinality(gains)
      /\ q.numInuse = r.numInuse + Cardinality(starts) - Cardinality(stops)
      /\ q.workspace = r.workspace
      /\ q = [flags |-> q.flags, free |-> q.free, numFresh |-> q.numFresh,
              numInuse |-> q.numInuse, workspace |-> q.workspace]
  BY DEF WalkAll
<1>2. ASSUME NEW b \in W
      PROVE  /\ WalkFlags(r, f, b) \subseteq Flags /\ WalkFree(f, b) \in Int
             /\ "fresh" \in WalkFlags(r, f, b) <=> f[b].items = << >>
             /\ "fresh" \in WalkFlags(r, f, b) =>
                    WalkFlags(r, f, b) = {"fresh"} /\ WalkFree(f, b) = BlkFresh
             /\ "inuse" \in WalkFlags(r, f, b) => WalkFree(f, b) > HdrSize
             /\ WalkFree(f, b) > HdrSize => WalkFree(f, b) = BlkFresh - WalkEnd(f[b])
  BY WalkOne
<1> HIDE DEF q
<1>3. /\ \A b \in Blocks \ W : q.flags[b] = r.flags[b] /\ q.free[b] = r.free[b]
      /\ \A b \in W : q.flags[b] = WalkFlags(r, f, b) /\ q.free[b] = WalkFree(f, b)
  BY <1>1
<1>4. /\ gains \subseteq Blocks /\ starts \subseteq Blocks /\ stops \subseteq Blocks
      /\ IsFiniteSet(gains) /\ Cardinality(gains) \in Nat
      /\ IsFiniteSet(starts) /\ Cardinality(starts) \in Nat
      /\ IsFiniteSet(stops) /\ Cardinality(stops) \in Nat
  <2>1. gains \subseteq Blocks /\ starts \subseteq Blocks /\ stops \subseteq Blocks
    OBVIOUS
  <2> HIDE DEF gains, starts, stops
  <2> QED
    BY <2>1, BlocksNat, FS_Subset, FS_CardinalityType
<1>5. q \in Ram
  <2>1. q.flags \in [Blocks -> SUBSET Flags] /\ q.free \in [Blocks -> Int]
    BY <1>0, <1>1, <1>2 DEF Ram
  <2>2. q.numFresh \in Int /\ q.numInuse \in Int /\ q.workspace \in Blocks \cup {Invalid, Unset}
    <3> HIDE DEF gains, starts, stops
    <3> QED
      BY <1>0, <1>1, <1>4 DEF Ram
  <2> QED
    BY <1>1, <2>1, <2>2 DEF Ram
<1>6. FlagsRight(q)
  BY <1>0, <1>2, <1>3 DEF FlagsRight
<1>7. /\ IsFiniteSet(Fresh(r)) /\ Cardinality(Fresh(r)) \in Nat
      /\ IsFiniteSet(Inuse(r)) /\ Cardinality(Inuse(r)) \in Nat
      /\ IsFiniteSet(Inuse(q)) /\ Cardinality(Inuse(q)) \in Nat
  BY <1>0, <1>5, FlagSets
<1>8. q.numFresh = Cardinality(Fresh(q))
  <2>1. Fresh(q) = Fresh(r) \cup gains /\ Fresh(r) \cap gains = {}
    BY <1>2, <1>3 DEF Fresh
  <2> HIDE DEF gains
  <2>2. Cardinality(Fresh(q)) = Cardinality(Fresh(r)) + Cardinality(gains)
    BY <1>4, <1>7, <2>1, UnionSize
  <2> QED
    BY <1>0, <1>1, <2>2 DEF Counted
<1>9. q.numInuse >= Cardinality(Inuse(q))
  <2>1. stops \subseteq Inuse(r)
    BY DEF Inuse
  <2>2. ASSUME NEW b \in Inuse(q) PROVE b \in (Inuse(r) \ stops) \cup starts
    <3>1. CASE b \in W
      <4>1. b \in Blocks /\ "inuse" \in WalkFlags(r, f, b)
        BY <1>3, <3>1 DEF Inuse
      <4>2. f[b].items # << >>
        BY <1>2, <3>1, <4>1
      <4> QED
        BY <3>1, <4>1, <4>2 DEF Inuse
    <3>2. CASE b \notin W
      BY <1>3, <3>2 DEF Inuse
    <3> QED
      BY <3>1, <3>2
  <2> HIDE DEF starts, stops
  <2> DEFINE rest == Inuse(r) \ stops
  <2>3. /\ IsFiniteSet(rest) /\ rest \cup stops = Inuse(r) /\ rest \cap stops = {}
        /\ Inuse(q) \subseteq rest \cup starts
    BY <1>7, <2>1, <2>2, FS_Subset
  <2> HIDE DEF rest
  <2>4. /\ Cardinality(Inuse(r)) = Cardinality(rest) + Cardinality(stops)
        /\ Cardinality(rest) \in Nat
    BY <1>4, <2>3, UnionSize
  <2>5. /\ Cardinality(rest \cup starts) <= Cardinality(rest) + Cardinality(starts)
        /\ Cardinality(rest \cup starts) \in Nat /\ IsFiniteSet(rest \cup starts)
    BY <1>4, <2>3, UnionSize
  <2>6. Cardinality(Inuse(q)) <= Cardinality(rest \cup starts)
    BY <2>3, <2>5, FS_Subset
  <2>7. r.numInuse \in Int /\ r.numInuse >= Cardinality(Inuse(r))
    BY <1>0 DEF Ram, Counted
  <2> QED
    BY <1>1, <1>4, <1>7, <2>4, <2>5, <2>6, <2>7
<1>10. \A b \in W : Describes(q, f, b)
  <2> TAKE b \in W
  <2>1. (b \in Fresh(q) <=> "fresh" \in q.flags[b]) /\ (b \in Dirty(q) <=> "dirty" \in q.flags[b])
    BY DEF Fresh, Dirty
  <2> QED
    BY <1>2, <1>3, <2>1 DEF Describes
<1> QED
  BY <1>1, <1>3, <1>5, <1>6, <1>8, <1>9, <1>10 DEF RamOk, Counted, q

\* kv_item_find leaves an index that describes the flash, with the free sizes that it
\* found.
LEMMA FindRamRight ==
    ASSUME NEW r, RamOk(r), NEW f \in [Blocks -> Block], NEW match \in [Blocks -> SUBSET Nat],
           \A b \in Blocks : match[b] \subseteq DOMAIN f[b].items,
           \A b \in Blocks : Describes(r, f, b)
    PROVE  LET q == FindRam(r, f, match)
           IN  /\ RamOk(q) /\ q.workspace = r.workspace
               /\ \A b \in Blocks : /\ Describes(q, f, b)
                                    /\ r.free[b] > HdrSize => q.free[b] = r.free[b]
                                    /\ b \in Fresh(q) <=> b \in Fresh(r) \/
                                           (f[b].items = << >> /\ b < FindItem(r, match)[1])
<1> DEFINE at == FindItem(r, match)
           W == {b \in Blocks \ Fresh(r) : b < at[1]}
           w == WalkAll(r, f, W)
<1>0. \/ at = NoItem
      \/ \E b \in Blocks \ Fresh(r) : \E i \in match[b] : at = <<b, i>> /\ at # NoItem
  BY Found
<1>1. W \in SUBSET Blocks /\ \A b \in W : "fresh" \notin r.flags[b]
  BY DEF Fresh
<1> HIDE DEF at
<1>2. /\ RamOk(w) /\ w.workspace = r.workspace
      /\ \A b \in Blocks \ W : w.flags[b] = r.flags[b] /\ w.free[b] = r.free[b]
      /\ \A b \in W : /\ Describes(w, f, b)
                      /\ w.flags[b] = WalkFlags(r, f, b) /\ w.free[b] = WalkFree(f, b)
  <2> HIDE DEF W
  <2> QED
    BY <1>1, WalkAllRight
<1>3. ASSUME NEW b \in W, r.free[b] > HdrSize PROVE w.free[b] = r.free[b]
  <2>1. b \in Blocks /\ "fresh" \notin r.flags[b] /\ WalkEnd(f[b]) \in Nat
    BY <1>1, Sizes
  <2>2. r.free[b] = BlkFresh - WalkEnd(f[b])
    BY <1>3, <2>1 DEF Describes
  <2>3. WalkFree(f, b) = BlkFresh - WalkEnd(f[b])
    BY <1>3, <2>1, <2>2, BlocksNat DEF WalkFree, WalkEnd
  <2> QED
    BY <1>2, <2>2, <2>3
<1>4. ASSUME NEW b \in Blocks
      PROVE  /\ Describes(w, f, b)
             /\ r.free[b] > HdrSize => w.free[b] = r.free[b]
             /\ "fresh" \in w.flags[b] <=> "fresh" \in r.flags[b] \/ (f[b].items = << >> /\ b \in W)
  <2>1. CASE b \in W
    <3>1. "fresh" \in WalkFlags(r, f, b) <=> f[b].items = << >>
      BY <1>1, <2>1, WalkOne
    <3> QED
      BY <1>1, <1>2, <1>3, <2>1, <3>1
  <2>2. CASE b \notin W
    <3>1. w.flags[b] = r.flags[b] /\ w.free[b] = r.free[b] /\ Describes(r, f, b)
      BY <1>2, <2>2
    <3> QED
      BY <2>2, <3>1 DEF Describes, Fresh, Dirty
  <2> QED
    BY <2>1, <2>2
<1>5. \A b \in Blocks : "fresh" \in r.flags[b] \/ (f[b].items = << >> /\ b \in W) <=>
                        b \in Fresh(r) \/ (f[b].items = << >> /\ b < at[1])
  BY DEF Fresh
<1>6. CASE FindRam(r, f, match) = w
  <2> HIDE DEF w
  <2>1. \A b \in Blocks : b \in Fresh(w) <=> "fresh" \in w.flags[b]
    BY DEF Fresh
  <2> QED
    BY <1>2, <1>4, <1>5, <1>6, <2>1 DEF at
<1>7. CASE FindRam(r, f, match) = kv_blk_set_dirty(w, at[1]) /\ at # NoItem
  <2>1. PICK b \in Blocks \ Fresh(r) : \E i \in match[b] : at = <<b, i>>
    BY <1>0, <1>7
  <2>2. b = at[1] /\ b \in Blocks /\ f[b].items # << >>
    <3>1. PICK i \in match[b] : at = <<b, i>>
      BY <2>1
    <3>2. i \in DOMAIN f[b].items
      BY <3>1
    <3> QED
      BY <3>1, <3>2
  <2> DEFINE q == kv_blk_set_dirty(w, b)
  <2> HIDE DEF w, W
  <2>3. "fresh" \notin w.flags[b]
    BY <1>4, <2>1, <2>2 DEF Fresh
  <2>4. /\ RamOk(q) /\ Entry(w, q, b) /\ q.flags[b] = w.flags[b] \cup {"dirty"}
        /\ q.free = w.free
    BY <1>2, <2>2, <2>3, SetDirty
  <2> HIDE DEF q
  <2>5. ASSUME NEW c \in Blocks
        PROVE  /\ "fresh" \in q.flags[c] <=> "fresh" \in w.flags[c]
               /\ q.free[c] = w.free[c]
               /\ "dirty" \in q.flags[c] => "dirty" \in w.flags[c] \/ f[c].items # << >>
    BY <2>2, <2>4 DEF Entry
  <2>6. \A c \in Blocks : Describes(q, f, c)
    BY <1>4, <2>5 DEF Describes, Fresh, Dirty
  <2>7. \A c \in Blocks : c \in Fresh(q) <=> "fresh" \in q.flags[c]
    BY DEF Fresh
  <2>8. FindRam(r, f, match) = q /\ q.workspace = r.workspace
    BY <1>2, <1>7, <2>2, <2>4 DEF q, Entry
  <2>9. \A c \in Blocks : /\ r.free[c] > HdrSize => q.free[c] = r.free[c]
                          /\ c \in Fresh(q) <=> c \in Fresh(r) \/
                                 (f[c].items = << >> /\ c < at[1])
    BY <1>4, <1>5, <2>5, <2>7
  <2> QED
    BY <2>4, <2>6, <2>8, <2>9 DEF at
<1> QED
  <2>1. FindRam(r, f, match) = IF at # NoItem /\ DirtUpTo(f[at[1]], at[2] - 1)
                               THEN kv_blk_set_dirty(w, at[1]) ELSE w
    BY Zenon DEF FindRam, at
  <2> HIDE DEF w
  <2> QED
    BY <1>6, <1>7, <2>1, Zenon

\* The two searches
LEMMA Matches ==
    ASSUME NEW f \in [Blocks -> Block]
    PROVE  /\ \A k : /\ KeyMatch(f, k) \in [Blocks -> SUBSET Nat]
                     /\ \A b \in Blocks : KeyMatch(f, k)[b] \subseteq DOMAIN f[b].items
           /\ \A s : /\ CopyMatch(f, s) \in [Blocks -> SUBSET Nat]
                     /\ \A b \in Blocks : CopyMatch(f, s)[b] \subseteq DOMAIN f[b].items
<1>1. \A b \in Blocks : DOMAIN f[b].items \subseteq Nat
  BY DEF Block
<1> QED
  BY <1>1 DEF KeyMatch, CopyMatch

-----------------------------------------------------------------------------
(* The layout of a block                                                     *)

\* Two blocks whose items have the same offsets, stages and values
Alike(x, y) == /\ x \in Block /\ y \in Block /\ Len(y.items) = Len(x.items)
               /\ \A i \in 1 .. Len(x.items) : /\ y.items[i].off = x.items[i].off
                                               /\ y.items[i].st = x.items[i].st
                                               /\ y.items[i].val = x.items[i].val

LEMMA ItemsOf ==
    ASSUME NEW x \in Block
    PROVE  /\ x.items \in Seq(Slot) /\ Len(x.items) \in Nat /\ DOMAIN x.items = 1 .. Len(x.items)
           /\ x.items = << >> <=> Len(x.items) = 0
           /\ \A i \in 1 .. Len(x.items) : /\ x.items[i] \in Slot /\ x.items[i].off \in Nat
                                           /\ Extent(x.items[i]) \in Nat \ {0}
           /\ x.items # << >> => /\ Len(x.items) \in 1 .. Len(x.items)
                                 /\ LastItem(x) \in Slot
                                 /\ WalkEnd(x) = LastItem(x).off + Extent(LastItem(x))
           /\ x.items = << >> => WalkEnd(x) = 0
<1>1. x.items \in Seq(Slot)
  BY DEF Block
<1>2. /\ Len(x.items) \in Nat /\ DOMAIN x.items = 1 .. Len(x.items)
      /\ x.items = << >> <=> Len(x.items) = 0
      /\ \A i \in 1 .. Len(x.items) : x.items[i] \in Slot
  BY <1>1
<1>3. x.items # << >> => Len(x.items) \in 1 .. Len(x.items) /\ LastItem(x) \in Slot
  BY <1>2 DEF LastItem
<1>4. /\ x.items # << >> => WalkEnd(x) = LastItem(x).off + Extent(LastItem(x))
      /\ x.items = << >> => WalkEnd(x) = 0
  BY DEF WalkEnd, LastItem
<1> QED
  BY <1>1, <1>2, <1>3, <1>4, Sizes

LEMMA AlikeSame ==
    ASSUME NEW x, NEW y, Alike(x, y)
    PROVE  /\ WalkEnd(y) = WalkEnd(x) /\ (LaidOut(x) => LaidOut(y))
           /\ y.items = << >> <=> x.items = << >>
           /\ \A i \in 1 .. Len(x.items) : Extent(y.items[i]) = Extent(x.items[i])
<1>0. x \in Block /\ y \in Block /\ Len(y.items) = Len(x.items)
  BY DEF Alike
<1>1. /\ DOMAIN x.items = 1 .. Len(x.items) /\ DOMAIN y.items = 1 .. Len(x.items)
      /\ Len(x.items) \in Nat
      /\ x.items = << >> <=> Len(x.items) = 0
      /\ y.items = << >> <=> Len(x.items) = 0
  BY <1>0, ItemsOf
<1>2. \A i \in 1 .. Len(x.items) : Extent(y.items[i]) = Extent(x.items[i])
  BY DEF Alike, Extent, Legal
<1>3. WalkEnd(y) = WalkEnd(x)
  <2>1. CASE x.items = << >>
    BY <1>0, <1>1, <2>1, ItemsOf
  <2>2. CASE x.items # << >>
    <3>1. Len(x.items) \in 1 .. Len(x.items)
      BY <1>1, <2>2
    <3>2. LastItem(y).off = LastItem(x).off /\ Extent(LastItem(y)) = Extent(LastItem(x))
      BY <1>0, <1>2, <3>1 DEF Alike, LastItem
    <3> QED
      BY <1>0, <1>1, <2>2, <3>2, ItemsOf
  <2> QED
    BY <2>1, <2>2
<1>4. y.items = << >> <=> x.items = << >>
  BY <1>0, ItemsOf
<1>5. ASSUME LaidOut(x) PROVE LaidOut(y)
  <2>1. ASSUME NEW i \in DOMAIN y.items
        PROVE  y.items[i].off = IF i = 1 THEN 0
                                ELSE y.items[i - 1].off + Extent(y.items[i - 1])
    <3>1. CASE i = 1
      BY <1>1, <1>5, <2>1, <3>1 DEF LaidOut, Alike
    <3>2. CASE i # 1
      <4>1. i \in DOMAIN x.items /\ i - 1 \in 1 .. Len(x.items)
        BY <1>1, <3>2
      <4>2. x.items[i].off = x.items[i - 1].off + Extent(x.items[i - 1])
        BY <1>5, <3>2, <4>1 DEF LaidOut
      <4> QED
        BY <1>1, <1>2, <3>2, <4>1, <4>2 DEF Alike
    <3> QED
      BY <3>1, <3>2
  <2>2. ASSUME NEW i \in DOMAIN y.items, NEW j \in DOMAIN y.items, i < j
        PROVE  y.items[i].off + Extent(y.items[i]) <= y.items[j].off
    BY <1>1, <1>2, <1>5, <2>2 DEF LaidOut, Alike
  <2> QED
    BY <1>3, <1>5, <2>1, <2>2 DEF LaidOut
<1> QED
  BY <1>2, <1>3, <1>4, <1>5

\* An item written behind the last one
LEMMA Appended ==
    ASSUME NEW x \in Block, NEW y \in Block, NEW s \in Slot, LaidOut(x),
           y.items = Append(x.items, s), s.off = WalkEnd(x), s.off + Extent(s) <= BlkFresh
    PROVE  /\ LaidOut(y) /\ y.items # << >> /\ LastItem(y) = s /\ WalkEnd(y) = s.off + Extent(s)
           /\ Len(y.items) = Len(x.items) + 1
           /\ \A i \in 1 .. Len(x.items) : y.items[i] = x.items[i]
<1>1. /\ Len(y.items) = Len(x.items) + 1 /\ y.items[Len(y.items)] = s /\ y.items # << >>
      /\ \A i \in 1 .. Len(x.items) : y.items[i] = x.items[i]
      /\ Len(x.items) \in Nat
  BY ItemsOf
<1>2. LastItem(y) = s /\ WalkEnd(y) = s.off + Extent(s)
  BY <1>1 DEF LastItem, WalkEnd
<1>3. \A i \in 1 .. Len(x.items) : x.items[i].off + Extent(x.items[i]) <= s.off
  <2> TAKE i \in 1 .. Len(x.items)
  <2>1. /\ DOMAIN x.items = 1 .. Len(x.items) /\ Len(x.items) \in 1 .. Len(x.items)
        /\ WalkEnd(x) = LastItem(x).off + Extent(LastItem(x))
        /\ x.items[i].off \in Nat /\ Extent(x.items[i]) \in Nat
        /\ LastItem(x) = x.items[Len(x.items)]
        /\ x.items[Len(x.items)].off \in Nat /\ Extent(x.items[Len(x.items)]) \in Nat
    <3>1. Len(x.items) \in 1 .. Len(x.items) /\ x.items # << >>
      BY <1>1, ItemsOf
    <3> QED
      BY <3>1, ItemsOf DEF LastItem
  <2>2. CASE i = Len(x.items)
    BY <2>1, <2>2
  <2>3. CASE i < Len(x.items)
    <3>1. x.items[i].off + Extent(x.items[i]) <= x.items[Len(x.items)].off
      BY <2>1, <2>3 DEF LaidOut
    <3> QED
      BY <2>1, <3>1
  <2> QED
    BY <1>1, <2>2, <2>3
<1>4. ASSUME NEW i \in DOMAIN y.items
      PROVE  y.items[i].off = IF i = 1 THEN 0 ELSE y.items[i - 1].off + Extent(y.items[i - 1])
  <2>0. i \in 1 .. Len(x.items) + 1 /\ DOMAIN x.items = 1 .. Len(x.items)
    BY <1>1, ItemsOf
  <2>1. CASE i \in 1 .. Len(x.items)
    <3>1. x.items[i].off = IF i = 1 THEN 0 ELSE x.items[i - 1].off + Extent(x.items[i - 1])
      BY <2>0, <2>1 DEF LaidOut
    <3>2. i # 1 => i - 1 \in 1 .. Len(x.items)
      BY <1>1, <2>1
    <3> QED
      BY <1>1, <2>1, <3>1, <3>2
  <2>2. CASE i = Len(x.items) + 1
    <3>1. CASE Len(x.items) = 0
      <4>1. WalkEnd(x) = 0
        BY <3>1, ItemsOf
      <4> QED
        BY <1>1, <2>2, <3>1, <4>1
    <3>2. CASE Len(x.items) # 0
      <4>1. /\ i # 1 /\ i - 1 \in 1 .. Len(x.items) /\ i - 1 = Len(x.items)
            /\ y.items[i - 1] = LastItem(x) /\ y.items[i] = s
        BY <1>1, <2>2, <3>2 DEF LastItem
      <4>2. WalkEnd(x) = LastItem(x).off + Extent(LastItem(x))
        BY <3>2, ItemsOf
      <4> QED
        BY <4>1, <4>2
    <3> QED
      BY <3>1, <3>2
  <2> QED
    BY <1>1, <2>0, <2>1, <2>2
<1>5. ASSUME NEW i \in DOMAIN y.items, NEW j \in DOMAIN y.items, i < j
      PROVE  y.items[i].off + Extent(y.items[i]) <= y.items[j].off
  <2>0. i \in 1 .. Len(x.items) /\ j \in 1 .. Len(x.items) + 1 /\ DOMAIN x.items = 1 .. Len(x.items)
    BY <1>1, <1>5, ItemsOf
  <2>1. CASE j = Len(x.items) + 1
    BY <1>1, <1>3, <2>0, <2>1
  <2>2. CASE j \in 1 .. Len(x.items)
    BY <1>1, <1>5, <2>0, <2>2 DEF LaidOut
  <2> QED
    BY <1>1, <2>0, <2>1, <2>2
<1>6. LaidOut(y)
  BY <1>2, <1>4, <1>5 DEF LaidOut
<1> QED
  BY <1>1, <1>2, <1>6

\* The last item takes its next stage; its extent grows with the magic word.
LEMMA Staged ==
    ASSUME NEW x \in Block, NEW y \in Block, LaidOut(x), x.items # << >>,
           Len(y.items) = Len(x.items),
           \A i \in 1 .. Len(x.items) - 1 : y.items[i] = x.items[i],
           LastItem(y).off = LastItem(x).off,
           LastItem(y).off + Extent(LastItem(y)) <= BlkFresh
    PROVE  /\ LaidOut(y) /\ y.items # << >>
           /\ WalkEnd(y) = LastItem(y).off + Extent(LastItem(y))
<1>1. /\ DOMAIN x.items = 1 .. Len(x.items) /\ DOMAIN y.items = 1 .. Len(x.items)
      /\ Len(x.items) \in Nat \ {0} /\ y.items # << >>
      /\ WalkEnd(y) = LastItem(y).off + Extent(LastItem(y))
  BY ItemsOf
<1>2. \A i \in 1 .. Len(x.items) : y.items[i].off = x.items[i].off
  <2> TAKE i \in 1 .. Len(x.items)
  <2>1. i = Len(x.items) \/ i \in 1 .. Len(x.items) - 1
    BY <1>1
  <2> QED
    BY <2>1 DEF LastItem
<1>3. ASSUME NEW i \in DOMAIN y.items
      PROVE  y.items[i].off = IF i = 1 THEN 0 ELSE y.items[i - 1].off + Extent(y.items[i - 1])
  <2>1. x.items[i].off = IF i = 1 THEN 0 ELSE x.items[i - 1].off + Extent(x.items[i - 1])
    BY <1>1 DEF LaidOut
  <2>2. i # 1 => i - 1 \in 1 .. Len(x.items) - 1
    BY <1>1
  <2> QED
    BY <1>1, <1>2, <2>1, <2>2
<1>4. ASSUME NEW i \in DOMAIN y.items, NEW j \in DOMAIN y.items, i < j
      PROVE  y.items[i].off + Extent(y.items[i]) <= y.items[j].off
  <2>1. i \in 1 .. Len(x.items) - 1
    BY <1>1, <1>4
  <2>2. x.items[i].off + Extent(x.items[i]) <= x.items[j].off
    BY <1>1, <1>4 DEF LaidOut
  <2> QED
    BY <1>1, <1>2, <2>1, <2>2
<1>5. LaidOut(y)
  BY <1>1, <1>3, <1>4 DEF LaidOut
<1> QED
  BY <1>1, <1>5

LEMMA ErasedRight == /\ Erased \in Block /\ LaidOut(Erased) /\ WalkEnd(Erased) = 0
                     /\ Erased.items = << >> /\ Erased.src = FALSE
<1>1. Erased \in Block /\ Erased.items = << >> /\ Erased.src = FALSE
  BY DEF Erased, Block
<1>2. DOMAIN Erased.items = {} /\ WalkEnd(Erased) = 0
  BY <1>1, ItemsOf
<1> QED
  BY <1>1, <1>2, BlocksNat DEF LaidOut

-----------------------------------------------------------------------------
(* The writes: each replaces one block                                       *)

\* Block x, with other items
WithItems(x, y, its) == /\ y \in Block /\ y.items = its
                        /\ y.magic = x.magic /\ y.src = x.src /\ y.dst = x.dst /\ y.done = x.done

\* Records with one field replaced
LEMMA BlockExcept ==
    ASSUME NEW x \in Block, NEW w
    PROVE  /\ [x EXCEPT !.magic = w] = [magic |-> w, src |-> x.src, dst |-> x.dst,
                                        done |-> x.done, items |-> x.items]
           /\ [x EXCEPT !.src = w] = [magic |-> x.magic, src |-> w, dst |-> x.dst,
                                      done |-> x.done, items |-> x.items]
           /\ [x EXCEPT !.dst = w] = [magic |-> x.magic, src |-> x.src, dst |-> w,
                                      done |-> x.done, items |-> x.items]
           /\ [x EXCEPT !.done = w] = [magic |-> x.magic, src |-> x.src, dst |-> x.dst,
                                       done |-> w, items |-> x.items]
           /\ [x EXCEPT !.items = w] = [magic |-> x.magic, src |-> x.src, dst |-> x.dst,
                                        done |-> x.done, items |-> w]
  BY DEF Block

LEMMA SlotExcept ==
    ASSUME NEW s \in Slot, NEW w
    PROVE  /\ [s EXCEPT !.disc = w] = [off |-> s.off, st |-> s.st, key |-> s.key,
                                       val |-> s.val, prev |-> s.prev, disc |-> w]
           /\ [s EXCEPT !.st = w] = [off |-> s.off, st |-> w, key |-> s.key,
                                     val |-> s.val, prev |-> s.prev, disc |-> s.disc]
  BY DEF Slot

LEMMA HeaderPut ==
    ASSUME flash \in [Blocks -> Block], NEW b \in Blocks, NEW s \in Slot
    PROVE  \E y : /\ PutHeader(b, s) = [flash EXCEPT ![b] = y]
                  /\ WithItems(flash[b], y, Append(flash[b].items, s))
<1> DEFINE y == [magic |-> flash[b].magic, src |-> flash[b].src, dst |-> flash[b].dst,
                 done |-> flash[b].done, items |-> Append(flash[b].items, s)]
<1>1. flash[b] \in Block
  OBVIOUS
<1>2. [flash[b] EXCEPT !.items = Append(@, s)] = y
  BY <1>1, BlockExcept, Zenon
<1>3. PutHeader(b, s) = [flash EXCEPT ![b] = y]
  BY <1>2, Zenon DEF PutHeader
<1>4. Append(flash[b].items, s) \in Seq(Slot)
  BY <1>1 DEF Block
<1>5. WithItems(flash[b], y, Append(flash[b].items, s))
  BY <1>1, <1>4 DEF WithItems, Block
<1> QED
  BY <1>3, <1>5, Zenon

LEMMA StagePut ==
    ASSUME flash \in [Blocks -> Block], NEW b \in Blocks, NEW st \in Stages,
           flash[b].items # << >>
    PROVE  \E y : /\ PutStage(b, st) = [flash EXCEPT ![b] = y]
                  /\ WithItems(flash[b], y, y.items)
                  /\ Len(y.items) = Len(flash[b].items) /\ y.items # << >>
                  /\ \A i \in 1 .. Len(y.items) - 1 : y.items[i] = flash[b].items[i]
                  /\ LastItem(y).st = st /\ LastItem(y).off = LastItem(flash[b]).off
                  /\ LastItem(y).key = LastItem(flash[b]).key
                  /\ LastItem(y).val = LastItem(flash[b]).val
                  /\ LastItem(y).prev = LastItem(flash[b]).prev
                  /\ LastItem(y).disc = LastItem(flash[b]).disc
<1> DEFINE x == flash[b]
           n == Len(x.items)
           s == x.items[n]
           t == [off |-> s.off, st |-> st, key |-> s.key, val |-> s.val, prev |-> s.prev,
                 disc |-> s.disc]
           y == [magic |-> x.magic, src |-> x.src, dst |-> x.dst, done |-> x.done,
                 items |-> [x.items EXCEPT ![n] = t]]
<1>1. x \in Block /\ x.items \in Seq(Slot) /\ n \in 1 .. Len(x.items) /\ n \in Nat /\ s \in Slot
  BY ItemsOf
<1>2. [s EXCEPT !.st = st] = t /\ t \in Slot
  BY <1>1 DEF Slot
<1> HIDE DEF s, t
<1>3. [x.items EXCEPT ![n].st = st] = [x.items EXCEPT ![n] = t]
  BY <1>2, Zenon DEF s
<1>4. [x EXCEPT !.items[n].st = st] = [x EXCEPT !.items = [x.items EXCEPT ![n] = t]]
  BY <1>3, Zenon
<1>5. [x EXCEPT !.items = [x.items EXCEPT ![n] = t]] = y
  BY <1>1, SMTT(30) DEF Block
<1>6. PutStage(b, st) = [flash EXCEPT ![b] = y]
  BY <1>4, <1>5, Zenon DEF PutStage
<1>7. [x.items EXCEPT ![n] = t] \in Seq(Slot) /\ Len([x.items EXCEPT ![n] = t]) = n
  BY <1>1, <1>2
<1>8. WithItems(x, y, y.items)
  BY <1>1, <1>7 DEF WithItems, Block
<1>9. /\ Len(y.items) = n /\ \A i \in 1 .. n - 1 : y.items[i] = x.items[i]
      /\ LastItem(y) = t /\ y.items # << >>
  <2>1. y.items = [x.items EXCEPT ![n] = t] /\ Len(y.items) = n
    BY <1>7
  <2>2. n \in DOMAIN x.items /\ \A i \in 1 .. n - 1 : i \in DOMAIN x.items /\ i # n
    BY <1>1
  <2> HIDE DEF y, n
  <2>3. y.items[n] = t /\ \A i \in 1 .. n - 1 : y.items[i] = x.items[i]
    BY <2>1, <2>2, Zenon
  <2>4. y.items # << >>
    BY <1>1, <2>1 DEF n
  <2> QED
    BY <2>1, <2>3, <2>4 DEF LastItem
<1>10. /\ t.st = st /\ t.off = s.off /\ t.key = s.key /\ t.val = s.val /\ t.prev = s.prev
       /\ t.disc = s.disc /\ LastItem(x) = s
  BY DEF t, LastItem, s
<1> QED
  <2>1. /\ LastItem(y).st = st /\ LastItem(y).off = LastItem(x).off
        /\ LastItem(y).key = LastItem(x).key /\ LastItem(y).val = LastItem(x).val
        /\ LastItem(y).prev = LastItem(x).prev /\ LastItem(y).disc = LastItem(x).disc
    BY <1>9, <1>10, Zenon
  <2>2. \A i \in 1 .. Len(y.items) - 1 : y.items[i] = x.items[i]
    BY <1>9, Zenon
  <2> HIDE DEF y
  <2> WITNESS y
  <2> QED
    BY <1>6, <1>8, <1>9, <2>1, <2>2, Zenon

\* The four header words
LEMMA MarkPut ==
    ASSUME flash \in [Blocks -> Block], NEW b \in Blocks
    PROVE  /\ \E y : /\ [flash EXCEPT ![b].magic = TRUE] = [flash EXCEPT ![b] = y]
                     /\ y \in Block /\ y.items = flash[b].items /\ y.magic = TRUE
                     /\ y.src = flash[b].src /\ y.dst = flash[b].dst /\ y.done = flash[b].done
           /\ \E y : /\ [flash EXCEPT ![b].src = TRUE] = [flash EXCEPT ![b] = y]
                     /\ y \in Block /\ y.items = flash[b].items /\ y.magic = flash[b].magic
                     /\ y.src = TRUE /\ y.dst = flash[b].dst /\ y.done = flash[b].done
           /\ \E y : /\ [flash EXCEPT ![b].dst = TRUE] = [flash EXCEPT ![b] = y]
                     /\ y \in Block /\ y.items = flash[b].items /\ y.magic = flash[b].magic
                     /\ y.src = flash[b].src /\ y.dst = TRUE /\ y.done = flash[b].done
           /\ \E y : /\ [flash EXCEPT ![b].done = TRUE] = [flash EXCEPT ![b] = y]
                     /\ y \in Block /\ y.items = flash[b].items /\ y.magic = flash[b].magic
                     /\ y.src = flash[b].src /\ y.dst = flash[b].dst /\ y.done = TRUE
<1> DEFINE x == flash[b]
           r(m, s, d, e) == [magic |-> m, src |-> s, dst |-> d, done |-> e, items |-> x.items]
<1>1. x \in Block
  OBVIOUS
<1>2. /\ r(TRUE, x.src, x.dst, x.done) \in Block /\ r(x.magic, TRUE, x.dst, x.done) \in Block
      /\ r(x.magic, x.src, TRUE, x.done) \in Block /\ r(x.magic, x.src, x.dst, TRUE) \in Block
  BY <1>1 DEF Block
<1>3. /\ [x EXCEPT !.magic = TRUE] = r(TRUE, x.src, x.dst, x.done)
      /\ [x EXCEPT !.src = TRUE] = r(x.magic, TRUE, x.dst, x.done)
      /\ [x EXCEPT !.dst = TRUE] = r(x.magic, x.src, TRUE, x.done)
      /\ [x EXCEPT !.done = TRUE] = r(x.magic, x.src, x.dst, TRUE)
  BY <1>1, BlockExcept, Zenon
<1>4. /\ [flash EXCEPT ![b].magic = TRUE] = [flash EXCEPT ![b] = r(TRUE, x.src, x.dst, x.done)]
      /\ [flash EXCEPT ![b].src = TRUE] = [flash EXCEPT ![b] = r(x.magic, TRUE, x.dst, x.done)]
      /\ [flash EXCEPT ![b].dst = TRUE] = [flash EXCEPT ![b] = r(x.magic, x.src, TRUE, x.done)]
      /\ [flash EXCEPT ![b].done = TRUE] = [flash EXCEPT ![b] = r(x.magic, x.src, x.dst, TRUE)]
  BY <1>3, Zenon
<1>6. \E y : /\ [flash EXCEPT ![b].magic = TRUE] = [flash EXCEPT ![b] = y]
             /\ y \in Block /\ y.items = flash[b].items /\ y.magic = TRUE
             /\ y.src = flash[b].src /\ y.dst = flash[b].dst /\ y.done = flash[b].done
  <2>1. PICK y : y = r(TRUE, x.src, x.dst, x.done)
    OBVIOUS
  <2>2. /\ y.items = x.items /\ y.magic = TRUE /\ y.src = x.src /\ y.dst = x.dst /\ y.done = x.done
    BY <2>1, Zenon
  <2> QED
    BY <1>2, <1>4, <2>1, <2>2, Zenon
<1>7. \E y : /\ [flash EXCEPT ![b].src = TRUE] = [flash EXCEPT ![b] = y]
             /\ y \in Block /\ y.items = flash[b].items /\ y.magic = flash[b].magic
             /\ y.src = TRUE /\ y.dst = flash[b].dst /\ y.done = flash[b].done
  <2>1. PICK y : y = r(x.magic, TRUE, x.dst, x.done)
    OBVIOUS
  <2>2. /\ y.items = x.items /\ y.magic = x.magic /\ y.src = TRUE /\ y.dst = x.dst /\ y.done = x.done
    BY <2>1, Zenon
  <2> QED
    BY <1>2, <1>4, <2>1, <2>2, Zenon
<1>8. \E y : /\ [flash EXCEPT ![b].dst = TRUE] = [flash EXCEPT ![b] = y]
             /\ y \in Block /\ y.items = flash[b].items /\ y.magic = flash[b].magic
             /\ y.src = flash[b].src /\ y.dst = TRUE /\ y.done = flash[b].done
  <2>1. PICK y : y = r(x.magic, x.src, TRUE, x.done)
    OBVIOUS
  <2>2. /\ y.items = x.items /\ y.magic = x.magic /\ y.src = x.src /\ y.dst = TRUE /\ y.done = x.done
    BY <2>1, Zenon
  <2> QED
    BY <1>2, <1>4, <2>1, <2>2, Zenon
<1>9. \E y : /\ [flash EXCEPT ![b].done = TRUE] = [flash EXCEPT ![b] = y]
             /\ y \in Block /\ y.items = flash[b].items /\ y.magic = flash[b].magic
             /\ y.src = flash[b].src /\ y.dst = flash[b].dst /\ y.done = TRUE
  <2>1. PICK y : y = r(x.magic, x.src, x.dst, TRUE)
    OBVIOUS
  <2>2. /\ y.items = x.items /\ y.magic = x.magic /\ y.src = x.src /\ y.dst = x.dst /\ y.done = TRUE
    BY <2>1, Zenon
  <2> QED
    BY <1>2, <1>4, <2>1, <2>2, Zenon
<1> QED
  BY <1>6, <1>7, <1>8, <1>9, Zenon

\* A discarded item stays where it is.
Discarded(x, y) == /\ WithItems(x, y, y.items) /\ Len(y.items) = Len(x.items)
                   /\ \A i \in 1 .. Len(x.items) :
                          /\ y.items[i].off = x.items[i].off /\ y.items[i].st = x.items[i].st
                          /\ y.items[i].key = x.items[i].key /\ y.items[i].val = x.items[i].val
                          /\ y.items[i].prev = x.items[i].prev
                          /\ y.items[i].disc \in {x.items[i].disc, TRUE}

LEMMA DiscardPut ==
    ASSUME NEW f \in [Blocks -> Block], NEW b \in Blocks, NEW i \in DOMAIN f[b].items
    PROVE  \E y : /\ MarkDiscarded(f, b, i) = [f EXCEPT ![b] = y]
                  /\ Discarded(f[b], y) /\ y.items[i].disc = TRUE
                  /\ \A j \in DOMAIN f[b].items \ {i} : y.items[j] = f[b].items[j]
<1> DEFINE x == f[b]
           s == x.items[i]
           t == [off |-> s.off, st |-> s.st, key |-> s.key, val |-> s.val, prev |-> s.prev,
                 disc |-> TRUE]
           y == [magic |-> x.magic, src |-> x.src, dst |-> x.dst, done |-> x.done,
                 items |-> [x.items EXCEPT ![i] = t]]
<1>1. x \in Block /\ x.items \in Seq(Slot) /\ i \in 1 .. Len(x.items) /\ s \in Slot
      /\ DOMAIN x.items = 1 .. Len(x.items)
  BY ItemsOf
<1>2. [s EXCEPT !.disc = TRUE] = t /\ t \in Slot
  <2>1. [s EXCEPT !.disc = TRUE] = t
    BY <1>1, SlotExcept, Zenon
  <2>2. t \in Slot
    BY <1>1 DEF Slot
  <2> QED
    BY <2>1, <2>2
<1>a. /\ t.off = s.off /\ t.st = s.st /\ t.key = s.key /\ t.val = s.val /\ t.prev = s.prev
      /\ t.disc = TRUE
  OBVIOUS
<1> HIDE DEF s, t
<1>3. [x.items EXCEPT ![i].disc = TRUE] = [x.items EXCEPT ![i] = t]
  BY <1>2, Zenon DEF s
<1>4. [x EXCEPT !.items[i].disc = TRUE] = [x EXCEPT !.items = [x.items EXCEPT ![i] = t]]
  BY <1>3, Zenon
<1>5. [x EXCEPT !.items = [x.items EXCEPT ![i] = t]] = y
  BY <1>1, BlockExcept, Zenon
<1>6. MarkDiscarded(f, b, i) = [f EXCEPT ![b] = y]
  BY <1>4, <1>5, Zenon DEF MarkDiscarded
<1>7. [x.items EXCEPT ![i] = t] \in Seq(Slot) /\ Len([x.items EXCEPT ![i] = t]) = Len(x.items)
  BY <1>1, <1>2
<1>8. WithItems(x, y, y.items) /\ Len(y.items) = Len(x.items)
  BY <1>1, <1>7 DEF WithItems, Block
<1>9. y.items[i] = t /\ \A j \in DOMAIN x.items \ {i} : y.items[j] = x.items[j]
  <2>1. y.items = [x.items EXCEPT ![i] = t]
    OBVIOUS
  <2> HIDE DEF y
  <2> QED
    BY <1>1, <2>1, Zenon
<1>10. Discarded(x, y)
  BY <1>a, <1>1, <1>8, <1>9, Zenon DEF Discarded, s
<1> QED
  BY <1>a, <1>6, <1>9, <1>10, ZenonT(40)

LEMMA DiscardedAlike ==
    ASSUME NEW x \in Block, NEW y, Discarded(x, y)
    PROVE  Alike(x, y) /\ y.src = x.src
  BY DEF Discarded, WithItems, Alike

-----------------------------------------------------------------------------
(* The steps: boot                                                           *)

\* One block replaced
LEMMA Replaced ==
    ASSUME flash \in [Blocks -> Block], NEW b \in Blocks, NEW y \in Block,
           flash' = [flash EXCEPT ![b] = y]
    PROVE  /\ flash' \in [Blocks -> Block] /\ flash'[b] = y
           /\ \A c \in Blocks \ {b} : flash'[c] = flash[c]
  OBVIOUS

\* The index depends on a block by the end of its items only.
LEMMA StillDescribed ==
    ASSUME NEW r, NEW q, NEW f, NEW g, NEW b, Describes(r, f, b),
           q.free[b] = r.free[b], b \in Fresh(q) => b \in Fresh(r),
           b \in Dirty(q) => b \in Dirty(r) \/ g[b].items # << >>,
           WalkEnd(g[b]) = WalkEnd(f[b]), g[b].items = << >> <=> f[b].items = << >>
    PROVE  Describes(q, g, b)
  BY DEF Describes

\* An index entry depends on its flags and its free size.
LEMMA SameEntry ==
    ASSUME NEW r, NEW q, NEW f, NEW b \in Blocks, Describes(r, f, b),
           q.free[b] = r.free[b], q.flags[b] = r.flags[b]
    PROVE  Describes(q, f, b)
  BY DEF Describes, Fresh, Dirty

LEMMA ZeroRight == /\ RamOk(ZeroRam) /\ \A f, b : b \in Blocks => Describes(ZeroRam, f, b)
                   /\ \A b \in Blocks : ZeroRam.flags[b] = {} /\ ZeroRam.free[b] = 0
<1>1. /\ ZeroRam \in Ram /\ ZeroRam.numFresh = 0 /\ ZeroRam.numInuse = 0
      /\ \A b \in Blocks : ZeroRam.flags[b] = {} /\ ZeroRam.free[b] = 0
  BY DEF ZeroRam, Ram, Unset
<1>2. Fresh(ZeroRam) = {} /\ Inuse(ZeroRam) = {} /\ Dirty(ZeroRam) = {}
  BY <1>1 DEF Fresh, Inuse, Dirty
<1>3. Counted(ZeroRam)
  BY <1>1, <1>2, FS_EmptySet DEF Counted
<1>4. FlagsRight(ZeroRam)
  BY <1>1 DEF FlagsRight
<1>5. \A f, b : b \in Blocks => Describes(ZeroRam, f, b)
  BY <1>1, <1>2, BlocksNat DEF Describes
<1> QED
  BY <1>1, <1>3, <1>4, <1>5 DEF RamOk

LEMMA NoGcTyped == NoGc \in Gc /\ NoGc.from = "idle"
  BY BlocksNat DEF NoGc, Gc

\* Everything is blank in the beginning.
LEMMA KvInit == Init => KvInv
<1> SUFFICES ASSUME Init PROVE KvInv
  OBVIOUS
<1>1. /\ flash \in [Blocks -> Block] /\ \A b \in Blocks : flash[b] = Erased
  BY ErasedRight DEF Init
<1>2. pc = "off" /\ pc \in PC /\ cur \in 0 .. NumBlk /\ op = NoOp /\ gc \in Gc /\ gc.from = "idle"
  BY NoGcTyped, BlocksNat DEF Init, PC
<1>3. /\ cycles \in [n : 0 .. MaxCycle, window : BOOLEAN]
      /\ allowed \in [Keys -> SUBSET (Vals \cup {None})]
  BY KvEnv DEF Init
<1>4. RamOk(ram) /\ Indexed
  BY ZeroRight DEF Init, Indexed
<1>5. Sources /\ \A b \in Blocks : LaidOut(flash[b])
  BY <1>1, ErasedRight DEF Sources
<1>6. Scanning /\ Setting /\ Moving
  BY <1>2 DEF Scanning, Setting, Moving, Saving, Collecting, Copying
<1> QED
  BY <1>1, <1>2, <1>3, <1>4, <1>5, <1>6 DEF KvInv

LEMMA InitStep == ASSUME KvInv, ln_kv_init PROVE KvInv'
<1>1. /\ pc = "off" /\ pc' = "scan" /\ cur' = 0 /\ ram' = ZeroRam
      /\ UNCHANGED <<flash, op, gc, cycles, allowed>>
  BY DEF ln_kv_init
<1>2. RamOk(ram') /\ Indexed' /\ Scanning'
  BY <1>1, ZeroRight, BlocksNat DEF Indexed, Scanning
<1>3. Setting' /\ Moving'
  BY <1>1 DEF KvInv, Setting, Moving, Saving, Collecting, Copying
<1>4. Sources' /\ pc' \in PC /\ cur' \in 0 .. NumBlk
  BY <1>1, BlocksNat DEF KvInv, Sources, PC
<1> QED
  BY <1>1, <1>2, <1>3, <1>4 DEF KvInv

LEMMA ScanEraseStep == ASSUME KvInv, ScanErase PROVE KvInv'
<1>1. /\ pc = "scan" /\ pc' = "scan_magic" /\ cur \in Blocks
      /\ flash' = [flash EXCEPT ![cur] = Erased]
      /\ UNCHANGED <<ram, cur, op, gc, cycles, allowed>>
  BY DEF ScanErase
<1>2. /\ flash' \in [Blocks -> Block] /\ flash'[cur] = Erased
      /\ \A c \in Blocks \ {cur} : flash'[c] = flash[c]
  BY <1>1, Replaced, ErasedRight DEF KvInv
<1>3. Indexed'
  BY <1>1, <1>2 DEF KvInv, Indexed, Exempt, Saving, Describes, Collecting, Copying
<1>4. Sources' /\ \A b \in Blocks : LaidOut(flash'[b])
  BY <1>1, <1>2, ErasedRight DEF KvInv, Sources
<1>5. Scanning'
  BY <1>1, <1>2 DEF KvInv, Scanning
<1>6. Setting' /\ Moving'
  BY <1>1 DEF KvInv, Setting, Moving, Saving, Collecting, Copying
<1>7. pc' \in PC
  BY <1>1 DEF PC
<1> QED
  BY <1>1, <1>2, <1>3, <1>4, <1>5, <1>6, <1>7 DEF KvInv

LEMMA ScanMagicStep == ASSUME KvInv, ScanMagic PROVE KvInv'
<1>1. /\ pc = "scan_magic" /\ pc' = "scan" /\ cur' = cur + 1
      /\ flash' = [flash EXCEPT ![cur].magic = TRUE] /\ ram' = kv_blk_set_fresh(ram, cur)
      /\ UNCHANGED <<op, gc, cycles, allowed>>
  BY DEF ScanMagic
<1>2. cur \in Blocks /\ flash[cur] = Erased
  BY <1>1 DEF KvInv, Scanning
<1>3. PICK y : /\ flash' = [flash EXCEPT ![cur] = y]
               /\ y \in Block /\ y.items = flash[cur].items /\ y.src = flash[cur].src
  BY <1>1, <1>2, MarkPut, ZenonT(40) DEF KvInv
<1>4. /\ flash' \in [Blocks -> Block] /\ flash'[cur] = y /\ y.items = << >> /\ y.src = FALSE
      /\ \A c \in Blocks \ {cur} : flash'[c] = flash[c]
  BY <1>2, <1>3, Replaced, ErasedRight DEF KvInv
<1>5. /\ RamOk(ram') /\ Entry(ram, ram', cur) /\ ram'.flags[cur] = {"fresh"}
      /\ ram'.free[cur] = BlkFresh
  BY <1>1, <1>2, SetFresh DEF KvInv
<1>6. LaidOut(y) /\ WalkEnd(y) = 0
  <2>1. Alike(Erased, y)
    BY <1>3, <1>4, ErasedRight, ItemsOf DEF Alike
  <2> QED
    BY <2>1, AlikeSame, ErasedRight
<1>7. Indexed'
  <2> SUFFICES ASSUME NEW b \in Blocks PROVE Describes(ram', flash', b)
    BY DEF Indexed
  <2>1. CASE b = cur
    BY <1>4, <1>5, <1>6, <2>1, BlocksNat DEF Describes, Dirty
  <2>2. CASE b # cur
    <3>1. Describes(ram, flash, b)
      BY <1>1, <2>2 DEF KvInv, Indexed, Exempt, Saving, Collecting, Copying
    <3>2. Describes(ram', flash, b)
      BY <1>5, <2>2, <3>1, SameEntry DEF Entry
    <3> QED
      BY <1>4, <2>2, <3>2 DEF Describes
  <2> QED
    BY <2>1, <2>2
<1>8. Sources' /\ \A b \in Blocks : LaidOut(flash'[b])
  BY <1>4, <1>6 DEF KvInv, Sources
<1>9. Scanning'
  BY <1>1, <1>2, <1>5, BlocksNat DEF KvInv, Scanning, Entry
<1>10. Setting' /\ Moving'
  BY <1>1 DEF KvInv, Setting, Moving, Saving, Collecting, Copying
<1>11. pc' \in PC /\ cur' \in 0 .. NumBlk
  BY <1>1, <1>2, BlocksNat DEF PC, Blocks
<1> QED
  BY <1>1, <1>4, <1>5, <1>7, <1>8, <1>9, <1>10, <1>11 DEF KvInv

\* The program points at which nothing is in progress that the invariant speaks of
Calm == {"off", "incomplete", "locate", "locate_ws", "idle", "failed", "overrun", "wild"}

LEMMA CalmRight ==
    ASSUME pc' \in Calm, gc'.from # "search"
    PROVE  Scanning' /\ Setting' /\ Moving' /\ pc' \in PC /\ Exempt' = {}
  BY DEF Calm, Scanning, Setting, Moving, Exempt, Saving, Copying, Collecting, PC

\* Outside a garbage collection no gc belongs to a set, and at these points every entry
\* of the index describes its block.
LEMMA Described ==
    ASSUME KvInv, pc \in Calm \cup {"scan", "search", "del_old"}
    PROVE  gc.from # "search" /\ Exempt = {} /\ \A b \in Blocks : Describes(ram, flash, b)
<1>1. Exempt = {} /\ pc \notin Collecting
  BY DEF Exempt, Calm, Saving, Copying, Collecting
<1> QED
  BY <1>1 DEF KvInv, Indexed, Moving

\* A step that changes neither the flash nor the index
LEMMA NothingWritten ==
    ASSUME KvInv, pc \in Calm \cup {"scan", "search", "del_old"},
           pc' \in Calm \cup {"scan", "search", "del_old"}, UNCHANGED <<flash, ram>>
    PROVE  /\ flash' \in [Blocks -> Block] /\ RamOk(ram') /\ Indexed' /\ Sources'
           /\ \A b \in Blocks : LaidOut(flash'[b])
<1>1. \A b \in Blocks : Describes(ram', flash', b)
  BY Described
<1> QED
  BY <1>1 DEF KvInv, Indexed, Sources

LEMMA ScanMarkedStep == ASSUME KvInv, ScanMarked PROVE KvInv'
<1>1. /\ pc = "scan" /\ pc' = "scan" /\ cur \in Blocks /\ cur' = cur + 1
      /\ UNCHANGED <<flash, ram, op, gc, cycles, allowed>>
  BY DEF ScanMarked
<1>2. Scanning' /\ Setting' /\ Moving' /\ pc' \in PC
  BY <1>1, BlocksNat DEF KvInv, Scanning, Setting, Moving, Saving, Collecting, Copying
<1>3. cur' \in 0 .. NumBlk
  BY <1>1, BlocksNat DEF Blocks
<1> QED
  BY <1>1, <1>2, <1>3, NothingWritten DEF KvInv

\* The steps that only move on
LEMMA MovingOn ==
    ASSUME KvInv, ScanDone \/ IncompleteFails \/ IncompleteNone \/ SearchWild
    PROVE  KvInv'
<1>1. /\ pc \in Calm \cup {"scan", "search"} /\ pc' \in Calm
      /\ UNCHANGED <<flash, ram, cur, op, gc, cycles, allowed>>
  BY DEF ScanDone, IncompleteFails, IncompleteNone, SearchWild, Calm
<1> QED
  BY <1>1, NothingWritten, CalmRight, Described DEF KvInv

\* An item is discarded and its block becomes dirty.
LEMMA DiscardStep ==
    ASSUME KvInv, NEW r, RamOk(r), \A c \in Blocks : Describes(r, flash, c),
           NEW b \in Blocks, NEW y, flash[b].items # << >>, Discarded(flash[b], y),
           flash' = [flash EXCEPT ![b] = y], ram' = kv_blk_set_dirty(r, b)
    PROVE  /\ flash' \in [Blocks -> Block] /\ RamOk(ram') /\ Sources'
           /\ \A c \in Blocks : LaidOut(flash'[c]) /\ Describes(ram', flash', c)
           /\ ram'.free = r.free
           /\ \A c \in Blocks : ram'.flags[c] \subseteq r.flags[c] \cup {"dirty"}
<1>1. flash[b] \in Block /\ y \in Block /\ Alike(flash[b], y) /\ y.src = flash[b].src
  BY DiscardedAlike DEF KvInv, Alike
<1>2. /\ flash' \in [Blocks -> Block] /\ flash'[b] = y
      /\ \A c \in Blocks \ {b} : flash'[c] = flash[c]
  BY <1>1, Replaced DEF KvInv
<1>3. /\ WalkEnd(y) = WalkEnd(flash[b]) /\ LaidOut(y) /\ y.items # << >>
  BY <1>1, AlikeSame DEF KvInv
<1>4. "fresh" \notin r.flags[b]
  BY DEF Describes, Fresh
<1>5. /\ RamOk(ram') /\ Entry(r, ram', b) /\ ram'.flags[b] = r.flags[b] \cup {"dirty"}
      /\ ram'.free = r.free
  BY <1>4, SetDirty
<1>6. Sources' /\ \A c \in Blocks : LaidOut(flash'[c])
  BY <1>2, <1>3 DEF KvInv, Sources
<1>7. ASSUME NEW c \in Blocks PROVE Describes(ram', flash', c)
  <2>1. CASE c = b
    BY <1>2, <1>3, <1>4, <1>5, <2>1 DEF Describes, Fresh, Dirty
  <2>2. CASE c # b
    <3>1. Describes(ram', flash, c)
      BY <1>5, <2>2, SameEntry DEF Entry
    <3> QED
      BY <1>2, <2>2, <3>1 DEF Describes
  <2> QED
    BY <2>1, <2>2
<1> QED
  BY <1>2, <1>5, <1>6, <1>7 DEF Entry

\* What recovery discards is an item.
LEMMA RecoverRight ==
    ASSUME NEW f \in [Blocks -> Block], NEW b \in Blocks, NEW i \in Recover(f, b)
    PROVE  LET d == Discards(f, b, i) IN d[1] \in Blocks /\ d[2] \in DOMAIN f[d[1]].items
<1>1. /\ i \in DOMAIN f[b].items
      /\ ~Intact(f[b].items[i]) \/ Superseded(f, f[b].items[i]) # {}
  BY DEF Recover
<1>2. CASE ~Intact(f[b].items[i])
  BY <1>1, <1>2 DEF Discards
<1>3. CASE Intact(f[b].items[i])
  <2> PICK s : s = f[b].items[i]
    OBVIOUS
  <2>1. s \in Slot /\ s.prev \in Pos /\ Superseded(f, s) # {} /\ Intact(s)
    BY <1>1, <1>3, ItemsOf DEF Slot
  <2>2. s.prev # NoPos
    BY <2>1 DEF Superseded
  <2>3. s.prev[1] \in Blocks
    BY <2>1, <2>2 DEF Pos, NoPos
  <2>4. PICK j \in Superseded(f, s) : Discards(f, b, i) = <<s.prev[1], j>>
    BY <2>1 DEF Discards
  <2>5. j \in DOMAIN f[s.prev[1]].items
    BY <2>2, <2>4 DEF Superseded, SlotsAt
  <2> QED
    BY <2>3, <2>4, <2>5
<1> QED
  BY <1>2, <1>3

LEMMA ScanRecoverStep == ASSUME KvInv, ScanRecover PROVE KvInv'
<1>1. /\ pc = "scan" /\ cur \in Blocks /\ Recover(flash, cur) # {}
      /\ UNCHANGED <<pc, cur, op, gc, cycles, allowed>>
  BY DEF ScanRecover, IndexBuild
<1>2. Recover(flash, cur) \subseteq Nat
  BY <1>1, ItemsOf DEF Recover, KvInv
<1>3. \E i \in Recover(flash, cur) : \A j \in Recover(flash, cur) : i <= j
  BY <1>1, <1>2, LeastOf
<1>a. PICK i \in Recover(flash, cur) :
          LET d == Discards(flash, cur, i)
          IN  flash' = MarkDiscarded(flash, d[1], d[2]) /\ ram' = kv_blk_set_dirty(ram, d[1])
  BY <1>3 DEF ScanRecover
<1>4. PICK d : /\ d = Discards(flash, cur, i) /\ flash' = MarkDiscarded(flash, d[1], d[2])
               /\ ram' = kv_blk_set_dirty(ram, d[1])
  BY <1>a
<1>5. d[1] \in Blocks /\ d[2] \in DOMAIN flash[d[1]].items
  BY <1>1, <1>4, RecoverRight DEF KvInv
<1>6. PICK y : flash' = [flash EXCEPT ![d[1]] = y] /\ Discarded(flash[d[1]], y)
  <2>1. flash \in [Blocks -> Block]
    BY DEF KvInv
  <2>2. PICK y : /\ MarkDiscarded(flash, d[1], d[2]) = [flash EXCEPT ![d[1]] = y]
                 /\ Discarded(flash[d[1]], y)
    BY <1>5, <2>1, DiscardPut, ZenonT(40)
  <2> QED
    BY <1>4, <2>2
<1>7. flash[d[1]].items # << >>
  BY <1>5
<1>8. RamOk(ram) /\ \A c \in Blocks : Describes(ram, flash, c)
  BY <1>1, Described DEF KvInv
<1>9. /\ flash' \in [Blocks -> Block] /\ RamOk(ram') /\ Sources'
      /\ \A c \in Blocks : LaidOut(flash'[c]) /\ Describes(ram', flash', c)
      /\ ram'.free = ram.free
      /\ \A c \in Blocks : ram'.flags[c] \subseteq ram.flags[c] \cup {"dirty"}
  BY <1>4, <1>5, <1>6, <1>7, <1>8, DiscardStep
<1>10. Indexed'
  BY <1>9 DEF Indexed
<1>11. Scanning'
  BY <1>1, <1>9 DEF KvInv, Scanning
<1>12. Setting' /\ Moving'
  BY <1>1 DEF KvInv, Setting, Moving, Saving, Collecting, Copying
<1> QED
  BY <1>1, <1>9, <1>10, <1>11, <1>12 DEF KvInv

LEMMA ScanIndexStep == ASSUME KvInv, ScanIndex PROVE KvInv'
<1>1. /\ pc = "scan" /\ cur \in Blocks /\ ram' = WalkAll(ram, flash, {cur}) /\ cur' = cur + 1
      /\ UNCHANGED <<flash, pc, op, gc, cycles, allowed>>
  BY DEF ScanIndex, IndexBuild
<1>2. \A c \in Blocks : Describes(ram, flash, c)
  BY <1>1, Described
<1>3. \A b \in {cur} : "fresh" \in ram.flags[b] => flash[b].items = << >>
  BY <1>1, <1>2 DEF Describes, Fresh
<1>4. /\ RamOk(ram') /\ Describes(ram', flash, cur)
      /\ \A b \in Blocks \ {cur} : ram'.flags[b] = ram.flags[b] /\ ram'.free[b] = ram.free[b]
  BY <1>1, <1>3, WalkAllRight DEF KvInv
<1>5. \A c \in Blocks : Describes(ram', flash, c)
  BY <1>2, <1>4, SameEntry
<1>6. Indexed'
  BY <1>1, <1>5 DEF Indexed
<1>7. Scanning'
  <2>1. ASSUME NEW b \in Blocks, b >= cur + 1
        PROVE  ram'.flags[b] \subseteq {"dirty"} /\ ram'.free[b] = 0
    <3>1. b # cur /\ b >= cur
      BY <1>1, <2>1, BlocksNat
    <3> QED
      BY <1>1, <1>4, <3>1 DEF KvInv, Scanning
  <2> QED
    BY <1>1, <2>1 DEF Scanning
<1>8. Setting' /\ Moving' /\ Sources'
  BY <1>1 DEF KvInv, Setting, Moving, Saving, Collecting, Copying, Sources
<1>9. cur' \in 0 .. NumBlk
  BY <1>1, BlocksNat DEF Blocks
<1> QED
  BY <1>1, <1>4, <1>6, <1>7, <1>8, <1>9 DEF KvInv

-----------------------------------------------------------------------------
(* The steps: the beginning of a garbage collection                          *)

\* What holds of a garbage collection before it marks its destination
LEMMA MovingStarts ==
    ASSUME pc' = "gc_dst", gc'.src # gc'.dst, gc'.from \in {"search", "locate", "incomplete"},
           gc'.i = 1, "fresh" \in ram'.flags[gc'.dst], flash'[gc'.dst].items = << >>,
           ram'.free[gc'.dst] = BlkFresh - WalkEnd(flash'[gc'.dst])
    PROVE  Moving'
  BY DEF Moving, Collecting, Copying

\* A block that has items, marked as a source or marked now, and a fresh one
LEMMA GcStart ==
    ASSUME KvInv, pc \in Calm \cup {"search"}, pc' = "gc_dst",
           NEW s \in Blocks, NEW d \in Fresh(ram), NEW x \in {"search", "locate", "incomplete"},
           flash[s].items # << >>, x = "search" => op \in Op,
           flash' = flash \/ flash' = [flash EXCEPT ![s].src = TRUE],
           gc' = [src |-> s, dst |-> d, i |-> 1, from |-> x],
           UNCHANGED <<ram, cur, op, cycles, allowed>>
    PROVE  KvInv'
<1>1. d \in Blocks /\ \A b \in Blocks : Describes(ram, flash, b)
  BY Described DEF Fresh
<1>2. flash[d].items = << >> /\ ram.free[d] = BlkFresh /\ s # d /\ "fresh" \in ram.flags[d]
  BY <1>1 DEF Describes, Fresh
<1>3. /\ flash' \in [Blocks -> Block]
      /\ \A b \in Blocks : flash'[b].items = flash[b].items /\ Alike(flash[b], flash'[b])
      /\ \A b \in Blocks \ {s} : flash'[b].src = flash[b].src
  <2>0. \A b \in Blocks : flash[b] \in Block
    BY DEF KvInv
  <2>1. CASE flash' = flash
    BY <2>0, <2>1 DEF KvInv, Alike
  <2>2. CASE flash' = [flash EXCEPT ![s].src = TRUE]
    <3>1. PICK y : flash' = [flash EXCEPT ![s] = y] /\ y \in Block /\ y.items = flash[s].items
      BY <2>2, MarkPut, ZenonT(40) DEF KvInv
    <3>2. /\ flash' \in [Blocks -> Block] /\ flash'[s] = y
          /\ \A c \in Blocks \ {s} : flash'[c] = flash[c]
      BY <3>1, Replaced DEF KvInv
    <3> QED
      BY <2>0, <3>1, <3>2 DEF Alike
  <2> QED
    BY <2>1, <2>2
<1>4. \A b \in Blocks : LaidOut(flash'[b]) /\ WalkEnd(flash'[b]) = WalkEnd(flash[b])
  BY <1>3, AlikeSame DEF KvInv
<1>5. \A b \in Blocks : Describes(ram', flash', b)
  BY <1>1, <1>3, <1>4 DEF Describes
<1>6. gc'.src = s /\ gc'.dst = d /\ gc'.i = 1 /\ gc'.from = x /\ gc' \in Gc
  BY <1>1 DEF Gc
<1>7. Sources' /\ Indexed'
  BY <1>3, <1>5 DEF KvInv, Sources, Indexed
<1>8. Scanning' /\ Setting' /\ pc' \in PC
  BY <1>6 DEF Scanning, Setting, Saving, PC
<1>9. flash'[d].items = << >> /\ ram'.free[d] = BlkFresh - WalkEnd(flash'[d])
  BY <1>1, <1>2, <1>3, <1>4, ItemsOf, BlocksNat
<1>10. Moving'
  BY <1>2, <1>6, <1>9, MovingStarts
<1> QED
  BY <1>3, <1>4, <1>6, <1>7, <1>8, <1>10 DEF KvInv

\* The blocks that boot takes for the source and the destination of an interrupted gc
LEMMA MarkedBlocks ==
    /\ GcSrcs # {} => /\ FirstBlk(GcSrcs) \in Blocks /\ flash[FirstBlk(GcSrcs)].src
    /\ GcDsts # {} => /\ FirstBlk(GcDsts) \in Blocks /\ ~flash[FirstBlk(GcDsts)].src
<1>1. GcSrcs \subseteq Blocks /\ GcDsts \subseteq Blocks
  BY DEF GcSrcs, GcDsts
<1>2. /\ GcSrcs # {} => FirstBlk(GcSrcs) \in GcSrcs
      /\ GcDsts # {} => FirstBlk(GcDsts) \in GcDsts
  BY <1>1, FirstBlkIn
<1> QED
  BY <1>2 DEF GcSrcs, GcDsts, IsGcSrc, IsGcDstNotDone

LEMMA SourceHasItems ==
    ASSUME KvInv, NEW b \in Blocks, flash[b].src
    PROVE  flash[b].items # << >>
<1>1. flash[b].src \in BOOLEAN
  BY DEF KvInv, Block
<1>2. flash[b].src = TRUE
  BY <1>1
<1> QED
  BY <1>2 DEF KvInv, Sources

LEMMA LastFreshIn ==
    ASSUME Fresh(ram) # {}
    PROVE  LastFresh \in Fresh(ram)
<1> DEFINE S == {NumBlk - b : b \in Fresh(ram)}
<1>1. Fresh(ram) \subseteq Blocks
  BY DEF Fresh
<1>2. S \subseteq Nat /\ S # {}
  BY <1>1, BlocksNat DEF Blocks
<1>3. PICK x \in S : \A y \in S : x <= y
  BY <1>2, LeastOf
<1>4. PICK b \in Fresh(ram) : x = NumBlk - b
  BY <1>3
<1>5. \A c \in Fresh(ram) : NumBlk - b <= NumBlk - c
  BY <1>3, <1>4
<1>6. \A c \in Fresh(ram) : c <= b
  <2> SUFFICES ASSUME NEW c \in Fresh(ram) PROVE c <= b
    OBVIOUS
  <2>1. b \in Nat /\ c \in Nat /\ NumBlk \in Nat
    BY <1>1, BlocksNat
  <2>2. NumBlk - b <= NumBlk - c
    BY <1>5
  <2> QED
    BY <2>1, <2>2
<1> QED
  BY <1>4, <1>6 DEF LastFresh

LEMMA IncompleteEraseStep == ASSUME KvInv, IncompleteErase PROVE KvInv'
<1> PICK s, d : s = FirstBlk(GcSrcs) /\ d = FirstBlk(GcDsts)
  OBVIOUS
<1>1. /\ pc = "incomplete" /\ pc' = "inc_magic" /\ GcSrcs # {} /\ GcDsts # {}
      /\ flash' = [flash EXCEPT ![d] = Erased]
      /\ gc' = [src |-> s, dst |-> d, i |-> 1, from |-> "incomplete"]
      /\ UNCHANGED <<ram, cur, op, cycles, allowed>>
  BY DEF IncompleteErase
<1>2. s \in Blocks /\ d \in Blocks /\ s # d
  BY <1>1, MarkedBlocks
<1>3. /\ flash' \in [Blocks -> Block] /\ flash'[d] = Erased
      /\ \A c \in Blocks \ {d} : flash'[c] = flash[c]
  BY <1>1, <1>2, Replaced, ErasedRight DEF KvInv
<1>4. gc'.src = s /\ gc'.dst = d /\ gc'.i = 1 /\ gc'.from = "incomplete" /\ gc' \in Gc
  BY <1>1, <1>2 DEF Gc
<1>5. \A b \in Blocks : Describes(ram, flash, b)
  BY <1>1, Described DEF Calm
<1>6. \A b \in Blocks \ {d} : Describes(ram', flash', b)
  BY <1>1, <1>3, <1>5 DEF Describes
<1>7. Exempt' = {d}
  BY <1>1, <1>4 DEF Exempt, Saving
<1>8. Indexed'
  BY <1>6, <1>7 DEF Indexed
<1>9. Sources' /\ \A b \in Blocks : LaidOut(flash'[b])
  BY <1>3, ErasedRight DEF KvInv, Sources
<1>10. Scanning' /\ Setting' /\ Moving' /\ pc' \in PC
  BY <1>1, <1>2, <1>3, <1>4 DEF Scanning, Setting, Moving, Saving, Collecting, Copying, PC
<1> QED
  BY <1>1, <1>3, <1>4, <1>8, <1>9, <1>10 DEF KvInv

LEMMA IncompleteMagicStep == ASSUME KvInv, IncompleteMagic PROVE KvInv'
<1> PICK d : d = gc.dst
  OBVIOUS
<1>1. /\ pc = "inc_magic" /\ pc' = "gc_dst"
      /\ flash' = [flash EXCEPT ![d].magic = TRUE] /\ ram' = kv_blk_set_fresh(ram, d)
      /\ UNCHANGED <<cur, op, gc, cycles, allowed>>
  BY DEF IncompleteMagic
<1>2. d \in Blocks /\ flash[d] = Erased /\ gc.src # d /\ gc.from = "incomplete" /\ gc.i = 1
  BY <1>1 DEF KvInv, Moving, Gc
<1>3. PICK y : /\ flash' = [flash EXCEPT ![d] = y]
               /\ y \in Block /\ y.items = flash[d].items /\ y.src = flash[d].src
  <2>1. flash \in [Blocks -> Block]
    BY DEF KvInv
  <2>2. d \in Blocks
    BY <1>2
  <2>3. \E y : /\ [flash EXCEPT ![d].magic = TRUE] = [flash EXCEPT ![d] = y]
               /\ y \in Block /\ y.items = flash[d].items /\ y.src = flash[d].src
    BY <2>1, <2>2, MarkPut, ZenonT(40)
  <2> QED
    BY <1>1, <2>3, Zenon
<1>4. /\ flash' \in [Blocks -> Block] /\ flash'[d] = y /\ y.items = << >> /\ y.src = FALSE
      /\ \A c \in Blocks \ {d} : flash'[c] = flash[c]
  BY <1>2, <1>3, Replaced, ErasedRight DEF KvInv
<1>5. /\ RamOk(ram') /\ Entry(ram, ram', d) /\ ram'.flags[d] = {"fresh"}
      /\ ram'.free[d] = BlkFresh
  BY <1>1, <1>2, SetFresh DEF KvInv
<1>6. LaidOut(y) /\ WalkEnd(y) = 0
  <2>1. Alike(Erased, y)
    BY <1>2, <1>3, <1>4, ErasedRight, ItemsOf DEF Alike
  <2> QED
    BY <2>1, AlikeSame, ErasedRight
<1>7. Indexed'
  <2>1. Exempt = {d} /\ Exempt' = {d}
    BY <1>1 DEF Exempt, Saving, Collecting, Copying
  <2> SUFFICES ASSUME NEW b \in Blocks \ {d} PROVE Describes(ram', flash', b)
    BY <2>1 DEF Indexed
  <2>2. Describes(ram, flash, b)
    BY <2>1 DEF KvInv, Indexed
  <2>3. Describes(ram', flash, b)
    BY <1>5, <2>2, SameEntry DEF Entry
  <2> QED
    BY <1>4, <2>3 DEF Describes
<1>8. Sources' /\ \A b \in Blocks : LaidOut(flash'[b])
  BY <1>4, <1>6 DEF KvInv, Sources
<1>9. Scanning' /\ Setting' /\ pc' \in PC
  BY <1>1, <1>2 DEF Scanning, Setting, Saving, PC
<1>10. Moving'
  <2>0. gc' = gc /\ gc'.dst = d
    BY <1>1, Zenon
  <2>1. /\ flash'[d].items = << >> /\ "fresh" \in ram'.flags[d]
        /\ ram'.free[d] = BlkFresh - WalkEnd(flash'[d])
    BY <1>4, <1>5, <1>6, BlocksNat
  <2> QED
    BY <1>1, <1>2, <2>0, <2>1, MovingStarts
<1> QED
  BY <1>1, <1>4, <1>5, <1>7, <1>8, <1>9, <1>10 DEF KvInv

LEMMA IncompleteFreshStep == ASSUME KvInv, IncompleteFresh PROVE KvInv'
<1>1. /\ pc = "incomplete" /\ pc' = "gc_dst" /\ GcSrcs # {} /\ Fresh(ram) # {}
      /\ gc' = [src |-> FirstBlk(GcSrcs), dst |-> LastFresh, i |-> 1, from |-> "incomplete"]
      /\ UNCHANGED <<flash, ram, cur, op, cycles, allowed>>
  BY DEF IncompleteFresh, IncompleteError
<1>2. PICK s \in Blocks : s = FirstBlk(GcSrcs) /\ flash[s].items # << >>
  BY <1>1, MarkedBlocks, SourceHasItems
<1>3. PICK d \in Fresh(ram) : d = LastFresh
  BY <1>1, LastFreshIn
<1>4. gc' = [src |-> s, dst |-> d, i |-> 1, from |-> "incomplete"] /\ pc \in Calm
  BY <1>1, <1>2, <1>3 DEF Calm
<1> QED
  BY <1>1, <1>2, <1>3, <1>4, GcStart

\* The first dirty block has items.
LEMMA FirstDirty ==
    ASSUME KvInv, pc \in Calm \cup {"search"}, Dirty(ram) # {}
    PROVE  FirstBlk(Dirty(ram)) \in Blocks /\ flash[FirstBlk(Dirty(ram))].items # << >>
<1>1. Dirty(ram) \subseteq Blocks
  BY DEF Dirty
<1>2. FirstBlk(Dirty(ram)) \in Dirty(ram)
  BY <1>1, FirstBlkIn
<1> QED
  BY <1>1, <1>2, Described DEF Describes

LEMMA LocateGcStep == ASSUME KvInv, LocateGc PROVE KvInv'
<1>1. /\ pc = "locate" /\ pc' = "gc_dst" /\ ram.numFresh = 1 /\ Dirty(ram) # {}
      /\ flash' = [flash EXCEPT ![FirstBlk(Dirty(ram))].src = TRUE]
      /\ gc' = [src |-> FirstBlk(Dirty(ram)), dst |-> FirstBlk(Fresh(ram)), i |-> 1,
                from |-> "locate"]
      /\ UNCHANGED <<ram, cur, op, cycles, allowed>>
  BY DEF LocateGc, Rescue
<1>2. pc \in Calm
  BY <1>1 DEF Calm
<1>3. PICK s \in Blocks : s = FirstBlk(Dirty(ram)) /\ flash[s].items # << >>
  BY <1>1, <1>2, FirstDirty
<1>4. Fresh(ram) # {} /\ Fresh(ram) \subseteq Blocks
  <2>1. ram.numFresh = Cardinality(Fresh(ram)) /\ Cardinality({}) = 0
    BY FS_EmptySet DEF KvInv, RamOk, Counted
  <2>2. Fresh(ram) # {}
    BY <1>1, <2>1
  <2> QED
    BY <2>2 DEF Fresh
<1>5. PICK d \in Fresh(ram) : d = FirstBlk(Fresh(ram))
  BY <1>4, FirstBlkIn
<1>6. /\ flash' = [flash EXCEPT ![s].src = TRUE]
      /\ gc' = [src |-> s, dst |-> d, i |-> 1, from |-> "locate"]
  BY <1>1, <1>3, <1>5
<1> QED
  BY <1>1, <1>2, <1>3, <1>5, <1>6, GcStart

LEMMA SearchGcStep == ASSUME KvInv, SearchGc PROVE KvInv'
<1>1. /\ pc = "search" /\ pc' = "gc_dst" /\ Dirty(ram) # {} /\ ram.workspace \in Blocks
      /\ NextBlk(Fresh(ram), ram.workspace) # Invalid
      /\ flash' = [flash EXCEPT ![FirstBlk(Dirty(ram))].src = TRUE]
      /\ gc' = [src |-> FirstBlk(Dirty(ram)), dst |-> NextBlk(Fresh(ram), ram.workspace),
                i |-> 1, from |-> "search"]
      /\ UNCHANGED <<ram, cur, op, cycles, allowed>>
  BY DEF SearchGc, NeedsGc, CanGc, Writeable
<1>2. op \in Op
  BY <1>1 DEF KvInv, Setting
<1>3. PICK s \in Blocks : s = FirstBlk(Dirty(ram)) /\ flash[s].items # << >>
  BY <1>1, FirstDirty
<1>4. Fresh(ram) \subseteq Blocks /\ ram.workspace \in Int
  BY <1>1, BlocksNat DEF Fresh
<1>5. PICK d \in Fresh(ram) : d = NextBlk(Fresh(ram), ram.workspace)
  BY <1>1, <1>4, NextBlkIn
<1>6. /\ flash' = [flash EXCEPT ![s].src = TRUE]
      /\ gc' = [src |-> s, dst |-> d, i |-> 1, from |-> "search"]
  BY <1>1, <1>3, <1>5
<1> QED
  BY <1>1, <1>2, <1>3, <1>5, <1>6, GcStart

\* The workspace is no part of what the invariant says of the index.
LEMMA WorkspaceOnly ==
    ASSUME NEW r, RamOk(r), NEW w \in Blocks \cup {Invalid, Unset}
    PROVE  LET q == [r EXCEPT !.workspace = w]
           IN  /\ RamOk(q) /\ q.flags = r.flags /\ q.free = r.free /\ q.workspace = w
               /\ Fresh(q) = Fresh(r) /\ Inuse(q) = Inuse(r) /\ Dirty(q) = Dirty(r)
               /\ \A f, b : Describes(q, f, b) <=> Describes(r, f, b)
<1> PICK q : q = [r EXCEPT !.workspace = w]
  OBVIOUS
<1>1. /\ q \in Ram /\ q.flags = r.flags /\ q.free = r.free /\ q.workspace = w
      /\ q.numFresh = r.numFresh /\ q.numInuse = r.numInuse
  BY DEF RamOk, Ram
<1>2. Fresh(q) = Fresh(r) /\ Inuse(q) = Inuse(r) /\ Dirty(q) = Dirty(r)
  BY <1>1 DEF Fresh, Inuse, Dirty
<1>3. RamOk(q)
  BY <1>1, <1>2 DEF RamOk, Counted, FlagsRight
<1>4. \A f, b : Describes(q, f, b) <=> Describes(r, f, b)
  BY <1>1, <1>2 DEF Describes
<1> QED
  BY <1>1, <1>2, <1>3, <1>4

LEMMA LocateStep == ASSUME KvInv, Locate PROVE KvInv'
<1>1. /\ pc \in Calm /\ pc' = "idle" /\ ram' = Located(ram) /\ allowed' = Settled
      /\ UNCHANGED <<flash, cur, op, gc, cycles>>
  BY DEF Locate, Calm
<1>2. RamOk(ram') /\ \A b \in Blocks : Describes(ram', flash, b)
  <2>1. RamOk(ram) /\ \A b \in Blocks : Describes(ram, flash, b)
    BY <1>1, Described DEF KvInv
  <2>2. CASE ram' = ram
    BY <2>1, <2>2
  <2>3. CASE ram' # ram
    <3>1. PICK S \in {Fresh(ram), Inuse(ram)} :
              S # {} /\ ram' = [ram EXCEPT !.workspace = FirstBlk(S)]
      BY <1>1, <2>3 DEF Located
    <3>2. FirstBlk(S) \in Blocks
      <4>1. S \subseteq Blocks
        BY <3>1 DEF Fresh, Inuse
      <4> QED
        BY <3>1, <4>1, FirstBlkIn
    <3> QED
      BY <2>1, <3>1, <3>2, WorkspaceOnly
  <2> QED
    BY <2>2, <2>3
<1>3. allowed' \in [Keys -> SUBSET (Vals \cup {None})]
  BY <1>1 DEF KvInv, Settled
<1>4. pc' \in Calm /\ gc'.from # "search"
  BY <1>1, Described DEF Calm
<1>5. Scanning' /\ Setting' /\ Moving' /\ pc' \in PC
  BY <1>4, CalmRight
<1>6. Indexed' /\ Sources'
  BY <1>1, <1>2 DEF KvInv, Indexed, Sources
<1> QED
  BY <1>1, <1>2, <1>3, <1>5, <1>6 DEF KvInv

-----------------------------------------------------------------------------
(* The steps: garbage collection                                             *)

\* A step that changes the destination and its entry of the index
LEMMA DstStep ==
    ASSUME KvInv, pc \in Collecting \ {"gc_magic"}, pc' \in Collecting \ {"gc_magic"},
           NEW y \in Block, LaidOut(y), y.items # << >> \/ y.src = flash[gc.dst].src,
           flash[gc.dst].items # << >> => y.items # << >>,
           flash' = [flash EXCEPT ![gc.dst] = y], RamOk(ram'), Entry(ram, ram', gc.dst),
           gc' \in Gc, gc'.src = gc.src, gc'.dst = gc.dst, gc'.from = gc.from, Moving',
           UNCHANGED <<cur, op, cycles, allowed>>
    PROVE  KvInv'
<1> PICK d : d = gc.dst
  OBVIOUS
<1>1. d \in Blocks
  BY DEF KvInv, Gc
<1>2. /\ flash' \in [Blocks -> Block] /\ flash'[d] = y
      /\ \A c \in Blocks \ {d} : flash'[c] = flash[c]
  BY <1>1, Replaced DEF KvInv
<1>3. Sources' /\ \A b \in Blocks : LaidOut(flash'[b])
  BY <1>1, <1>2 DEF KvInv, Sources
<1>4. Exempt = {d} /\ Exempt' = {d}
  BY DEF Exempt, Collecting, Copying, Saving
<1>5. ASSUME NEW b \in Blocks \ {d} PROVE Describes(ram', flash', b)
  <2>1. Describes(ram, flash, b)
    BY <1>4 DEF KvInv, Indexed
  <2>2. Describes(ram', flash, b)
    BY <2>1, SameEntry DEF Entry
  <2> QED
    BY <1>2, <2>2 DEF Describes
<1>6. Indexed'
  BY <1>4, <1>5 DEF Indexed
<1>7. Scanning' /\ Setting' /\ pc' \in PC
  BY DEF KvInv, Scanning, Setting, Saving, Collecting, Copying, PC
<1> QED
  BY <1>2, <1>3, <1>6, <1>7 DEF KvInv

\* A step that changes no index
LEMMA NoEntry == ASSUME NEW r \in Ram, NEW b PROVE Entry(r, r, b)
  BY DEF Entry

\* An item ends inside its block, and a later one starts no earlier.
LEMMA InBlock ==
    ASSUME NEW x \in Block, LaidOut(x), NEW n \in DOMAIN x.items
    PROVE  /\ x.items[n] \in Slot /\ n \in Nat
           /\ x.items[n].off + Extent(x.items[n]) <= BlkFresh
           /\ n + 1 \in DOMAIN x.items =>
                  x.items[n].off + Extent(x.items[n]) <= x.items[n + 1].off
           /\ n + 1 \notin DOMAIN x.items =>
                  x.items[n].off + Extent(x.items[n]) = WalkEnd(x)
           /\ \A i \in Nat : i >= 1 /\ i <= n =>
                  i \in DOMAIN x.items /\ x.items[i].off <= x.items[n].off
<1> PICK k : k = Len(x.items)
  OBVIOUS
<1>1. /\ DOMAIN x.items = 1 .. k /\ k \in Nat /\ x.items # << >>
      /\ \A i \in 1 .. k : /\ x.items[i] \in Slot /\ x.items[i].off \in Nat
                           /\ Extent(x.items[i]) \in Nat \ {0}
  BY ItemsOf
<1>2. n \in 1 .. k /\ k \in 1 .. k
  BY <1>1
<1>3. WalkEnd(x) = x.items[k].off + Extent(x.items[k]) /\ WalkEnd(x) <= BlkFresh
  BY <1>1, ItemsOf DEF LaidOut, LastItem
<1>4. \A i, j \in 1 .. k : i < j => x.items[i].off + Extent(x.items[i]) <= x.items[j].off
  BY <1>1 DEF LaidOut
<1>5. n < k => x.items[n].off + Extent(x.items[n]) <= x.items[k].off
  BY <1>2, <1>4
<1>6. /\ x.items[n].off \in Nat /\ Extent(x.items[n]) \in Nat /\ x.items[k].off \in Nat
      /\ Extent(x.items[k]) \in Nat /\ x.items[n] \in Slot
  BY <1>1, <1>2
<1>7. x.items[n].off + Extent(x.items[n]) <= BlkFresh
  <2>1. CASE n = k
    BY <1>3, <2>1
  <2>2. CASE n # k
    BY <1>1, <1>2, <1>3, <1>5, <1>6, <2>2, BlocksNat, SMTT(30)
  <2> QED
    BY <2>1, <2>2
<1>8. n + 1 \in DOMAIN x.items => x.items[n].off + Extent(x.items[n]) <= x.items[n + 1].off
  <2> SUFFICES ASSUME n + 1 \in DOMAIN x.items
               PROVE  x.items[n].off + Extent(x.items[n]) <= x.items[n + 1].off
    OBVIOUS
  <2>1. n + 1 \in 1 .. k /\ n < n + 1
    BY <1>1, <1>2
  <2> QED
    BY <1>2, <1>4, <2>1
<1>9. n + 1 \notin DOMAIN x.items => x.items[n].off + Extent(x.items[n]) = WalkEnd(x)
  <2>1. n + 1 \notin DOMAIN x.items => n = k
    BY <1>1, <1>2
  <2> QED
    BY <1>3, <2>1
<1>10. ASSUME NEW i \in Nat, i >= 1, i <= n
       PROVE  i \in DOMAIN x.items /\ x.items[i].off <= x.items[n].off
  <2>1. i \in 1 .. k
    BY <1>1, <1>2, <1>10
  <2>2. x.items[i].off \in Nat /\ Extent(x.items[i]) \in Nat
    BY <1>1, <2>1
  <2>3. i < n => x.items[i].off + Extent(x.items[i]) <= x.items[n].off
    BY <1>2, <1>4, <2>1
  <2>4. x.items[i].off <= x.items[n].off
    <3>1. CASE i = n
      BY <1>6, <3>1
    <3>2. CASE i # n
      <4>1. i < n
        BY <1>1, <1>2, <1>10, <3>2
      <4> QED
        BY <1>6, <2>2, <2>3, <4>1, SMTT(30)
    <3> QED
      BY <3>1, <3>2
  <2> QED
    BY <1>1, <2>1, <2>4
<1>11. n \in Nat
  BY <1>2
<1> QED
  BY <1>6, <1>7, <1>8, <1>9, <1>10, <1>11, Zenon

LEMMA GcMarkDstStep == ASSUME KvInv, GcMarkDst PROVE KvInv'
<1> PICK d : d = gc.dst
  OBVIOUS
<1>1. pc = "gc_dst" /\ pc' = "gc_copy" /\ UNCHANGED <<ram, cur, op, gc, cycles, allowed>>
  BY DEF GcMarkDst
<1>2. /\ flash \in [Blocks -> Block] /\ d \in Blocks /\ gc.src \in Blocks /\ gc.src # d
      /\ gc.from \in {"search", "locate", "incomplete"} /\ gc.i = 1
      /\ flash[d].items = << >> /\ "fresh" \in ram.flags[d]
      /\ ram.free[d] = BlkFresh - WalkEnd(flash[d])
  BY <1>1 DEF KvInv, Moving, Gc, Collecting, Copying
<1>3. \E y : /\ [flash EXCEPT ![d].dst = TRUE] = [flash EXCEPT ![d] = y]
             /\ y \in Block /\ y.items = flash[d].items /\ y.src = flash[d].src
  <2>1. flash \in [Blocks -> Block] /\ d \in Blocks
    BY <1>2
  <2> QED
    BY <2>1, MarkPut, ZenonT(40)
<1>4. flash' = [flash EXCEPT ![d].dst = TRUE]
  BY DEF GcMarkDst
<1>5. PICK y : /\ flash' = [flash EXCEPT ![d] = y]
               /\ y \in Block /\ y.items = flash[d].items /\ y.src = flash[d].src
  BY <1>3, <1>4, Zenon
<1>6. Alike(flash[d], y)
  BY <1>2, <1>5 DEF Alike
<1>7. LaidOut(y) /\ WalkEnd(y) = WalkEnd(flash[d]) /\ WalkEnd(y) = 0
  BY <1>2, <1>5, <1>6, AlikeSame, ItemsOf DEF KvInv
<1>8. flash'[d] = y /\ flash'[gc.src] = flash[gc.src]
  BY <1>2, <1>5
<1>9. Reach(1)' \in Nat
  BY <1>1, <1>2, <1>8, ItemsOf, Sizes DEF Reach
<1>10. 0 <= Reach(1)'
  BY <1>9
<1>11. Moving'
  BY <1>1, <1>2, <1>7, <1>8, <1>10 DEF Moving, Collecting, Copying
<1>12. RamOk(ram') /\ Entry(ram, ram', d)
  BY <1>1, NoEntry DEF KvInv, RamOk
<1> QED
  BY <1>1, <1>5, <1>7, <1>11, <1>12, DstStep DEF KvInv, Collecting, Copying

\* The next item to copy
LEMMA NextToCopyIn ==
    ASSUME KvInv, pc = "gc_copy", ToCopy # {}
    PROVE  /\ NextToCopy \in DOMAIN flash[gc.src].items /\ NextToCopy >= gc.i
           /\ Live(flash[gc.src].items[NextToCopy])
<1>1. gc.src \in Blocks /\ flash[gc.src] \in Block
  BY DEF KvInv, Gc
<1>2. ToCopy \subseteq Nat
  BY <1>1, ItemsOf DEF ToCopy
<1>3. \E i \in ToCopy : \A j \in ToCopy : i <= j
  BY <1>2, LeastOf
<1>4. NextToCopy \in ToCopy
  BY <1>3 DEF NextToCopy
<1> QED
  BY <1>4 DEF ToCopy

\* The copy of an item that is live fits where the item itself fits.
LEMMA CopyFits ==
    ASSUME NEW x \in Block, LaidOut(x), NEW n \in DOMAIN x.items, Live(x.items[n]),
           NEW off \in Nat, off <= x.items[n].off
    PROVE  /\ x.items[n] \in Slot /\ x.items[n].val \in Vals
           /\ Extent(x.items[n]) = ItemSize(x.items[n].val)
           /\ off + ItemSize(x.items[n].val) <= x.items[n].off + Extent(x.items[n])
           /\ off + ItemSize(x.items[n].val) <= BlkFresh
           /\ off + HdrSize <= BlkFresh
<1>1. /\ x.items[n] \in Slot /\ x.items[n].off + Extent(x.items[n]) <= BlkFresh
  BY InBlock
<1>2. x.items[n].val \in Vals /\ x.items[n].off \in Nat
  BY <1>1 DEF Slot
<1>3. ItemSize(x.items[n].val) \in Nat /\ ItemSize(x.items[n].val) > HdrSize
  BY <1>2, Sizes
<1>4. Extent(x.items[n]) = ItemSize(x.items[n].val)
  BY DEF Extent, Live
<1> QED
  BY <1>1, <1>2, <1>3, <1>4, BlocksNat

LEMMA GcCopyHeaderStep == ASSUME KvInv, GcCopyHeader PROVE KvInv'
<1> PICK d, n, x, s, t : /\ d = gc.dst /\ n = NextToCopy /\ x = flash[gc.src]
                         /\ s = x.items[n]
                         /\ t = NewSlot(UsableOff(ram, d), s.key, s.val, s.prev)
  OBVIOUS
<1>1. /\ pc = "gc_copy" /\ pc' = "c_magic" /\ ToCopy # {} /\ flash' = PutHeader(d, t)
      /\ gc' = [gc EXCEPT !.i = n] /\ UNCHANGED <<ram, cur, op, cycles, allowed>>
  BY DEF GcCopyHeader
<1>2. /\ flash \in [Blocks -> Block] /\ d \in Blocks /\ gc.src \in Blocks /\ gc.src # d
      /\ gc.i \in Nat /\ gc.i >= 1 /\ WalkEnd(flash[d]) <= Reach(gc.i)
      /\ "fresh" \in ram.flags[d] /\ ram.free[d] = BlkFresh - WalkEnd(flash[d])
      /\ gc.from \in {"search", "locate", "incomplete"} /\ gc \in Gc
  BY <1>1 DEF KvInv, Moving, Gc, Collecting, Copying
<1>3. x \in Block /\ LaidOut(x) /\ flash[d] \in Block /\ LaidOut(flash[d])
  BY <1>2 DEF KvInv
<1>4. n \in DOMAIN x.items /\ n >= gc.i /\ Live(s)
  BY <1>1, NextToCopyIn
<1>5. n \in Nat /\ gc.i \in DOMAIN x.items /\ x.items[gc.i].off <= s.off
  BY <1>2, <1>3, <1>4, InBlock
<1>6. WalkEnd(flash[d]) <= s.off /\ WalkEnd(flash[d]) \in Nat
  <2>1. Reach(gc.i) = x.items[gc.i].off
    BY <1>5 DEF Reach
  <2>2. WalkEnd(flash[d]) \in Nat /\ x.items[gc.i].off \in Nat /\ s.off \in Nat
    BY <1>3, <1>4, <1>5, Sizes, InBlock
  <2> QED
    BY <1>2, <1>5, <2>1, <2>2, SMTT(30)
<1>7. s \in Slot /\ WalkEnd(flash[d]) + HdrSize <= BlkFresh
  BY <1>3, <1>4, <1>6, CopyFits
<1>8. UsableOff(ram, d) = WalkEnd(flash[d])
  BY <1>2, <1>6, BlocksNat DEF UsableOff
<1>9. /\ t \in Slot /\ t.off = WalkEnd(flash[d]) /\ t.val = s.val /\ t.st = "hdr"
      /\ Extent(t) = HdrSize
  <2>1. t = [off |-> WalkEnd(flash[d]), st |-> "hdr", key |-> s.key, val |-> s.val,
             prev |-> s.prev, disc |-> FALSE]
    BY <1>8 DEF NewSlot
  <2>2. s.key \in Keys /\ s.val \in Vals /\ s.prev \in Pos
    BY <1>7 DEF Slot
  <2>3. t \in Slot /\ t.off = WalkEnd(flash[d]) /\ t.val = s.val /\ t.st = "hdr"
    BY <1>6, <2>1, <2>2 DEF Slot, Stages
  <2> QED
    BY <2>3 DEF Extent, Legal
<1>10. PICK y : flash' = [flash EXCEPT ![d] = y] /\ WithItems(flash[d], y, Append(flash[d].items, t))
  BY <1>1, <1>2, <1>9, HeaderPut
<1>11. y \in Block /\ y.items = Append(flash[d].items, t)
  BY <1>10 DEF WithItems
<1>12. LaidOut(y) /\ y.items # << >> /\ LastItem(y) = t
  <2>1. /\ flash[d] \in Block /\ y \in Block /\ t \in Slot /\ LaidOut(flash[d])
        /\ y.items = Append(flash[d].items, t) /\ t.off = WalkEnd(flash[d])
        /\ t.off + Extent(t) <= BlkFresh
    BY <1>3, <1>7, <1>9, <1>11
  <2> QED
    BY <2>1, Appended, SMTT(30)
<1>13. flash'[d] = y /\ flash'[gc.src] = x
  BY <1>2, <1>10
<1>14. gc' \in Gc /\ gc'.src = gc.src /\ gc'.dst = d /\ gc'.from = gc.from /\ gc'.i = n
  BY <1>1, <1>2, <1>5 DEF Gc
<1>15. t.off = BlkFresh - ram.free[d] /\ t.off <= s.off
  BY <1>6, <1>8, <1>9 DEF UsableOff
<1>16. Moving'
  BY <1>1, <1>2, <1>4, <1>9, <1>12, <1>13, <1>14, <1>15 DEF Moving, Collecting, Copying
<1>17. RamOk(ram') /\ Entry(ram, ram', d)
  BY <1>1, NoEntry DEF KvInv, RamOk
<1> QED
  BY <1>1, <1>10, <1>11, <1>12, <1>14, <1>16, <1>17, DstStep DEF Collecting, Copying

\* What is known while an item is copied
LEMMA CopyFacts ==
    ASSUME KvInv, pc \in Copying
    PROVE  LET d == gc.dst
               x == flash[gc.src]
               s == x.items[gc.i]
               t == LastItem(flash[d])
           IN  /\ flash \in [Blocks -> Block] /\ d \in Blocks /\ gc.src \in Blocks /\ gc.src # d
               /\ gc \in Gc /\ gc.from \in {"search", "locate", "incomplete"}
               /\ "fresh" \in ram.flags[d] /\ x \in Block /\ LaidOut(x)
               /\ gc.i \in DOMAIN x.items /\ Live(s) /\ s \in Slot /\ s.val \in Vals
               /\ flash[d] \in Block /\ LaidOut(flash[d]) /\ flash[d].items # << >>
               /\ t \in Slot /\ t.off \in Nat /\ t.val = s.val /\ t.off <= s.off
               /\ t.off = BlkFresh - ram.free[d]
               /\ t.off + ItemSize(s.val) <= s.off + Extent(s)
               /\ t.off + ItemSize(s.val) <= BlkFresh
<1> PICK d, x, s, t : /\ d = gc.dst /\ x = flash[gc.src] /\ s = x.items[gc.i]
                      /\ t = LastItem(flash[d])
  OBVIOUS
<1>1. /\ flash \in [Blocks -> Block] /\ d \in Blocks /\ gc.src \in Blocks /\ gc \in Gc
  BY DEF KvInv, Gc
<1>2. /\ gc.src # d /\ gc.from \in {"search", "locate", "incomplete"} /\ "fresh" \in ram.flags[d]
  BY DEF KvInv, Moving, Collecting
<1>3. /\ gc.i \in DOMAIN x.items /\ Live(s) /\ flash[d].items # << >>
      /\ t.val = s.val /\ t.off <= s.off /\ t.off = BlkFresh - ram.free[d]
  BY DEF KvInv, Moving
<1>4. x \in Block /\ LaidOut(x) /\ flash[d] \in Block /\ LaidOut(flash[d])
  BY <1>1 DEF KvInv
<1>5. t \in Slot /\ t.off \in Nat
  BY <1>3, <1>4, ItemsOf DEF Slot
<1>6. /\ s \in Slot /\ s.val \in Vals
      /\ t.off + ItemSize(s.val) <= s.off + Extent(s) /\ t.off + ItemSize(s.val) <= BlkFresh
  BY <1>3, <1>4, <1>5, CopyFits
<1> QED
  BY <1>1, <1>2, <1>3, <1>4, <1>5, <1>6

\* The next part of the copy is written: its magic word, its key or its value.
LEMMA CopyStage ==
    ASSUME KvInv, pc \in Copying, NEW st \in Stages \ {"hdr"}, flash' = PutStage(gc.dst, st)
    PROVE  \E y \in Block :
               /\ flash' = [flash EXCEPT ![gc.dst] = y] /\ LaidOut(y) /\ y.items # << >>
               /\ flash'[gc.dst] = y /\ flash'[gc.src] = flash[gc.src]
               /\ LastItem(y).st = st /\ LastItem(y).off = LastItem(flash[gc.dst]).off
               /\ LastItem(y).val = LastItem(flash[gc.dst]).val
               /\ WalkEnd(y) = LastItem(y).off + ItemSize(LastItem(y).val)
<1> PICK d : d = gc.dst
  OBVIOUS
<1>1. /\ flash \in [Blocks -> Block] /\ d \in Blocks /\ gc.src \in Blocks /\ gc.src # d
      /\ flash[d] \in Block /\ LaidOut(flash[d]) /\ flash[d].items # << >>
      /\ LastItem(flash[d]).off + ItemSize(LastItem(flash[d]).val) <= BlkFresh
  BY CopyFacts
<1>2. PICK y : /\ PutStage(d, st) = [flash EXCEPT ![d] = y]
               /\ WithItems(flash[d], y, y.items)
               /\ Len(y.items) = Len(flash[d].items) /\ y.items # << >>
               /\ \A i \in 1 .. Len(y.items) - 1 : y.items[i] = flash[d].items[i]
               /\ LastItem(y).st = st /\ LastItem(y).off = LastItem(flash[d]).off
               /\ LastItem(y).key = LastItem(flash[d]).key
               /\ LastItem(y).val = LastItem(flash[d]).val
               /\ LastItem(y).prev = LastItem(flash[d]).prev
               /\ LastItem(y).disc = LastItem(flash[d]).disc
  <2>1. /\ flash \in [Blocks -> Block] /\ d \in Blocks /\ st \in Stages
        /\ flash[d].items # << >>
    BY <1>1
  <2> QED
    BY <2>1, StagePut, Zenon
<1>3. y \in Block
  BY <1>2 DEF WithItems
<1>4. Extent(LastItem(y)) = ItemSize(LastItem(y).val)
  BY <1>2 DEF Extent, Legal
<1>5. LaidOut(y) /\ y.items # << >> /\ WalkEnd(y) = LastItem(y).off + Extent(LastItem(y))
  <2>1. /\ flash[d] \in Block /\ y \in Block /\ LaidOut(flash[d]) /\ flash[d].items # << >>
        /\ Len(y.items) = Len(flash[d].items)
        /\ \A i \in 1 .. Len(flash[d].items) - 1 : y.items[i] = flash[d].items[i]
        /\ LastItem(y).off = LastItem(flash[d]).off
        /\ LastItem(y).off + Extent(LastItem(y)) <= BlkFresh
    BY <1>1, <1>2, <1>3, <1>4
  <2> QED
    BY <2>1, Staged, Zenon
<1>6. flash' = [flash EXCEPT ![d] = y]
  BY <1>2
<1>7. flash'[d] = y /\ flash'[gc.src] = flash[gc.src]
  BY <1>1, <1>6
<1> QED
  BY <1>2, <1>3, <1>4, <1>5, <1>6, <1>7, ZenonT(40)

LEMMA GcCopyPartStep == ASSUME KvInv, GcCopyMagic \/ GcCopyKey PROVE KvInv'
<1> PICK st : st = IF pc = "c_magic" THEN "magic" ELSE "key"
  OBVIOUS
<1>1. /\ pc \in {"c_magic", "c_key"} /\ pc' = (IF pc = "c_magic" THEN "c_key" ELSE "c_val")
      /\ flash' = PutStage(gc.dst, st) /\ UNCHANGED <<ram, cur, op, gc, cycles, allowed>>
  BY DEF GcCopyMagic, GcCopyKey
<1>2. pc \in Copying /\ pc' \in Copying /\ st \in Stages \ {"hdr"}
  BY <1>1 DEF Copying, Stages
<1>3. PICK y \in Block :
          /\ flash' = [flash EXCEPT ![gc.dst] = y] /\ LaidOut(y) /\ y.items # << >>
          /\ flash'[gc.dst] = y /\ flash'[gc.src] = flash[gc.src]
          /\ LastItem(y).st = st /\ LastItem(y).off = LastItem(flash[gc.dst]).off
          /\ LastItem(y).val = LastItem(flash[gc.dst]).val
  BY <1>1, <1>2, CopyStage
<1>4. st = IF pc' = "c_magic" THEN "hdr" ELSE IF pc' = "c_key" THEN "magic" ELSE "key"
  BY <1>1
<1>5. Moving'
  BY <1>1, <1>2, <1>3, <1>4 DEF KvInv, Moving, Collecting, Copying
<1>6. RamOk(ram') /\ Entry(ram, ram', gc.dst) /\ gc' \in Gc
  BY <1>1, NoEntry DEF KvInv, RamOk
<1> QED
  BY <1>1, <1>2, <1>3, <1>5, <1>6, DstStep DEF Collecting, Copying

LEMMA GcCopyValStep == ASSUME KvInv, GcCopyVal PROVE KvInv'
<1> PICK d, x, n, s, t : /\ d = gc.dst /\ x = flash[gc.src] /\ n = gc.i /\ s = x.items[n]
                         /\ t = LastItem(flash[d])
  OBVIOUS
<1>1. /\ pc = "c_val" /\ pc' = "gc_copy" /\ flash' = PutStage(d, s.st)
      /\ ram' = kv_blk_freesz_reduce(ram, d, ItemSize(s.val))
      /\ gc' = [gc EXCEPT !.i = @ + 1] /\ UNCHANGED <<cur, op, cycles, allowed>>
  BY DEF GcCopyVal
<1>2. /\ d \in Blocks /\ gc.src \in Blocks /\ gc.src # d
      /\ gc \in Gc /\ gc.from \in {"search", "locate", "incomplete"}
      /\ "fresh" \in ram.flags[d] /\ x \in Block /\ LaidOut(x)
      /\ n \in DOMAIN x.items /\ Live(s) /\ s \in Slot /\ s.val \in Vals
      /\ t.off \in Nat /\ t.val = s.val
      /\ t.off = BlkFresh - ram.free[d] /\ t.off + ItemSize(s.val) <= s.off + Extent(s)
  BY <1>1, CopyFacts DEF Copying
<1>3. s.st \in Stages \ {"hdr"} /\ ItemSize(s.val) \in Nat /\ n \in Nat
  <2>1. s.st \in Stages /\ s.st # "hdr"
    BY <1>2 DEF Live, Legal, Slot
  <2>2. ItemSize(s.val) \in Nat
    BY <1>2, Sizes
  <2>3. n \in Nat
    BY <1>2 DEF Gc
  <2> QED
    BY <2>1, <2>2, <2>3
<1>4. pc \in Copying /\ pc' \in Collecting \ Copying
  BY <1>1 DEF Copying, Collecting
<1>5. PICK y \in Block :
          /\ flash' = [flash EXCEPT ![d] = y] /\ LaidOut(y) /\ y.items # << >>
          /\ flash'[d] = y /\ flash'[gc.src] = x
          /\ LastItem(y).off = t.off /\ LastItem(y).val = t.val
          /\ WalkEnd(y) = LastItem(y).off + ItemSize(LastItem(y).val)
  BY <1>1, <1>3, <1>4, CopyStage
<1>6. WalkEnd(y) = t.off + ItemSize(s.val)
  BY <1>2, <1>5
<1>7. RamOk(ram) /\ ram \in Ram /\ ram.free[d] \in Int
  BY <1>2 DEF KvInv, RamOk, Ram
<1>8. /\ Entry(ram, ram', d) /\ ram'.flags = ram.flags
      /\ ram'.free[d] = ram.free[d] - ItemSize(s.val)
      /\ ram'.numFresh = ram.numFresh /\ ram'.numInuse = ram.numInuse
  <2>1. ram \in Ram /\ d \in Blocks /\ ItemSize(s.val) \in Int
    BY <1>2, <1>3, <1>7
  <2>2. ram' = kv_blk_freesz_reduce(ram, d, ItemSize(s.val))
    BY <1>1
  <2> QED
    BY <2>1, <2>2, Reduce, SMTT(30)
<1>9. ram.flags[d] = {"fresh"} /\ ram'.flags[d] = {"fresh"}
  BY <1>2, <1>7, <1>8 DEF RamOk, FlagsRight
<1>10. RamOk(ram')
  <2>1. ram.numFresh \in Int /\ ram.numInuse \in Int
    BY <1>7 DEF Ram
  <2>2. /\ ram'.numFresh = ram.numFresh + (IF "fresh" \in ram'.flags[d] THEN 1 ELSE 0)
                           - (IF "fresh" \in ram.flags[d] THEN 1 ELSE 0)
        /\ ram'.numInuse >= ram.numInuse + (IF "inuse" \in ram'.flags[d] THEN 1 ELSE 0)
                            - (IF "inuse" \in ram.flags[d] THEN 1 ELSE 0)
        /\ "fresh" \in ram'.flags[d] => ram'.flags[d] = {"fresh"}
        /\ "inuse" \in ram'.flags[d] => ram'.free[d] > HdrSize
    BY <1>8, <1>9, <2>1
  <2> QED
    BY <1>2, <1>7, <1>8, <2>2, EntryRight
<1>11. ram'.free[d] = BlkFresh - WalkEnd(y)
  BY <1>2, <1>3, <1>6, <1>7, <1>8, BlocksNat, SMTT(30)
<1>12. /\ gc' \in Gc /\ gc'.src = gc.src /\ gc'.dst = d /\ gc'.from = gc.from /\ gc'.i = n + 1
  BY <1>1, <1>2, <1>3, SMTT(30) DEF Gc
<1>13. WalkEnd(y) <= Reach(gc.i)'
  <2>1. Reach(gc.i)' = IF n + 1 \in DOMAIN x.items THEN x.items[n + 1].off ELSE WalkEnd(x)
    BY <1>5, <1>12 DEF Reach
  <2>2. /\ n + 1 \in DOMAIN x.items => s.off + Extent(s) <= x.items[n + 1].off
        /\ n + 1 \notin DOMAIN x.items => s.off + Extent(s) = WalkEnd(x)
    BY <1>2, InBlock
  <2>3. /\ s.off \in Nat /\ Extent(s) \in Nat /\ WalkEnd(x) \in Nat
        /\ n + 1 \in DOMAIN x.items => x.items[n + 1].off \in Nat
    BY <1>2, ItemsOf, Sizes
  <2>4. s.off + Extent(s) <= Reach(gc.i)' /\ Reach(gc.i)' \in Nat
    BY <2>1, <2>2, <2>3
  <2> QED
    BY <1>2, <1>3, <1>6, <2>3, <2>4, SMTT(30)
<1>14. gc'.i >= 1
  BY <1>3, <1>12
<1>15. Moving'
  BY <1>1, <1>2, <1>5, <1>9, <1>11, <1>12, <1>13, <1>14 DEF Moving, Collecting, Copying
<1> QED
  BY <1>1, <1>5, <1>8, <1>10, <1>12, <1>15, DstStep DEF Collecting, Copying

LEMMA GcEraseSrcStep == ASSUME KvInv, GcEraseSrc PROVE KvInv'
<1> PICK d, s, w : d = gc.dst /\ s = gc.src /\ w = WalkAll(ram, flash, {s})
  OBVIOUS
<1>1. /\ pc = "gc_copy" /\ pc' = "gc_magic" /\ ram' = kv_blk_reset_inuse(w, s)
      /\ flash' = [flash EXCEPT ![s] = Erased] /\ UNCHANGED <<cur, op, gc, cycles, allowed>>
  BY DEF GcEraseSrc
<1>2. /\ flash \in [Blocks -> Block] /\ d \in Blocks /\ s \in Blocks /\ s # d /\ RamOk(ram)
      /\ gc.from \in {"search", "locate", "incomplete"}
      /\ "fresh" \in ram.flags[d] /\ ram.free[d] = BlkFresh - WalkEnd(flash[d])
  BY <1>1 DEF KvInv, Moving, Gc, Collecting, Copying
<1>3. /\ flash' \in [Blocks -> Block] /\ flash'[s] = Erased
      /\ \A c \in Blocks \ {s} : flash'[c] = flash[c]
  BY <1>1, <1>2, Replaced, ErasedRight
<1>4. Exempt = {d} /\ Exempt' = {s, d}
  BY <1>1 DEF Exempt, Collecting, Copying, Saving
<1>5. \A b \in Blocks \ {d} : Describes(ram, flash, b)
  BY <1>4 DEF KvInv, Indexed
<1>6. \A b \in {s} : "fresh" \in ram.flags[b] => flash[b].items = << >>
  BY <1>2, <1>5 DEF Describes, Fresh
<1>7. /\ RamOk(w)
      /\ \A b \in Blocks \ {s} : w.flags[b] = ram.flags[b] /\ w.free[b] = ram.free[b]
  BY <1>2, <1>6, WalkAllRight
<1>8. RamOk(ram') /\ Entry(w, ram', s)
  BY <1>1, <1>2, <1>7, ResetInuse
<1>9. \A b \in Blocks \ {s} : ram'.flags[b] = ram.flags[b] /\ ram'.free[b] = ram.free[b]
  BY <1>7, <1>8, ZenonT(40) DEF Entry
<1>10. ASSUME NEW b \in Blocks \ {s, d} PROVE Describes(ram', flash', b)
  <2>1. Describes(ram', flash, b)
    BY <1>5, <1>9, SameEntry
  <2> QED
    BY <1>3, <2>1 DEF Describes
<1>11. Indexed'
  BY <1>4, <1>10 DEF Indexed
<1>12. Sources' /\ \A b \in Blocks : LaidOut(flash'[b])
  BY <1>3, ErasedRight DEF KvInv, Sources
<1>13. Scanning' /\ Setting' /\ pc' \in PC
  BY <1>1 DEF KvInv, Scanning, Setting, Saving, PC
<1>14. /\ ram'.flags[d] = ram.flags[d] /\ ram'.free[d] = ram.free[d] /\ flash'[d] = flash[d]
       /\ flash'[s].items = << >>
  BY <1>2, <1>3, <1>9, ErasedRight
<1>15. Moving'
  BY <1>1, <1>2, <1>14 DEF Moving, Collecting, Copying
<1> QED
  BY <1>1, <1>3, <1>8, <1>11, <1>12, <1>13, <1>15 DEF KvInv

LEMMA GcMagicSrcStep == ASSUME KvInv, GcMagicSrc PROVE KvInv'
<1> PICK d, s : d = gc.dst /\ s = gc.src
  OBVIOUS
<1>1. /\ pc = "gc_magic" /\ pc' = "gc_done" /\ ram' = kv_blk_set_fresh(ram, s)
      /\ UNCHANGED <<cur, op, gc, cycles, allowed>>
  BY DEF GcMagicSrc
<1>2. flash' = [flash EXCEPT ![s].magic = TRUE]
  BY DEF GcMagicSrc
<1>3. /\ d \in Blocks /\ s # d /\ RamOk(ram)
      /\ gc.from \in {"search", "locate", "incomplete"}
      /\ "fresh" \in ram.flags[d] /\ ram.free[d] = BlkFresh - WalkEnd(flash[d])
      /\ flash[s].items = << >>
  BY <1>1 DEF KvInv, Moving, Gc, Collecting, Copying
<1>4. flash \in [Blocks -> Block] /\ s \in Blocks
  BY DEF KvInv, Gc
<1>5. \E y : /\ [flash EXCEPT ![s].magic = TRUE] = [flash EXCEPT ![s] = y]
             /\ y \in Block /\ y.items = flash[s].items /\ y.src = flash[s].src
  BY <1>4, MarkPut, ZenonT(40)
<1>6. PICK y : /\ flash' = [flash EXCEPT ![s] = y]
               /\ y \in Block /\ y.items = flash[s].items /\ y.src = flash[s].src
  BY <1>2, <1>5, Zenon
<1>7. /\ flash' \in [Blocks -> Block] /\ flash'[s] = y
      /\ \A c \in Blocks \ {s} : flash'[c] = flash[c]
  BY <1>4, <1>6, Replaced
<1>8. Alike(flash[s], y)
  BY <1>4, <1>6 DEF Alike
<1>9. LaidOut(y) /\ y.items = << >> /\ WalkEnd(y) = 0
  BY <1>3, <1>4, <1>6, <1>8, AlikeSame, ItemsOf DEF KvInv
<1>10. /\ RamOk(ram') /\ Entry(ram, ram', s) /\ ram'.flags[s] = {"fresh"}
       /\ ram'.free[s] = BlkFresh
  BY <1>1, <1>3, <1>4, SetFresh
<1>11. Exempt = {s, d} /\ Exempt' = {d}
  BY <1>1 DEF Exempt, Collecting, Copying, Saving
<1>12. ASSUME NEW b \in Blocks \ {d} PROVE Describes(ram', flash', b)
  <2>1. CASE b = s
    BY <1>7, <1>9, <1>10, <2>1, BlocksNat DEF Describes, Dirty
  <2>2. CASE b # s
    <3>1. Describes(ram, flash, b)
      BY <1>11, <2>2 DEF KvInv, Indexed
    <3>2. Describes(ram', flash, b)
      BY <1>10, <2>2, <3>1, SameEntry DEF Entry
    <3> QED
      BY <1>7, <2>2, <3>2 DEF Describes
  <2> QED
    BY <2>1, <2>2
<1>13. Indexed'
  BY <1>11, <1>12 DEF Indexed
<1>14. Sources' /\ \A b \in Blocks : LaidOut(flash'[b])
  BY <1>6, <1>7, <1>9 DEF KvInv, Sources
<1>15. Scanning' /\ Setting' /\ pc' \in PC
  BY <1>1 DEF KvInv, Scanning, Setting, Saving, PC
<1>16. /\ ram'.flags[d] = ram.flags[d] /\ ram'.free[d] = ram.free[d] /\ flash'[d] = flash[d]
  BY <1>3, <1>7, <1>10 DEF Entry
<1>17. Moving'
  BY <1>1, <1>3, <1>16 DEF Moving, Collecting, Copying
<1> QED
  BY <1>1, <1>7, <1>10, <1>13, <1>14, <1>15, <1>17 DEF KvInv

LEMMA GcMarkDoneStep == ASSUME KvInv, GcMarkDone PROVE KvInv'
<1> PICK d, r, q : /\ d = gc.dst /\ r = kv_blk_reset_fresh(ram, d)
                   /\ q = IF kv_blk_is_full(r, d) THEN r ELSE kv_blk_set_inuse(r, d)
  OBVIOUS
<1>1. /\ pc = "gc_done" /\ gc' = NoGc /\ UNCHANGED <<cur, op, cycles, allowed>>
      /\ ram' = IF gc.from = "search" THEN [q EXCEPT !.workspace = d] ELSE q
  BY DEF GcMarkDone
<1>2. flash' = [flash EXCEPT ![d].done = TRUE]
  BY DEF GcMarkDone
<1>3. /\ RamOk(ram) /\ gc.from \in {"search", "locate", "incomplete"}
      /\ "fresh" \in ram.flags[d] /\ ram.free[d] = BlkFresh - WalkEnd(flash[d])
      /\ gc.from = "search" => op \in Op
  BY <1>1 DEF KvInv, Moving, Gc, Collecting, Copying, Setting
<1>4. flash \in [Blocks -> Block] /\ d \in Blocks
  BY DEF KvInv, Gc
<1>5. pc' \in {"search", "locate_ws", "locate"} /\ (pc' = "search" => op \in Op)
  BY <1>1, <1>3 DEF GcMarkDone
<1>6. \E y : /\ [flash EXCEPT ![d].done = TRUE] = [flash EXCEPT ![d] = y]
             /\ y \in Block /\ y.items = flash[d].items /\ y.src = flash[d].src
  BY <1>4, MarkPut, ZenonT(40)
<1>7. PICK y : /\ flash' = [flash EXCEPT ![d] = y]
               /\ y \in Block /\ y.items = flash[d].items /\ y.src = flash[d].src
  BY <1>2, <1>6, Zenon
<1>8. /\ flash' \in [Blocks -> Block] /\ flash'[d] = y
      /\ \A c \in Blocks \ {d} : flash'[c] = flash[c]
  BY <1>4, <1>7, Replaced
<1>9. LaidOut(y) /\ WalkEnd(y) = WalkEnd(flash[d])
  <2>1. Alike(flash[d], y)
    BY <1>4, <1>7 DEF Alike
  <2> QED
    BY <1>4, <2>1, AlikeSame DEF KvInv
<1>10. /\ RamOk(r) /\ Entry(ram, r, d) /\ r.flags[d] = {} /\ r.free = ram.free
  <2>1. ram.flags[d] = {"fresh"}
    BY <1>3, <1>4 DEF RamOk, FlagsRight
  <2>2. RamOk(ram) /\ d \in Blocks
    BY <1>3, <1>4
  <2>3. /\ RamOk(r) /\ Entry(ram, r, d) /\ r.flags[d] = ram.flags[d] \ {"fresh"}
        /\ r.free = ram.free
    BY <2>2, ResetFresh
  <2> QED
    BY <2>1, <2>3
<1>11. RamOk(q) /\ Entry(ram, q, d) /\ q.flags[d] \subseteq {"inuse"} /\ q.free[d] = ram.free[d]
  <2>1. CASE kv_blk_is_full(r, d)
    BY <1>10, <2>1
  <2>2. CASE ~kv_blk_is_full(r, d)
    <3>1. r.free[d] > HdrSize
      <4>1. r.free[d] \in Int
        BY <1>4, <1>10 DEF RamOk, Ram
      <4> QED
        BY <2>2, <4>1, BlocksNat DEF kv_blk_is_full
    <3>2. "fresh" \notin r.flags[d] /\ q = kv_blk_set_inuse(r, d)
      BY <1>10, <2>2
    <3>3. /\ RamOk(q) /\ Entry(r, q, d) /\ q.flags[d] = r.flags[d] \cup {"inuse"}
          /\ q.free[d] = r.free[d]
      BY <1>4, <1>10, <3>1, <3>2, SetInuse
    <3> QED
      BY <1>10, <3>3 DEF Entry
  <2> QED
    BY <2>1, <2>2
<1>12. /\ RamOk(ram') /\ \A b \in Blocks \ {d} : /\ ram'.flags[b] = ram.flags[b]
                                                 /\ ram'.free[b] = ram.free[b]
       /\ ram'.flags[d] \subseteq {"inuse"} /\ ram'.free[d] = ram.free[d]
  <2>1. CASE ram' = q
    BY <1>11, <2>1 DEF Entry
  <2>2. CASE ram' = [q EXCEPT !.workspace = d]
    <3>1. RamOk(ram') /\ ram'.flags = q.flags /\ ram'.free = q.free
      BY <1>4, <1>11, <2>2, WorkspaceOnly
    <3> QED
      BY <1>11, <3>1 DEF Entry
  <2> QED
    BY <1>1, <2>1, <2>2
<1>13. ASSUME NEW b \in Blocks PROVE Describes(ram', flash', b)
  <2>1. CASE b = d
    BY <1>3, <1>8, <1>9, <1>12, <2>1 DEF Describes, Dirty, Fresh
  <2>2. CASE b # d
    <3>1. Describes(ram, flash, b)
      BY <1>1, <2>2 DEF KvInv, Indexed, Exempt, Collecting, Copying, Saving
    <3>2. Describes(ram', flash, b)
      BY <1>12, <2>2, <3>1, SameEntry
    <3> QED
      BY <1>8, <2>2, <3>2 DEF Describes
  <2> QED
    BY <2>1, <2>2
<1>14. Indexed'
  BY <1>13 DEF Indexed
<1>15. Sources' /\ \A b \in Blocks : LaidOut(flash'[b])
  BY <1>7, <1>8, <1>9 DEF KvInv, Sources
<1>16. gc' \in Gc /\ gc'.from = "idle"
  BY <1>1, NoGcTyped
<1>17. Scanning' /\ Setting' /\ Moving' /\ pc' \in PC
  BY <1>1, <1>5, <1>16 DEF Scanning, Setting, Moving, Saving, Collecting, Copying, PC
<1> QED
  BY <1>1, <1>8, <1>12, <1>14, <1>15, <1>16, <1>17 DEF KvInv

-----------------------------------------------------------------------------
(* The steps: lookups, deletion and saving                                   *)

\* A lookup by key or by copy may refresh the index, and what it finds is an item of a
\* block that is not fresh, before the lookup and after it.
LEMMA Search ==
    ASSUME KvInv, pc \in {"idle", "search"}, NEW m,
           (\E k : m = KeyMatch(flash, k)) \/ (\E s : m = CopyMatch(flash, s))
    PROVE  LET q == FindRam(ram, flash, m)
               at == FindItem(ram, m)
           IN  /\ RamOk(q) /\ q.workspace = ram.workspace
               /\ \A b \in Blocks : /\ Describes(q, flash, b)
                                    /\ ram.free[b] > HdrSize => q.free[b] = ram.free[b]
               /\ at # NoItem => at[1] \in Blocks /\ at[2] \in DOMAIN flash[at[1]].items
<1>1. flash \in [Blocks -> Block] /\ RamOk(ram) /\ \A b \in Blocks : Describes(ram, flash, b)
  BY Described DEF KvInv, Calm
<1>2. /\ m \in [Blocks -> SUBSET Nat]
      /\ \A b \in Blocks : m[b] \subseteq DOMAIN flash[b].items
  BY <1>1, Matches
<1>3. /\ RamOk(FindRam(ram, flash, m)) /\ FindRam(ram, flash, m).workspace = ram.workspace
      /\ \A b \in Blocks : /\ Describes(FindRam(ram, flash, m), flash, b)
                           /\ ram.free[b] > HdrSize =>
                                  FindRam(ram, flash, m).free[b] = ram.free[b]
  BY <1>1, <1>2, FindRamRight
<1>4. FindItem(ram, m) # NoItem =>
          \E b \in Blocks : \E i \in m[b] : FindItem(ram, m) = <<b, i>>
  BY <1>2, Found
<1>5. FindItem(ram, m) # NoItem =>
          /\ FindItem(ram, m)[1] \in Blocks
          /\ FindItem(ram, m)[2] \in DOMAIN flash[FindItem(ram, m)[1]].items
  <2> SUFFICES ASSUME FindItem(ram, m) # NoItem
               PROVE  /\ FindItem(ram, m)[1] \in Blocks
                      /\ FindItem(ram, m)[2] \in DOMAIN flash[FindItem(ram, m)[1]].items
    OBVIOUS
  <2>1. PICK b \in Blocks : \E i \in m[b] : FindItem(ram, m) = <<b, i>>
    BY <1>4
  <2>2. PICK i \in m[b] : FindItem(ram, m) = <<b, i>>
    BY <2>1
  <2> QED
    BY <1>2, <2>2
<1> QED
  BY <1>3, <1>5

LEMMA GetStep == ASSUME KvInv, NEW k \in Keys, ln_kv_get(k) PROVE KvInv'
<1>1. /\ pc = "idle" /\ pc' = "idle" /\ ram' = FindRam(ram, flash, KeyMatch(flash, k))
      /\ UNCHANGED <<flash, cur, op, gc, cycles, allowed>>
  BY DEF ln_kv_get
<1>2. RamOk(ram') /\ \A b \in Blocks : Describes(ram', flash, b)
  BY <1>1, Search
<1>3. pc' \in Calm /\ gc'.from # "search"
  BY <1>1, Described DEF Calm
<1>4. Scanning' /\ Setting' /\ Moving' /\ pc' \in PC
  BY <1>3, CalmRight
<1>5. Indexed' /\ Sources'
  BY <1>1, <1>2 DEF KvInv, Indexed, Sources
<1> QED
  BY <1>1, <1>2, <1>4, <1>5 DEF KvInv

LEMMA DelStep == ASSUME KvInv, NEW k \in Keys, ln_kv_del(k) PROVE KvInv'
<1>0. PICK at, r : at = FindItem(ram, KeyMatch(flash, k)) /\ r = FindRam(ram, flash, KeyMatch(flash, k))
  OBVIOUS
<1>1. /\ pc = "idle" /\ pc' = "idle" /\ UNCHANGED <<cur, op, gc, cycles>>
      /\ at = NoItem => ram' = r /\ UNCHANGED <<flash, allowed>>
      /\ at # NoItem => /\ flash' = MarkDiscarded(flash, at[1], at[2])
                        /\ ram' = kv_blk_set_dirty(r, at[1])
                        /\ allowed' = [allowed EXCEPT ![k] = {None}]
  BY <1>0 DEF ln_kv_del
<1>2. /\ RamOk(r) /\ \A b \in Blocks : Describes(r, flash, b)
      /\ at # NoItem => at[1] \in Blocks /\ at[2] \in DOMAIN flash[at[1]].items
  BY <1>0, <1>1, Search
<1>3. /\ flash' \in [Blocks -> Block] /\ RamOk(ram') /\ Sources'
      /\ \A c \in Blocks : LaidOut(flash'[c]) /\ Describes(ram', flash', c)
  <2>1. CASE at = NoItem
    BY <1>1, <1>2, <2>1 DEF KvInv, Sources
  <2>2. CASE at # NoItem
    <3>1. /\ flash \in [Blocks -> Block] /\ at[1] \in Blocks
          /\ at[2] \in DOMAIN flash[at[1]].items
      BY <1>2, <2>2 DEF KvInv
    <3>2. PICK y : /\ MarkDiscarded(flash, at[1], at[2]) = [flash EXCEPT ![at[1]] = y]
                   /\ Discarded(flash[at[1]], y)
      BY <3>1, DiscardPut, ZenonT(40)
    <3>3. flash' = [flash EXCEPT ![at[1]] = y] /\ ram' = kv_blk_set_dirty(r, at[1])
      BY <1>1, <2>2, <3>2, Zenon
    <3>4. flash[at[1]].items # << >>
      BY <3>1
    <3> QED
      BY <1>2, <3>1, <3>2, <3>3, <3>4, DiscardStep
  <2> QED
    BY <2>1, <2>2
<1>4. allowed' \in [Keys -> SUBSET (Vals \cup {None})]
  BY <1>1 DEF KvInv
<1>5. pc' \in Calm /\ gc'.from # "search"
  BY <1>1, Described DEF Calm
<1>6. Scanning' /\ Setting' /\ Moving' /\ pc' \in PC
  BY <1>5, CalmRight
<1>7. Indexed'
  BY <1>3 DEF Indexed
<1> QED
  BY <1>1, <1>3, <1>4, <1>6, <1>7 DEF KvInv

LEMMA SetStep == ASSUME KvInv, NEW k \in Keys, NEW v \in Vals, ln_kv_set(k, v) PROVE KvInv'
<1> PICK at, m : m = KeyMatch(flash, k) /\ at = FindItem(ram, m)
  OBVIOUS
<1>1. /\ pc = "idle" /\ ram' = FindRam(ram, flash, m)
      /\ UNCHANGED <<flash, cur, gc, cycles>>
      /\ \/ UNCHANGED <<pc, op, allowed>>
         \/ /\ pc' = "search" /\ allowed' = [allowed EXCEPT ![k] = @ \cup {v}]
            /\ op' = IF at = NoItem THEN [NoOp EXCEPT !.key = k, !.val = v]
                     ELSE LET s == flash[at[1]].items[at[2]]
                          IN  [NoOp EXCEPT !.key = k, !.val = v,
                                           !.prev = <<at[1], s.off>>, !.old = s]
  BY DEF ln_kv_set
<1>2. /\ RamOk(ram') /\ \A b \in Blocks : Describes(ram', flash, b)
      /\ at # NoItem => at[1] \in Blocks /\ at[2] \in DOMAIN flash[at[1]].items
  BY <1>1, Search
<1>3. op' \in Op \cup {NoOp} /\ (pc' = "search" => op' \in Op) /\ pc' \in {"idle", "search"}
  <2>1. CASE UNCHANGED <<pc, op, allowed>>
    BY <1>1, <2>1 DEF KvInv
  <2>2. CASE pc' = "search" /\ op' = [NoOp EXCEPT !.key = k, !.val = v]
    <3>1. op' = [key |-> k, val |-> v, blk |-> 0, prev |-> NoPos, old |-> NoSlot]
      BY <2>2 DEF NoOp
    <3> QED
      BY <2>2, <3>1, BlocksNat DEF Op, Pos, NoPos
  <2>3. CASE /\ pc' = "search" /\ at # NoItem
             /\ op' = LET s == flash[at[1]].items[at[2]]
                      IN  [NoOp EXCEPT !.key = k, !.val = v,
                                       !.prev = <<at[1], s.off>>, !.old = s]
    <3> PICK b, i, s : b = at[1] /\ i = at[2] /\ s = flash[b].items[i]
      OBVIOUS
    <3>1. b \in Blocks /\ i \in DOMAIN flash[b].items /\ flash[b] \in Block
      BY <1>2, <2>3 DEF KvInv
    <3>2. s \in Slot /\ s.off \in Nat
      BY <3>1, ItemsOf
    <3>3. op' = [key |-> k, val |-> v, blk |-> 0, prev |-> <<b, s.off>>, old |-> s]
      BY <2>3 DEF NoOp
    <3>4. <<b, s.off>> \in Pos
      BY <3>1, <3>2 DEF Pos
    <3>5. PICK p : p = <<b, s.off>>
      OBVIOUS
    <3>6. op' = [key |-> k, val |-> v, blk |-> 0, prev |-> p, old |-> s] /\ p \in Pos
      BY <3>3, <3>4, <3>5
    <3>7. op' \in Op
      BY <3>2, <3>6, BlocksNat DEF Op
    <3> QED
      BY <2>3, <3>7
  <2> QED
    BY <1>1, <2>1, <2>2, <2>3
<1>4. allowed' \in [Keys -> SUBSET (Vals \cup {None})]
  BY <1>1 DEF KvInv
<1>5. gc' = gc /\ gc.from # "search"
  BY <1>1, Described DEF Calm
<1>6. Scanning' /\ Setting' /\ Moving' /\ pc' \in PC
  BY <1>3, <1>5 DEF Scanning, Setting, Moving, Saving, Collecting, Copying, PC
<1>7. Indexed' /\ Sources'
  BY <1>1, <1>2 DEF KvInv, Indexed, Sources
<1> QED
  BY <1>1, <1>2, <1>3, <1>4, <1>6, <1>7 DEF KvInv

\* The flags and the counters that the setters leave, for any index
LEMMA SetterFields ==
    ASSUME NEW r \in Ram, NEW b \in Blocks
    PROVE  /\ LET q == kv_blk_set_inuse(r, b)
              IN  /\ Entry(r, q, b) /\ q.flags[b] = r.flags[b] \cup {"inuse"} /\ q.free = r.free
                  /\ q.numFresh = r.numFresh
                  /\ q.numInuse = IF "inuse" \in r.flags[b] THEN r.numInuse ELSE r.numInuse + 1
           /\ LET q == kv_blk_reset_fresh(r, b)
              IN  /\ Entry(r, q, b) /\ q.flags[b] = r.flags[b] \ {"fresh"} /\ q.free = r.free
                  /\ q.numFresh = IF "fresh" \in r.flags[b] THEN r.numFresh - 1 ELSE r.numFresh
                  /\ q.numInuse = r.numInuse
           /\ LET q == kv_blk_reset_inuse(r, b)
              IN  /\ Entry(r, q, b) /\ q.flags[b] = r.flags[b] \ {"inuse"} /\ q.free = r.free
                  /\ q.numFresh = r.numFresh
                  /\ q.numInuse = IF "inuse" \in r.flags[b] THEN r.numInuse - 1 ELSE r.numInuse
<1>1. LET q == kv_blk_set_inuse(r, b)
      IN  /\ Entry(r, q, b) /\ q.flags[b] = r.flags[b] \cup {"inuse"} /\ q.free = r.free
          /\ q.numFresh = r.numFresh
          /\ q.numInuse = IF "inuse" \in r.flags[b] THEN r.numInuse ELSE r.numInuse + 1
  <2> DEFINE q == kv_blk_set_inuse(r, b)
  <2>1. PICK n \in Int : n = IF "inuse" \in r.flags[b] THEN r.numInuse ELSE r.numInuse + 1
    BY DEF Ram
  <2>2. q = [r EXCEPT !.numInuse = n, !.flags[b] = @ \cup {"inuse"}]
    BY <2>1, Zenon DEF kv_blk_set_inuse
  <2>3. q = [flags |-> [r.flags EXCEPT ![b] = r.flags[b] \cup {"inuse"}], free |-> r.free,
             numFresh |-> r.numFresh, numInuse |-> n, workspace |-> r.workspace]
    BY <2>2 DEF Ram
  <2> HIDE DEF q
  <2>4. /\ Entry(r, q, b) /\ q.flags[b] = r.flags[b] \cup {"inuse"} /\ q.free = r.free
        /\ q.numFresh = r.numFresh /\ q.numInuse = n
    BY <2>3 DEF Entry, Ram, Flags
  <2> QED
    BY <2>1, <2>4 DEF q
<1>2. LET q == kv_blk_reset_fresh(r, b)
      IN  /\ Entry(r, q, b) /\ q.flags[b] = r.flags[b] \ {"fresh"} /\ q.free = r.free
          /\ q.numFresh = IF "fresh" \in r.flags[b] THEN r.numFresh - 1 ELSE r.numFresh
          /\ q.numInuse = r.numInuse
  <2> DEFINE q == kv_blk_reset_fresh(r, b)
  <2>1. PICK n \in Int : n = IF "fresh" \in r.flags[b] THEN r.numFresh - 1 ELSE r.numFresh
    BY DEF Ram
  <2>2. q = [r EXCEPT !.numFresh = n, !.flags[b] = @ \ {"fresh"}]
    BY <2>1, Zenon DEF kv_blk_reset_fresh
  <2>3. q = [flags |-> [r.flags EXCEPT ![b] = r.flags[b] \ {"fresh"}], free |-> r.free,
             numFresh |-> n, numInuse |-> r.numInuse, workspace |-> r.workspace]
    BY <2>2 DEF Ram
  <2> HIDE DEF q
  <2>4. /\ Entry(r, q, b) /\ q.flags[b] = r.flags[b] \ {"fresh"} /\ q.free = r.free
        /\ q.numFresh = n /\ q.numInuse = r.numInuse
    BY <2>3 DEF Entry, Ram, Flags
  <2> QED
    BY <2>1, <2>4 DEF q
<1>3. LET q == kv_blk_reset_inuse(r, b)
      IN  /\ Entry(r, q, b) /\ q.flags[b] = r.flags[b] \ {"inuse"} /\ q.free = r.free
          /\ q.numFresh = r.numFresh
          /\ q.numInuse = IF "inuse" \in r.flags[b] THEN r.numInuse - 1 ELSE r.numInuse
  <2> DEFINE q == kv_blk_reset_inuse(r, b)
  <2>1. PICK n \in Int : n = IF "inuse" \in r.flags[b] THEN r.numInuse - 1 ELSE r.numInuse
    BY DEF Ram
  <2>2. q = [r EXCEPT !.numInuse = n, !.flags[b] = @ \ {"inuse"}]
    BY <2>1, Zenon DEF kv_blk_reset_inuse
  <2>3. q = [flags |-> [r.flags EXCEPT ![b] = r.flags[b] \ {"inuse"}], free |-> r.free,
             numFresh |-> r.numFresh, numInuse |-> n, workspace |-> r.workspace]
    BY <2>2 DEF Ram
  <2> HIDE DEF q
  <2>4. /\ Entry(r, q, b) /\ q.flags[b] = r.flags[b] \ {"inuse"} /\ q.free = r.free
        /\ q.numFresh = r.numFresh /\ q.numInuse = n
    BY <2>3 DEF Entry, Ram, Flags
  <2> QED
    BY <2>1, <2>4 DEF q
<1> QED
  BY <1>1, <1>2, <1>3

\* The tail of kv_item_save: the block is no longer fresh, and inuse only with room left.
LEMMA SavedRamRight ==
    ASSUME NEW r, RamOk(r), NEW b \in Blocks, NEW size \in Nat
    PROVE  LET n == SavedRam(r, b, size)
           IN  /\ RamOk(n) /\ Entry(r, n, b) /\ n.free[b] = r.free[b] - size
               /\ "fresh" \notin n.flags[b]
               /\ "dirty" \in n.flags[b] => "dirty" \in r.flags[b]
<1> PICK q : q = kv_blk_freesz_reduce(r, b, size)
  OBVIOUS
<1>1. /\ r \in Ram /\ r.numFresh \in Int /\ r.numInuse \in Int /\ r.free[b] \in Int
      /\ "fresh" \in r.flags[b] => r.flags[b] = {"fresh"}
      /\ HdrSize \in Int
  BY BlocksNat DEF RamOk, Ram, FlagsRight
<1>2. /\ Entry(r, q, b) /\ q.flags = r.flags /\ q.free[b] = r.free[b] - size
      /\ q.numFresh = r.numFresh /\ q.numInuse = r.numInuse /\ q \in Ram
  <2>1. r \in Ram /\ size \in Int
    BY <1>1
  <2>2. /\ Entry(r, q, b) /\ q.flags = r.flags /\ q.free[b] = r.free[b] - size
        /\ q.numFresh = r.numFresh /\ q.numInuse = r.numInuse
    BY <2>1, Reduce
  <2> QED
    BY <2>2 DEF Entry
<1>3. ASSUME NEW n, Entry(q, n, b), n.free = q.free, "fresh" \notin n.flags[b],
             "dirty" \in n.flags[b] => "dirty" \in r.flags[b],
             n.numFresh = IF "fresh" \in r.flags[b] THEN r.numFresh - 1 ELSE r.numFresh,
             n.numInuse = r.numInuse + (IF "inuse" \in n.flags[b] THEN 1 ELSE 0)
                                     - (IF "inuse" \in r.flags[b] THEN 1 ELSE 0),
             "inuse" \in n.flags[b] => n.free[b] > HdrSize
      PROVE  /\ RamOk(n) /\ Entry(r, n, b) /\ n.free[b] = r.free[b] - size
             /\ "fresh" \notin n.flags[b] /\ ("dirty" \in n.flags[b] => "dirty" \in r.flags[b])
  <2>1. Entry(r, n, b) /\ n.free[b] = r.free[b] - size
    BY <1>2, <1>3 DEF Entry
  <2>2. /\ n.numFresh = r.numFresh + (IF "fresh" \in n.flags[b] THEN 1 ELSE 0)
                                   - (IF "fresh" \in r.flags[b] THEN 1 ELSE 0)
        /\ n.numInuse >= r.numInuse + (IF "inuse" \in n.flags[b] THEN 1 ELSE 0)
                                    - (IF "inuse" \in r.flags[b] THEN 1 ELSE 0)
        /\ "fresh" \in n.flags[b] => n.flags[b] = {"fresh"}
        /\ "inuse" \in n.flags[b] => n.free[b] > HdrSize
    BY <1>1, <1>3
  <2>3. RamOk(n)
    BY <2>1, <2>2, EntryRight, Zenon
  <2> QED
    BY <1>3, <2>1, <2>3
<1>4. CASE "fresh" \in r.flags[b]
  <2> PICK m : m = kv_blk_reset_fresh(q, b)
    OBVIOUS
  <2>1. /\ Entry(q, m, b) /\ m.flags[b] = {} /\ m.free = q.free
        /\ m.numFresh = r.numFresh - 1 /\ m.numInuse = r.numInuse /\ m \in Ram
    <3>1. /\ Entry(q, m, b) /\ m.flags[b] = q.flags[b] \ {"fresh"} /\ m.free = q.free
          /\ m.numFresh = IF "fresh" \in q.flags[b] THEN q.numFresh - 1 ELSE q.numFresh
          /\ m.numInuse = q.numInuse
      BY <1>2, SetterFields
    <3> QED
      BY <1>1, <1>2, <1>4, <3>1 DEF Entry
  <2>2. SavedRam(r, b, size) = IF kv_blk_is_full(m, b) THEN m ELSE kv_blk_set_inuse(m, b)
    BY <1>2, <1>4 DEF SavedRam, Fresh
  <2>3. CASE kv_blk_is_full(m, b)
    BY <1>1, <1>3, <1>4, <2>1, <2>2, <2>3
  <2>4. CASE ~kv_blk_is_full(m, b)
    <3> PICK n : n = kv_blk_set_inuse(m, b)
      OBVIOUS
    <3>1. /\ Entry(m, n, b) /\ n.flags[b] = {"inuse"} /\ n.free = m.free
          /\ n.numFresh = m.numFresh /\ n.numInuse = m.numInuse + 1
      BY <2>1, SetterFields
    <3>2. n.free[b] > HdrSize
      BY <1>1, <1>2, <2>1, <2>4, <3>1 DEF kv_blk_is_full
    <3>3. Entry(q, n, b)
      BY <2>1, <3>1 DEF Entry
    <3> QED
      BY <1>1, <1>3, <1>4, <2>1, <2>2, <2>4, <3>1, <3>2, <3>3
  <2> QED
    BY <2>3, <2>4
<1>5. CASE "fresh" \notin r.flags[b]
  <2>2. SavedRam(r, b, size) = IF kv_blk_is_full(q, b) THEN kv_blk_reset_inuse(q, b) ELSE q
    BY <1>2, <1>5 DEF SavedRam, Fresh
  <2>3. CASE kv_blk_is_full(q, b)
    <3> PICK n : n = kv_blk_reset_inuse(q, b)
      OBVIOUS
    <3>1. /\ Entry(q, n, b) /\ n.flags[b] = r.flags[b] \ {"inuse"} /\ n.free = q.free
          /\ n.numFresh = r.numFresh
          /\ n.numInuse = IF "inuse" \in r.flags[b] THEN r.numInuse - 1 ELSE r.numInuse
      BY <1>2, SetterFields
    <3> QED
      BY <1>1, <1>3, <1>5, <2>2, <2>3, <3>1
  <2>4. CASE ~kv_blk_is_full(q, b)
    <3>1. q.free[b] > HdrSize
      BY <1>1, <1>2, <2>4 DEF kv_blk_is_full
    <3>2. Entry(q, q, b)
      BY <1>2, NoEntry
    <3> QED
      BY <1>1, <1>2, <1>3, <1>5, <2>2, <2>4, <3>1, <3>2
  <2> QED
    BY <2>3, <2>4
<1> QED
  BY <1>4, <1>5

\* The block that kv_blk_search_suitable chooses: it has room for the item or is fresh.
LEMMA SuitableRight ==
    ASSUME RamOk(ram), NEW size \in Nat
    PROVE  LET c == Suitable(ram, size)
           IN  /\ c.ws \in Blocks \cup {Invalid, Unset}
               /\ c.blk # Invalid => /\ c.blk \in Blocks
                                     /\ c.blk \in Fresh(ram) \/ ram.free[c.blk] >= size
<1> PICK w : w = ram.workspace
  OBVIOUS
<1>1. /\ w \in Blocks \cup {Invalid, Unset} /\ Fresh(ram) \subseteq Blocks
      /\ Roomy(ram, size) \subseteq {b \in Blocks : ram.free[b] >= size}
  BY DEF RamOk, Ram, Fresh, Roomy, Inuse
<1>2. CASE ~Writeable(ram)
  BY <1>1, <1>2 DEF Suitable
<1>3. CASE Writeable(ram) /\ Choosing(ram, size) # Invalid
  <2>1. w \in Blocks /\ w \in Int
    <3>1. w \in Blocks
      BY <1>3 DEF Writeable
    <3> QED
      BY <3>1, BlocksNat
  <2>2. Roomy(ram, size) \subseteq Blocks
    BY <1>1
  <2>3. \/ Choosing(ram, size) = w /\ ram.free[w] >= size
        \/ Choosing(ram, size) \in Roomy(ram, size)
    BY <1>3, <2>1, <2>2, NextBlkIn DEF Choosing
  <2>4. Choosing(ram, size) \in Blocks /\ ram.free[Choosing(ram, size)] >= size
    BY <1>1, <2>1, <2>3
  <2> QED
    BY <1>3, <2>4 DEF Suitable
<1>4. CASE Writeable(ram) /\ Choosing(ram, size) = Invalid /\ ram.numFresh < 1
  BY <1>1, <1>4 DEF Suitable
<1>5. CASE Writeable(ram) /\ Choosing(ram, size) = Invalid /\ ~(ram.numFresh < 1)
  <2> PICK b : b = NextBlk(Fresh(ram), w)
    OBVIOUS
  <2>1. w \in Int
    <3>1. w \in Blocks
      BY <1>5 DEF Writeable
    <3> QED
      BY <3>1, BlocksNat
  <2>2. b = Invalid \/ b \in Fresh(ram)
    BY <1>1, <2>1, NextBlkIn
  <2>3. Suitable(ram, size) = [blk |-> b, ws |-> b]
    BY <1>5 DEF Suitable
  <2> QED
    BY <1>1, <2>2, <2>3
<1> QED
  BY <1>2, <1>3, <1>4, <1>5

\* kv_item_fix leaves an index that is right, keeps the sizes that can be used, and
\* answers the position of an item of a block that has items.
LEMMA Fixed ==
    ASSUME KvInv, pc = "search"
    PROVE  /\ RamOk(FixedRam) /\ \A b \in Blocks : Describes(FixedRam, flash, b)
           /\ \A b \in Blocks : ram.free[b] > HdrSize => FixedRam.free[b] = ram.free[b]
           /\ ~FixFails => /\ FixedPos \in Pos
                           /\ FixedPos # NoPos => /\ FixedPos[1] \in Blocks
                                                  /\ flash[FixedPos[1]].items # << >>
<1> PICK m, at : m = CopyMatch(flash, op.old) /\ at = FindItem(ram, m)
  OBVIOUS
<1>1. /\ RamOk(FindRam(ram, flash, m))
      /\ \A b \in Blocks : /\ Describes(FindRam(ram, flash, m), flash, b)
                           /\ ram.free[b] > HdrSize =>
                                  FindRam(ram, flash, m).free[b] = ram.free[b]
      /\ at # NoItem => at[1] \in Blocks /\ at[2] \in DOMAIN flash[at[1]].items
  BY Search
<1>2. op \in Op /\ flash \in [Blocks -> Block] /\ op.prev \in Pos
  BY DEF KvInv, Setting, Op
<1>3. CASE Moved(flash, op)
  <2>1. FixedRam = FindRam(ram, flash, m)
    BY <1>3 DEF FixedRam
  <2>2. ~FixFails => at # NoItem
    BY <1>3 DEF FixFails
  <2>3. FixedPos = <<at[1], flash[at[1]].items[at[2]].off>>
    BY <1>3 DEF FixedPos
  <2>4. ASSUME at # NoItem
        PROVE  FixedPos \in Pos /\ FixedPos[1] \in Blocks /\ flash[FixedPos[1]].items # << >>
    <3>1. flash[at[1]] \in Block /\ at[1] \in Blocks /\ at[2] \in DOMAIN flash[at[1]].items
      BY <1>1, <1>2, <2>4
    <3>2. flash[at[1]].items[at[2]].off \in Nat /\ flash[at[1]].items # << >>
      BY <3>1, ItemsOf
    <3> QED
      BY <2>3, <3>1, <3>2 DEF Pos
  <2> QED
    BY <1>1, <2>1, <2>2, <2>4
<1>4. CASE ~Moved(flash, op)
  <2>1. FixedRam = ram /\ FixedPos = op.prev
    BY <1>4 DEF FixedRam, FixedPos
  <2>2. RamOk(ram) /\ \A b \in Blocks : Describes(ram, flash, b)
    BY Described DEF KvInv
  <2>3. ASSUME op.prev # NoPos
        PROVE  op.prev[1] \in Blocks /\ flash[op.prev[1]].items # << >>
    <3>1. op.prev[1] \in Blocks
      BY <1>2, <2>3 DEF Pos, NoPos
    <3>2. SlotsAt(flash, op.prev) # {}
      BY <1>4, <2>3 DEF Moved
    <3>3. flash[op.prev[1]].items # << >>
      BY <3>2 DEF SlotsAt
    <3> QED
      BY <3>1, <3>3
  <2> QED
    BY <1>2, <2>1, <2>2, <2>3
<1> QED
  BY <1>3, <1>4

LEMMA SaveFailsStep == ASSUME KvInv, SaveFails PROVE KvInv'
<1> PICK c : c = Suitable(ram, ItemSize(op.val))
  OBVIOUS
<1>1. /\ pc = "search" /\ pc' = "idle" /\ op' = NoOp
      /\ ram' = IF c.blk = Invalid THEN [ram EXCEPT !.workspace = c.ws]
                ELSE [FixedRam EXCEPT !.workspace = c.ws]
      /\ allowed' = [allowed EXCEPT ![op.key] = @ \ {op.val}]
      /\ UNCHANGED <<flash, cur, gc, cycles>>
  BY DEF SaveFails
<1>2. op \in Op /\ op.key \in Keys /\ op.val \in Vals
  BY <1>1 DEF KvInv, Setting, Op
<1>3. RamOk(ram) /\ \A b \in Blocks : Describes(ram, flash, b)
  BY <1>1, Described DEF KvInv
<1>4. c.ws \in Blocks \cup {Invalid, Unset}
  BY <1>2, <1>3, SuitableRight, Sizes
<1>5. RamOk(FixedRam) /\ \A b \in Blocks : Describes(FixedRam, flash, b)
  BY <1>1, Fixed
<1>6. RamOk(ram') /\ \A b \in Blocks : Describes(ram', flash, b)
  <2>1. CASE c.blk = Invalid
    BY <1>1, <1>3, <1>4, <2>1, WorkspaceOnly
  <2>2. CASE c.blk # Invalid
    BY <1>1, <1>4, <1>5, <2>2, WorkspaceOnly
  <2> QED
    BY <2>1, <2>2
<1>7. allowed' \in [Keys -> SUBSET (Vals \cup {None})]
  BY <1>1, <1>2 DEF KvInv
<1>8. pc' \in Calm /\ gc'.from # "search"
  BY <1>1, Described DEF Calm
<1>9. Scanning' /\ Setting' /\ Moving' /\ pc' \in PC
  BY <1>8, CalmRight
<1>10. Indexed' /\ Sources'
  BY <1>1, <1>6 DEF KvInv, Indexed, Sources
<1> QED
  BY <1>1, <1>6, <1>7, <1>9, <1>10 DEF KvInv

\* A step of a set that changes the block it saves to
LEMMA SavingStep ==
    ASSUME KvInv, pc' \in Saving, NEW r, NEW y \in Block, LaidOut(y), y.items # << >>,
           op' \in Op, flash' = [flash EXCEPT ![op'.blk] = y], ram' = r, RamOk(r),
           \A b \in Blocks \ {op'.blk} : Describes(r, flash, b),
           Setting', gc.from # "search", UNCHANGED <<cur, gc, cycles, allowed>>
    PROVE  KvInv'
<1> PICK d : d = op'.blk
  OBVIOUS
<1>1. d \in Blocks
  BY DEF Op
<1>2. /\ flash' \in [Blocks -> Block] /\ flash'[d] = y
      /\ \A c \in Blocks \ {d} : flash'[c] = flash[c]
  BY <1>1, Replaced DEF KvInv
<1>3. Sources' /\ \A b \in Blocks : LaidOut(flash'[b])
  BY <1>1, <1>2 DEF KvInv, Sources
<1>4. Exempt' = {d}
  BY DEF Exempt
<1>5. \A b \in Blocks \ {d} : Describes(ram', flash', b)
  BY <1>2 DEF Describes
<1>6. Indexed'
  BY <1>4, <1>5 DEF Indexed
<1>7. Scanning' /\ Moving' /\ pc' \in PC
  BY DEF Scanning, Moving, Saving, Collecting, Copying, PC
<1> QED
  BY <1>2, <1>3, <1>6, <1>7 DEF KvInv

\* A header just written
LEMMA HeaderSlot ==
    ASSUME NEW off \in Nat, NEW k \in Keys, NEW v \in Vals, NEW p \in Pos
    PROVE  LET t == NewSlot(off, k, v, p)
           IN  t \in Slot /\ t.off = off /\ t.val = v /\ t.st = "hdr" /\ Extent(t) = HdrSize
  BY DEF NewSlot, Slot, Stages, Extent, Legal

LEMMA SaveHeaderStep == ASSUME KvInv, SaveHeader PROVE KvInv'
<1>0. PICK c, r, d, v, t : /\ c = Suitable(ram, ItemSize(op.val)) /\ d = c.blk /\ v = op.val
                           /\ r = [FixedRam EXCEPT !.workspace = c.ws]
                           /\ t = NewSlot(UsableOff(r, d), op.key, v, FixedPos)
  OBVIOUS
<1>1. /\ pc = "search" /\ ~FixFails /\ d # Invalid /\ ram' = r
      /\ op' = [op EXCEPT !.blk = d, !.prev = FixedPos]
      /\ ItemSize(v) <= r.free[d] => flash' = PutHeader(d, t) /\ pc' = "s_magic"
      /\ ~(ItemSize(v) <= r.free[d]) => flash' = flash /\ pc' = "overrun"
      /\ UNCHANGED <<cur, gc, cycles, allowed>>
  BY <1>0 DEF SaveHeader
<1>2. op \in Op /\ op.key \in Keys /\ v \in Vals /\ op.old \in Slot \cup {NoSlot}
  BY <1>0, <1>1 DEF KvInv, Setting, Op
<1>3. ItemSize(v) \in Nat /\ ItemSize(v) > HdrSize
  BY <1>2, Sizes
<1>4. c.ws \in Blocks \cup {Invalid, Unset} /\ d \in Blocks
  <2>1. RamOk(ram)
    BY DEF KvInv
  <2> QED
    BY <1>0, <1>1, <1>3, <2>1, SuitableRight
<1>5. /\ RamOk(FixedRam) /\ \A b \in Blocks : Describes(FixedRam, flash, b)
      /\ FixedPos \in Pos
      /\ FixedPos # NoPos => FixedPos[1] \in Blocks /\ flash[FixedPos[1]].items # << >>
  BY <1>1, Fixed
<1>6. RamOk(r) /\ \A b \in Blocks : Describes(r, flash, b)
  BY <1>0, <1>4, <1>5, WorkspaceOnly
<1>7. /\ op' \in Op /\ op'.key = op.key /\ op'.val = v /\ op'.blk = d /\ op'.prev = FixedPos
  <2>1. PICK p \in Pos : p = FixedPos
    BY <1>5
  <2>2. op' = [op EXCEPT !.blk = d, !.prev = p]
    BY <1>1, <2>1, Zenon
  <2>3. op' = [key |-> op.key, val |-> op.val, blk |-> d, prev |-> p, old |-> op.old]
    BY <1>2, <2>2 DEF Op
  <2>4. /\ op' \in Op /\ op'.key = op.key /\ op'.val = op.val /\ op'.blk = d /\ op'.prev = p
    BY <1>2, <1>4, <2>3 DEF Op
  <2> QED
    BY <1>0, <2>1, <2>4
<1>8. gc.from # "search"
  BY <1>1, Described
<1>9. CASE ~(ItemSize(v) <= r.free[d])
  <2>1. pc' \in Calm /\ gc'.from # "search" /\ flash' = flash
    BY <1>1, <1>8, <1>9 DEF Calm
  <2>2. Scanning' /\ Setting' /\ Moving' /\ pc' \in PC
    BY <2>1, CalmRight
  <2>3. Indexed' /\ Sources'
    BY <1>1, <1>6, <2>1 DEF KvInv, Indexed, Sources
  <2> QED
    BY <1>1, <1>6, <1>7, <2>1, <2>2, <2>3 DEF KvInv
<1>10. CASE ItemSize(v) <= r.free[d]
  <2>1. flash \in [Blocks -> Block] /\ flash[d] \in Block /\ LaidOut(flash[d]) /\ r.free[d] \in Int
    BY <1>4, <1>6 DEF KvInv, RamOk, Ram
  <2>2. WalkEnd(flash[d]) \in Nat
    BY <2>1, Sizes
  <2>3. r.free[d] = BlkFresh - WalkEnd(flash[d])
    <3>1. r.free[d] > HdrSize
      BY <1>3, <1>10, <2>1, BlocksNat
    <3> QED
      BY <1>4, <1>6, <3>1 DEF Describes
  <2>4. UsableOff(r, d) = WalkEnd(flash[d]) /\ WalkEnd(flash[d]) + HdrSize <= BlkFresh
    BY <1>3, <1>10, <2>2, <2>3, BlocksNat DEF UsableOff
  <2>5. /\ t \in Slot /\ t.off = WalkEnd(flash[d]) /\ t.val = v /\ t.st = "hdr"
        /\ Extent(t) = HdrSize
    <3>1. t = NewSlot(WalkEnd(flash[d]), op.key, v, FixedPos)
      BY <1>0, <2>4
    <3> QED
      BY <1>2, <1>5, <2>2, <3>1, HeaderSlot
  <2>6. flash' = PutHeader(d, t) /\ pc' = "s_magic"
    BY <1>1, <1>10
  <2>7. PICK y : /\ flash' = [flash EXCEPT ![d] = y]
                 /\ WithItems(flash[d], y, Append(flash[d].items, t))
    BY <1>4, <2>1, <2>5, <2>6, HeaderPut
  <2>8. y \in Block /\ y.items = Append(flash[d].items, t)
    BY <2>7 DEF WithItems
  <2>9. LaidOut(y) /\ y.items # << >> /\ LastItem(y) = t
    <3>1. /\ flash[d] \in Block /\ y \in Block /\ t \in Slot /\ LaidOut(flash[d])
          /\ y.items = Append(flash[d].items, t) /\ t.off = WalkEnd(flash[d])
          /\ t.off + Extent(t) <= BlkFresh
      BY <2>1, <2>4, <2>5, <2>8
    <3> QED
      BY <3>1, Appended, SMTT(30)
  <2>10. flash'[d] = y /\ \A b \in Blocks \ {d} : flash'[b] = flash[b]
    BY <1>4, <2>1, <2>7
  <2>11. t.off = BlkFresh - r.free[d]
    BY <2>4, <2>5 DEF UsableOff
  <2>12. op'.prev # NoPos =>
             op'.prev[1] \in Blocks \ Fresh(r) /\ flash'[op'.prev[1]].items # << >>
    BY <1>5, <1>6, <1>7, <2>9, <2>10 DEF Describes
  <2>13. Setting'
    BY <1>1, <1>7, <1>8, <1>10, <2>5, <2>6, <2>9, <2>10, <2>11, <2>12 DEF Setting, Saving
  <2>14. pc' \in Saving
    BY <2>6 DEF Saving
  <2> QED
    BY <1>1, <1>6, <1>7, <1>8, <2>7, <2>8, <2>9, <2>13, <2>14, SavingStep
<1> QED
  BY <1>9, <1>10

\* What is known while an item is saved, and what the next part that is written changes
LEMMA SaveStage ==
    ASSUME KvInv, pc \in Saving, NEW st \in Stages \ {"hdr"}, flash' = PutStage(op.blk, st)
    PROVE  /\ op \in Op /\ op.blk \in Blocks /\ op.val \in Vals /\ gc.from # "search"
           /\ \A b \in Blocks \ {op.blk} : Describes(ram, flash, b)
           /\ \E y \in Block :
                  /\ flash' = [flash EXCEPT ![op.blk] = y] /\ LaidOut(y) /\ y.items # << >>
                  /\ flash'[op.blk] = y
                  /\ \A b \in Blocks \ {op.blk} : flash'[b] = flash[b]
                  /\ LastItem(y).st = st /\ LastItem(y).off = BlkFresh - ram.free[op.blk]
                  /\ LastItem(y).val = op.val
                  /\ WalkEnd(y) = LastItem(y).off + ItemSize(op.val)
<1>0. PICK d : d = op.blk
  OBVIOUS
<1>1. op \in Op /\ d \in Blocks /\ op.val \in Vals
  BY <1>0 DEF KvInv, Setting, Op
<1>2. /\ flash \in [Blocks -> Block] /\ flash[d] \in Block /\ LaidOut(flash[d])
      /\ ram.free[d] \in Int
  BY <1>1 DEF KvInv, RamOk, Ram
<1>3. /\ flash[d].items # << >> /\ LastItem(flash[d]).val = op.val
      /\ LastItem(flash[d]).off = BlkFresh - ram.free[d] /\ ItemSize(op.val) <= ram.free[d]
  BY <1>0 DEF KvInv, Setting
<1>4. gc.from # "search" /\ \A b \in Blocks \ {d} : Describes(ram, flash, b)
  BY <1>0 DEF KvInv, Moving, Indexed, Exempt, Saving, Collecting, Copying
<1>5. PICK y : /\ PutStage(d, st) = [flash EXCEPT ![d] = y]
               /\ WithItems(flash[d], y, y.items)
               /\ Len(y.items) = Len(flash[d].items) /\ y.items # << >>
               /\ \A i \in 1 .. Len(y.items) - 1 : y.items[i] = flash[d].items[i]
               /\ LastItem(y).st = st /\ LastItem(y).off = LastItem(flash[d]).off
               /\ LastItem(y).key = LastItem(flash[d]).key
               /\ LastItem(y).val = LastItem(flash[d]).val
               /\ LastItem(y).prev = LastItem(flash[d]).prev
               /\ LastItem(y).disc = LastItem(flash[d]).disc
  <2>1. /\ flash \in [Blocks -> Block] /\ d \in Blocks /\ st \in Stages
        /\ flash[d].items # << >>
    BY <1>1, <1>2, <1>3
  <2> QED
    BY <2>1, StagePut, Zenon
<1>6. y \in Block
  BY <1>5 DEF WithItems
<1>7. Extent(LastItem(y)) = ItemSize(op.val) /\ ItemSize(op.val) \in Nat
  BY <1>1, <1>3, <1>5, Sizes DEF Extent, Legal
<1>8. LastItem(y).off + Extent(LastItem(y)) <= BlkFresh
  BY <1>2, <1>3, <1>5, <1>7, BlocksNat
<1>9. LaidOut(y) /\ WalkEnd(y) = LastItem(y).off + Extent(LastItem(y))
  <2>1. /\ flash[d] \in Block /\ y \in Block /\ LaidOut(flash[d]) /\ flash[d].items # << >>
        /\ Len(y.items) = Len(flash[d].items)
        /\ \A i \in 1 .. Len(flash[d].items) - 1 : y.items[i] = flash[d].items[i]
        /\ LastItem(y).off = LastItem(flash[d]).off
        /\ LastItem(y).off + Extent(LastItem(y)) <= BlkFresh
    BY <1>2, <1>3, <1>5, <1>6, <1>8
  <2> QED
    BY <2>1, Staged, Zenon
<1>10. flash' = [flash EXCEPT ![d] = y]
  BY <1>0, <1>5
<1>11. flash'[d] = y /\ \A b \in Blocks \ {d} : flash'[b] = flash[b]
  BY <1>1, <1>2, <1>10
<1>12. /\ flash' = [flash EXCEPT ![d] = y] /\ LaidOut(y) /\ y.items # << >>
       /\ flash'[d] = y
       /\ \A b \in Blocks \ {d} : flash'[b] = flash[b]
       /\ LastItem(y).st = st /\ LastItem(y).off = BlkFresh - ram.free[d]
       /\ LastItem(y).val = op.val
       /\ WalkEnd(y) = LastItem(y).off + ItemSize(op.val)
  BY <1>3, <1>5, <1>7, <1>9, <1>10, <1>11
<1> QED
  BY <1>0, <1>1, <1>4, <1>6, <1>12, Zenon

LEMMA SavePartStep == ASSUME KvInv, SaveMagic \/ SaveKey PROVE KvInv'
<1>0. PICK st : st = IF pc = "s_magic" THEN "magic" ELSE "key"
  OBVIOUS
<1>1. /\ pc \in {"s_magic", "s_key"} /\ pc' = (IF pc = "s_magic" THEN "s_key" ELSE "s_val")
      /\ flash' = PutStage(op.blk, st) /\ UNCHANGED <<ram, cur, op, gc, cycles, allowed>>
  BY <1>0 DEF SaveMagic, SaveKey
<1>2. pc \in Saving /\ pc' \in Saving /\ st \in Stages \ {"hdr"}
  BY <1>0, <1>1 DEF Saving, Stages
<1>3. /\ op \in Op /\ op.blk \in Blocks /\ gc.from # "search"
      /\ \A b \in Blocks \ {op.blk} : Describes(ram, flash, b)
  BY <1>1, <1>2, SaveStage
<1>4. PICK y \in Block :
          /\ flash' = [flash EXCEPT ![op.blk] = y] /\ LaidOut(y) /\ y.items # << >>
          /\ flash'[op.blk] = y /\ \A b \in Blocks \ {op.blk} : flash'[b] = flash[b]
          /\ LastItem(y).st = st /\ LastItem(y).off = BlkFresh - ram.free[op.blk]
          /\ LastItem(y).val = op.val
  BY <1>1, <1>2, SaveStage
<1>5. st = IF pc' = "s_magic" THEN "hdr" ELSE IF pc' = "s_key" THEN "magic" ELSE "key"
  BY <1>0, <1>1
<1>6. /\ ItemSize(op.val) <= ram.free[op.blk]
      /\ op.prev # NoPos =>
             op.prev[1] \in Blocks \ Fresh(ram) /\ flash[op.prev[1]].items # << >>
  BY <1>2 DEF KvInv, Setting
<1>7. op.prev # NoPos => flash'[op.prev[1]].items # << >>
  BY <1>4, <1>6
<1>8. Setting'
  BY <1>1, <1>2, <1>3, <1>4, <1>5, <1>6, <1>7 DEF Setting, Saving
<1>9. RamOk(ram)
  BY DEF KvInv
<1> QED
  BY <1>1, <1>2, <1>3, <1>4, <1>8, <1>9, SavingStep

LEMMA SaveValStep == ASSUME KvInv, SaveVal PROVE KvInv'
<1>1. /\ pc = "s_val" /\ flash' = PutStage(op.blk, "full")
      /\ ram' = SavedRam(ram, op.blk, ItemSize(op.val))
      /\ \/ /\ pc' = "idle" /\ op' = NoOp
            /\ allowed' = [allowed EXCEPT ![op.key] = {op.val}]
         \/ op.prev # NoPos /\ pc' = "del_old" /\ UNCHANGED <<op, allowed>>
      /\ UNCHANGED <<cur, gc, cycles>>
  BY DEF SaveVal
<1>2. pc \in Saving /\ "full" \in Stages \ {"hdr"}
  BY <1>1 DEF Saving, Stages
<1>3. /\ op \in Op /\ op.blk \in Blocks /\ op.val \in Vals /\ gc.from # "search"
      /\ \A b \in Blocks \ {op.blk} : Describes(ram, flash, b)
  BY <1>1, <1>2, SaveStage
<1>4. PICK y \in Block :
          /\ flash' = [flash EXCEPT ![op.blk] = y] /\ LaidOut(y) /\ y.items # << >>
          /\ flash'[op.blk] = y /\ \A b \in Blocks \ {op.blk} : flash'[b] = flash[b]
          /\ LastItem(y).off = BlkFresh - ram.free[op.blk]
          /\ WalkEnd(y) = LastItem(y).off + ItemSize(op.val)
  BY <1>1, <1>2, SaveStage
<1>5. ItemSize(op.val) \in Nat /\ RamOk(ram) /\ ram.free[op.blk] \in Int
  BY <1>3, Sizes DEF KvInv, RamOk, Ram
<1>6. /\ RamOk(ram') /\ Entry(ram, ram', op.blk)
      /\ ram'.free[op.blk] = ram.free[op.blk] - ItemSize(op.val)
      /\ "fresh" \notin ram'.flags[op.blk]
  BY <1>1, <1>3, <1>5, SavedRamRight
<1>7. ram'.free[op.blk] = BlkFresh - WalkEnd(y)
  BY <1>4, <1>5, <1>6, BlocksNat
<1>8. flash' \in [Blocks -> Block] /\ \A b \in Blocks : LaidOut(flash'[b])
  BY <1>3, <1>4 DEF KvInv
<1>9. Sources'
  BY <1>4 DEF KvInv, Sources
<1>10. ASSUME NEW b \in Blocks PROVE Describes(ram', flash', b)
  <2>1. CASE b = op.blk
    BY <1>4, <1>6, <1>7, <2>1 DEF Describes, Fresh
  <2>2. CASE b # op.blk
    <3>1. Describes(ram', flash, b)
      BY <1>3, <1>6, <2>2, SameEntry DEF Entry
    <3> QED
      BY <1>4, <2>2, <3>1 DEF Describes
  <2> QED
    BY <2>1, <2>2
<1>11. Indexed'
  BY <1>10 DEF Indexed
<1>12. /\ pc' \in {"idle", "del_old"} /\ op' \in Op \cup {NoOp}
       /\ allowed' \in [Keys -> SUBSET (Vals \cup {None})]
  BY <1>1, <1>3 DEF KvInv
<1>13. ASSUME pc' = "del_old"
       PROVE  /\ op' \in Op /\ op'.prev # NoPos /\ op'.prev[1] \in Blocks \ Fresh(ram')
              /\ flash'[op'.prev[1]].items # << >>
  <2>1. op' = op /\ op.prev # NoPos
    BY <1>1, <1>13
  <2>2. op.prev[1] \in Blocks /\ flash[op.prev[1]].items # << >>
    BY <1>2, <2>1 DEF KvInv, Setting
  <2>3. flash'[op.prev[1]].items # << >>
    BY <1>4, <2>2
  <2>4. op.prev[1] \notin Fresh(ram')
    BY <1>10, <2>2, <2>3 DEF Describes
  <2> QED
    BY <1>3, <2>1, <2>2, <2>3, <2>4
<1>14. Scanning' /\ Moving' /\ Setting' /\ pc' \in PC
  BY <1>1, <1>3, <1>12, <1>13 DEF Scanning, Moving, Setting, Saving, Collecting, Copying, PC
<1> QED
  BY <1>1, <1>6, <1>8, <1>9, <1>11, <1>12, <1>14 DEF KvInv

\* The old item is discarded where the header says that it is.
LEMMA DeletePut ==
    ASSUME KvInv, DeleteOld
    PROVE  /\ op.prev[1] \in Blocks /\ flash[op.prev[1]].items # << >>
           /\ \E y : /\ flash' = [flash EXCEPT ![op.prev[1]] = y]
                     /\ Discarded(flash[op.prev[1]], y)
                     /\ \A i \in 1 .. Len(y.items) :
                            IF flash[op.prev[1]].items[i].off = op.prev[2]
                            THEN y.items[i].disc = TRUE
                            ELSE y.items[i] = flash[op.prev[1]].items[i]
<1>0. PICK d, o : d = op.prev[1] /\ o = op.prev[2]
  OBVIOUS
<1>1. pc = "del_old"
  BY DEF DeleteOld
<1>2. /\ op \in Op /\ d \in Blocks /\ flash[d].items # << >> /\ flash \in [Blocks -> Block]
  BY <1>0, <1>1 DEF KvInv, Setting, Op
<1>3. PICK x \in Block : x = flash[d]
  BY <1>2
<1>4. x.items \in Seq(Slot) /\ DOMAIN x.items = 1 .. Len(x.items) /\ Len(x.items) \in Nat
  BY <1>3, ItemsOf
<1>5. PICK its : its = [i \in DOMAIN x.items |-> IF x.items[i].off = o
                                                 THEN [x.items[i] EXCEPT !.disc = TRUE]
                                                 ELSE x.items[i]]
  OBVIOUS
<1>6. flash' = [flash EXCEPT ![d].items = its]
  <2>1. flash' = [flash EXCEPT ![d].items = [i \in DOMAIN @ |-> IF @[i].off = o
                                        THEN [@[i] EXCEPT !.disc = TRUE]
                                        ELSE @[i]]]
    BY <1>0 DEF DeleteOld
  <2> QED
    BY <1>3, <1>5, <2>1
<1>7. ASSUME NEW i \in 1 .. Len(x.items)
      PROVE  /\ its[i] \in Slot
             /\ IF x.items[i].off = o THEN its[i].disc = TRUE ELSE its[i] = x.items[i]
             /\ its[i].off = x.items[i].off /\ its[i].st = x.items[i].st
             /\ its[i].key = x.items[i].key /\ its[i].val = x.items[i].val
             /\ its[i].prev = x.items[i].prev /\ its[i].disc \in {x.items[i].disc, TRUE}
  <2>1. PICK s \in Slot : s = x.items[i]
    BY <1>4
  <2>2. its[i] = IF s.off = o THEN [s EXCEPT !.disc = TRUE] ELSE s
    BY <1>4, <1>5, <2>1
  <2>3. CASE s.off # o
    BY <2>1, <2>2, <2>3
  <2>4. CASE s.off = o
    <3>1. its[i] = [off |-> s.off, st |-> s.st, key |-> s.key, val |-> s.val,
                    prev |-> s.prev, disc |-> TRUE]
      BY <2>1, <2>2, <2>4, SlotExcept, Zenon
    <3>2. /\ its[i].off = s.off /\ its[i].st = s.st /\ its[i].key = s.key
          /\ its[i].val = s.val /\ its[i].prev = s.prev /\ its[i].disc = TRUE
      BY <3>1
    <3>3. its[i] \in Slot
      BY <3>1 DEF Slot
    <3> QED
      BY <2>1, <2>4, <3>2, <3>3
  <2> QED
    BY <2>3, <2>4
<1>8. its \in Seq(Slot) /\ Len(its) = Len(x.items)
  <2>1. its \in [1 .. Len(x.items) -> Slot]
    BY <1>4, <1>5, <1>7
  <2> QED
    BY <1>4, <2>1
<1>9. PICK y : y = [x EXCEPT !.items = its]
  OBVIOUS
<1>10. flash' = [flash EXCEPT ![d] = y]
  BY <1>2, <1>3, <1>6, <1>9
<1>11. WithItems(x, y, its)
  <2>1. y = [magic |-> x.magic, src |-> x.src, dst |-> x.dst, done |-> x.done, items |-> its]
    BY <1>9, BlockExcept, Zenon
  <2>2. y \in Block
    BY <1>8, <2>1 DEF Block
  <2> QED
    BY <2>1, <2>2 DEF WithItems
<1>12. y.items = its
  BY <1>11 DEF WithItems
<1>13. Discarded(flash[d], y)
  BY <1>3, <1>7, <1>8, <1>11, <1>12 DEF Discarded
<1>14. \A i \in 1 .. Len(y.items) : IF x.items[i].off = o THEN y.items[i].disc = TRUE
                                                       ELSE y.items[i] = x.items[i]
  BY <1>7, <1>8, <1>12
<1> QED
  BY <1>0, <1>2, <1>3, <1>10, <1>13, <1>14, ZenonT(40)

LEMMA DeleteOldStep == ASSUME KvInv, DeleteOld PROVE KvInv'
<1>0. PICK d : d = op.prev[1]
  OBVIOUS
<1>1. /\ pc = "del_old" /\ pc' = "idle" /\ op' = NoOp /\ ram' = kv_blk_set_dirty(ram, d)
      /\ allowed' = [allowed EXCEPT ![op.key] = {op.val}] /\ UNCHANGED <<cur, gc, cycles>>
  BY <1>0 DEF DeleteOld
<1>2. op.key \in Keys /\ op.val \in Vals /\ d \in Blocks /\ flash[d].items # << >>
  BY <1>0, <1>1, DeletePut DEF KvInv, Setting, Op
<1>10. PICK y : flash' = [flash EXCEPT ![d] = y] /\ Discarded(flash[d], y)
  BY <1>0, DeletePut
<1>14. RamOk(ram) /\ gc.from # "search" /\ \A b \in Blocks : Describes(ram, flash, b)
  BY <1>1, Described DEF KvInv
<1>15. /\ flash' \in [Blocks -> Block] /\ RamOk(ram') /\ Sources'
       /\ \A c \in Blocks : LaidOut(flash'[c]) /\ Describes(ram', flash', c)
  BY <1>1, <1>2, <1>10, <1>14, DiscardStep
<1>16. Indexed'
  BY <1>15 DEF Indexed
<1>17. allowed' \in [Keys -> SUBSET (Vals \cup {None})]
  BY <1>1, <1>2 DEF KvInv
<1>18. pc' \in Calm /\ gc'.from # "search"
  BY <1>1, <1>14 DEF Calm
<1>19. Scanning' /\ Setting' /\ Moving' /\ pc' \in PC
  BY <1>18, CalmRight
<1> QED
  BY <1>1, <1>15, <1>16, <1>17, <1>19 DEF KvInv

LEMMA PowerFailStep == ASSUME KvInv, PowerFail PROVE KvInv'
<1>1. /\ pc' = "off" /\ ram' = ZeroRam /\ cur' = 0 /\ op' = NoOp /\ gc' = NoGc
      /\ UNCHANGED <<flash, allowed>>
  BY DEF PowerFail
<1>2. cycles' \in [n : 0 .. MaxCycle, window : BOOLEAN]
  <2>1. CASE cycles' = cycles
    BY <2>1 DEF KvInv
  <2>2. CASE /\ cycles.n < MaxCycle
             /\ cycles' = [n |-> cycles.n + 1,
                           window |-> cycles.window \/ pc \in {"gc_magic", "gc_done"}]
    <3>1. cycles.n + 1 \in 0 .. MaxCycle
      BY <2>2, KvEnv DEF KvInv
    <3>2. PICK w \in BOOLEAN : w = (cycles.window \/ pc \in {"gc_magic", "gc_done"})
      OBVIOUS
    <3>3. cycles' = [n |-> cycles.n + 1, window |-> w]
      BY <2>2, <3>2, Zenon
    <3> QED
      BY <3>1, <3>3
  <2> QED
    BY <2>1, <2>2 DEF PowerFail
<1>3. RamOk(ram') /\ \A b \in Blocks : Describes(ram', flash', b)
  BY <1>1, ZeroRight
<1>4. pc' \in Calm /\ gc' \in Gc /\ gc'.from # "search" /\ cur' \in 0 .. NumBlk
  BY <1>1, NoGcTyped, BlocksNat DEF Calm
<1>5. Scanning' /\ Setting' /\ Moving' /\ pc' \in PC
  BY <1>4, CalmRight
<1>6. Indexed' /\ Sources'
  BY <1>1, <1>3 DEF KvInv, Indexed, Sources
<1> QED
  BY <1>1, <1>2, <1>3, <1>4, <1>5, <1>6 DEF KvInv

-----------------------------------------------------------------------------
(* The theorems                                                              *)

LEMMA KvNext == ASSUME KvInv, [Next]_vars PROVE KvInv'
<1>1. CASE Boot
  BY <1>1, InitStep, ScanEraseStep, ScanMagicStep, ScanMarkedStep, ScanRecoverStep,
     ScanIndexStep, MovingOn, IncompleteEraseStep, IncompleteMagicStep, IncompleteFreshStep,
     LocateGcStep, LocateStep DEF Boot
<1>2. CASE Collect
  BY <1>2, GcMarkDstStep, GcCopyHeaderStep, GcCopyPartStep, GcCopyValStep, GcEraseSrcStep,
     GcMagicSrcStep, GcMarkDoneStep DEF Collect
<1>3. CASE Save
  BY <1>3, MovingOn, SearchGcStep, SaveFailsStep, SaveHeaderStep, SavePartStep, SaveValStep,
     DeleteOldStep DEF Save
<1>4. CASE Call
  BY <1>4, GetStep, DelStep, SetStep DEF Call
<1>5. CASE PowerFail
  BY <1>5, PowerFailStep
<1>6. CASE UNCHANGED vars
  BY <1>6 DEF vars, KvInv, Indexed, Exempt, Sources, Scanning, Setting, Moving, Reach
<1> QED
  BY <1>1, <1>2, <1>3, <1>4, <1>5, <1>6 DEF Next

\* The inductive invariant holds in every state, across power failures at any of the
\* program points between two flash operations.
THEOREM KvAlways == Spec => []KvInv
  BY KvInit, KvNext, PTL DEF Spec

\* The variables keep their types: the lists, positions and sizes that ln_kv.c computes
\* stay in their ranges.
THEOREM KvTypes == Spec => []TypeOK
<1>1. KvInv => TypeOK
  BY DEF KvInv, TypeOK, RamOk
<1> QED
  BY <1>1, KvAlways, PTL

\* Items lie back to back inside their block, whatever is set, deleted, collected and cut
\* short by a power failure: kv_item_do_save and kv_item_do_gc write every header behind
\* the last item of a block.
THEOREM KvPacked == Spec => []Packed
<1>1. KvInv => Packed
  BY DEF KvInv, Packed, LaidOut
<1> QED
  BY <1>1, KvAlways, PTL

\* Between calls the index in RAM describes the flash.
THEOREM KvIndexExact == Spec => []IndexExact
<1>1. ASSUME KvInv, pc = "idle" PROVE \A b \in Blocks : Describes(ram, flash, b)
  BY <1>1, Described DEF Calm
<1>2. ASSUME KvInv, pc = "idle", NEW b \in Fresh(ram) \cup Inuse(ram)
      PROVE  ram.free[b] = BlkFresh - WalkEnd(flash[b])
  <2>1. b \in Blocks /\ Describes(ram, flash, b)
    BY <1>1, <1>2 DEF Fresh, Inuse
  <2>2. ram.free[b] > HdrSize
    <3>1. CASE b \in Fresh(ram)
      BY <2>1, <3>1, BlocksNat DEF Describes
    <3>2. CASE b \in Inuse(ram)
      BY <1>2, <3>2 DEF KvInv, RamOk, FlagsRight, Inuse
    <3> QED
      BY <1>2, <3>1, <3>2
  <2> QED
    BY <2>1, <2>2 DEF Describes
<1>3. ASSUME KvInv, pc = "idle", NEW b \in Fresh(ram) PROVE flash[b].items = << >>
  BY <1>1, <1>3 DEF Describes, Fresh
<1>4. KvInv => ram.numFresh = Cardinality(Fresh(ram)) /\ ram.numInuse >= Cardinality(Inuse(ram))
  BY DEF KvInv, RamOk, Counted
<1>5. KvInv => IndexExact
  BY <1>2, <1>3, <1>4 DEF IndexExact
<1> QED
  BY <1>5, KvAlways, PTL

\* No caller hands ln_kv_set a value that does not fit an empty block: ln_kv_set itself only
\* bounds the length of a value by 65534, more than a block of 4096 bytes holds.
FitsBlank == \A v \in Vals : ItemSize(v) <= BlkFresh

LEMMA NoOverrun == ASSUME KvInv, FitsBlank, ItemFits, [Next]_vars PROVE ItemFits'
<1>1. CASE SaveHeader
  <2>0. PICK c, r, d, v : /\ c = Suitable(ram, ItemSize(op.val)) /\ d = c.blk /\ v = op.val
                          /\ r = [FixedRam EXCEPT !.workspace = c.ws]
    OBVIOUS
  <2>1. /\ pc = "search" /\ d # Invalid
        /\ ItemSize(v) <= r.free[d] => pc' = "s_magic"
    BY <1>1, <2>0 DEF SaveHeader
  <2>2. v \in Vals /\ RamOk(ram) /\ \A b \in Blocks : Describes(ram, flash, b)
    BY <2>0, <2>1, Described DEF KvInv, Setting, Op
  <2>3. ItemSize(v) \in Nat /\ ItemSize(v) > HdrSize /\ ItemSize(v) <= BlkFresh
    BY <2>2, Sizes DEF FitsBlank
  <2>4. /\ c.ws \in Blocks \cup {Invalid, Unset} /\ d \in Blocks
        /\ d \in Fresh(ram) \/ ram.free[d] >= ItemSize(v)
    BY <2>0, <2>1, <2>2, <2>3, SuitableRight
  <2>5. ram.free[d] \in Int /\ (d \in Fresh(ram) => ram.free[d] = BlkFresh)
    BY <2>2, <2>4 DEF RamOk, Ram, Describes
  <2>6. ram.free[d] >= ItemSize(v) /\ ram.free[d] > HdrSize
    BY <2>3, <2>4, <2>5, BlocksNat
  <2>7. RamOk(FixedRam) /\ FixedRam.free[d] = ram.free[d]
    BY <2>1, <2>4, <2>6, Fixed
  <2>8. r.free = FixedRam.free
    BY <2>0, <2>4, <2>7, WorkspaceOnly
  <2>9. ItemSize(v) <= r.free[d]
    BY <2>3, <2>5, <2>6, <2>7, <2>8
  <2> QED
    BY <2>1, <2>9 DEF ItemFits
<1>2. CASE Boot
  BY <1>2 DEF Boot, ItemFits, ln_kv_init, ScanErase, ScanMagic, ScanMarked, ScanRecover,
     ScanIndex, IndexBuild, ScanDone, IncompleteFails, IncompleteNone, IncompleteErase,
     IncompleteMagic, IncompleteFresh, LocateGc, Locate
<1>3. CASE Collect
  <2>1. GcMarkDone => pc' # "overrun"
    <3>1. GcMarkDone => gc.from \in {"search", "locate", "incomplete"}
      BY DEF GcMarkDone, KvInv, Moving, Collecting
    <3> QED
      BY <3>1 DEF GcMarkDone
  <2> QED
    BY <1>3, <2>1 DEF Collect, ItemFits, GcMarkDst, GcCopyHeader, GcCopyMagic, GcCopyKey,
       GcCopyVal, GcEraseSrc, GcMagicSrc
<1>4. CASE Save /\ ~SaveHeader
  BY <1>4 DEF Save, ItemFits, SearchWild, SearchGc, SaveFails, SaveMagic, SaveKey, SaveVal,
     DeleteOld
<1>5. CASE Call
  BY <1>5 DEF Call, ItemFits, ln_kv_get, ln_kv_del, ln_kv_set
<1>6. CASE PowerFail
  BY <1>6 DEF PowerFail, ItemFits
<1>7. CASE UNCHANGED vars
  BY <1>7 DEF vars, ItemFits
<1> QED
  BY <1>1, <1>2, <1>3, <1>4, <1>5, <1>6, <1>7 DEF Next

\* An item that is saved fits the block that kv_blk_search_suitable chose for it, also after
\* a garbage collection and after kv_item_fix refreshed the index.
THEOREM KvItemFits == ASSUME FitsBlank PROVE Spec => []ItemFits
<1>1. Init => ItemFits
  BY DEF Init, ItemFits
<1>2. KvInv /\ ItemFits /\ [Next]_vars => ItemFits'
  BY NoOverrun
<1> QED
  BY <1>1, <1>2, KvAlways, PTL DEF Spec

-----------------------------------------------------------------------------
(* The marks                                                                 *)

\* After the erase of the gc source
Erasing == {"gc_magic", "gc_done"}
\* While a gc source carries its mark
Marking == Copying \cup {"gc_dst", "gc_copy"}
\* Until boot knows whether a collection was interrupted
Booting == {"off", "scan", "scan_magic", "incomplete", "failed"}
\* Boot is past the marks, or done.
Running == Saving \cup {"locate", "locate_ws", "idle", "search", "del_old", "overrun", "wild"}

\* The power failures that boot repairs: none came in the window, or none comes after it.
Good == ~cycles.window \/ MaxCycle <= 1

\* A set with at most one element
Lone(S) == \A b, c \in S : b = c

\* A block is formatted, or blank: it is erased before its magic word is written.
Formatted ==
    /\ \A b \in Blocks : ~flash[b].magic => flash[b] = Erased
    /\ pc \in {"scan", "scan_magic"} => \A b \in Blocks : b < cur => flash[b].magic
    /\ pc \notin {"off", "scan", "scan_magic"} =>
           \A b \in Blocks : \/ flash[b].magic
                             \/ pc = "inc_magic" /\ b = gc.dst
                             \/ pc = "gc_magic" /\ b = gc.src

\* The open marks: the source of a collection until it is erased, its destination until
\* it is done, and after a power failure what the collection left.
Marks ==
    /\ cycles.window => cycles.n >= 1
    /\ Good =>
         /\ pc \in Running \cup Erasing => GcSrcs = {}
         /\ pc \in Marking \cup {"inc_magic"} => GcSrcs = {gc.src}
         /\ pc \in (Marking \ {"gc_dst"}) \cup Erasing => flash[gc.dst].dst
         /\ pc \in Running => Lone(GcDsts) /\ (~cycles.window => GcDsts = {})
         /\ pc \in Marking \cup Erasing =>
                Lone(GcDsts \ {gc.dst}) /\ (~cycles.window => GcDsts \subseteq {gc.dst})
         /\ pc = "inc_magic" => ~cycles.window /\ GcDsts = {}
         /\ pc \in Booting => /\ cycles.window => GcSrcs = {} /\ Lone(GcDsts)
                              /\ ~cycles.window /\ GcSrcs = {} => GcDsts = {}

\* The invariant about the marks
MarkInv == Formatted /\ Marks

-----------------------------------------------------------------------------
(* The index                                                                 *)

\* A block that boot enters in the index
Plain(blk) == ~IsGcSrc(blk) /\ ~IsGcDstNotDone(blk)

\* A block with room is known as fresh or inuse.
Complete(r, f, b) ==
    f[b].items = << >> \/ WalkEnd(f[b]) + HdrSize < BlkFresh => b \in Fresh(r) \cup Inuse(r)

\* What the boot scan has entered so far
Scanned == pc \in {"scan", "scan_magic", "incomplete"} =>
    \A b \in Blocks : (pc # "incomplete" => b < cur) /\ Plain(flash[b]) =>
        /\ Complete(ram, flash, b)
        /\ flash[b].items = << >> => b \in Fresh(ram)

\* The index misses no block with room, and the workspace is there when it is used.
Usable == /\ pc \in (Running \ {"overrun", "wild"}) \cup Marking \cup Erasing \cup {"inc_magic"} =>
              \A b \in Blocks \ Exempt : Plain(flash[b]) => Complete(ram, flash, b)
          /\ pc \in Saving => op.blk \in Fresh(ram) \cup Inuse(ram)
          /\ (pc \in Saving \cup {"del_old"} \/ gc.from = "search") => ram.workspace # Unset
          /\ pc \in {"idle", "search"} => ram.workspace # Unset \/ KV_NO_WRITEABLE_BLK(ram)
          /\ pc # "wild"

\* During boot num_inuse is exact: no block that boot marks fresh was inuse.
Exact(r) == r.numInuse = Cardinality(Inuse(r))

\* When num_inuse is exact
Counting ==
    /\ (\/ pc \in {"scan", "scan_magic", "incomplete", "locate", "locate_ws", "inc_magic"}
        \/ (pc \in Collecting /\ gc.from # "search")) => Exact(ram)
    /\ pc \in {"scan", "scan_magic", "incomplete"} =>
           \A b \in Blocks : ~Plain(flash[b]) => b \notin Inuse(ram)
    /\ pc = "inc_magic" => gc.dst \notin Inuse(ram)
    /\ pc = "gc_magic" => gc.src \notin Inuse(ram)

\* What the index owes to the flash
IndexFacts == Scanned /\ Counting /\ Usable

\* The invariant about the index
IndexInv == ~cycles.window => IndexFacts

-----------------------------------------------------------------------------
(* What a step does to the flash                                             *)

\* Item j of block b is discarded, and nothing else.
Drops(f, g, b, j) ==
    /\ b \in Blocks /\ j \in DOMAIN f[b].items /\ g \in [Blocks -> Block]
    /\ \A c \in Blocks \ {b} : g[c] = f[c]
    /\ Discarded(f[b], g[b]) /\ g[b].items[j].disc = TRUE
    /\ \A i \in DOMAIN f[b].items \ {j} : g[b].items[i] = f[b].items[i]

\* MarkDiscarded discards one item and changes nothing else.
LEMMA DropsMarked ==
    ASSUME NEW f \in [Blocks -> Block], NEW b \in Blocks, NEW j \in DOMAIN f[b].items
    PROVE  Drops(f, MarkDiscarded(f, b, j), b, j)
<1>1. PICK y : /\ MarkDiscarded(f, b, j) = [f EXCEPT ![b] = y]
               /\ Discarded(f[b], y) /\ y.items[j].disc = TRUE
               /\ \A i \in DOMAIN f[b].items \ {j} : y.items[i] = f[b].items[i]
  BY DiscardPut, ZenonT(40)
<1>2. y \in Block
  BY <1>1 DEF Discarded, WithItems
<1>3. PICK g : g = MarkDiscarded(f, b, j)
  OBVIOUS
<1>4. g \in [Blocks -> Block] /\ g[b] = y /\ \A c \in Blocks \ {b} : g[c] = f[c]
  BY <1>1, <1>2, <1>3
<1> QED
  BY <1>1, <1>3, <1>4 DEF Drops

\* A step of the recovery: the torn item is discarded, or the one it superseded.
LEMMA RecoverDrops ==
    ASSUME KvInv, ScanRecover
    PROVE  \E i \in Recover(flash, cur) : \E b \in Blocks : \E j \in DOMAIN flash[b].items :
               Discards(flash, cur, i) = <<b, j>> /\ Drops(flash, flash', b, j)
               /\ ram' = kv_blk_set_dirty(ram, b)
<1>1. cur \in Blocks /\ Recover(flash, cur) # {} /\ flash \in [Blocks -> Block]
  BY DEF ScanRecover, IndexBuild, KvInv
<1>2. Recover(flash, cur) \subseteq Nat
  BY <1>1, ItemsOf DEF Recover
<1>3. \E i \in Recover(flash, cur) : \A j \in Recover(flash, cur) : i <= j
  BY <1>1, <1>2, LeastOf
<1>4. PICK i \in Recover(flash, cur) :
          LET d == Discards(flash, cur, i)
          IN  flash' = MarkDiscarded(flash, d[1], d[2]) /\ ram' = kv_blk_set_dirty(ram, d[1])
  BY <1>3 DEF ScanRecover
<1>5. PICK d : d = Discards(flash, cur, i)
  OBVIOUS
<1>6. d[1] \in Blocks /\ d[2] \in DOMAIN flash[d[1]].items
  BY <1>1, <1>5, RecoverRight
<1>7. \E x, y : d = <<x, y>>
  <2>1. PICK s : s = flash[cur].items[i]
    OBVIOUS
  <2>2. CASE Intact(s)
    BY <1>5, <2>1, <2>2 DEF Discards
  <2>3. CASE ~Intact(s)
    BY <1>5, <2>1, <2>3 DEF Discards
  <2> QED
    BY <2>2, <2>3
<1>8. PICK x, y : d = <<x, y>>
  BY <1>7
<1>9. x \in Blocks /\ y \in DOMAIN flash[x].items
  BY <1>6, <1>8
<1>10. flash' = MarkDiscarded(flash, x, y) /\ ram' = kv_blk_set_dirty(ram, x)
  BY <1>4, <1>5, <1>8
<1> QED
  BY <1>1, <1>5, <1>8, <1>9, <1>10, DropsMarked

\* ln_kv_del of a key that is there
LEMMA DelDrops ==
    ASSUME KvInv, NEW k \in Keys, ln_kv_del(k)
    PROVE  LET at == FindItem(ram, KeyMatch(flash, k))
           IN  IF at = NoItem THEN UNCHANGED <<flash, allowed>>
               ELSE /\ Drops(flash, flash', at[1], at[2])
                    /\ allowed' = [allowed EXCEPT ![k] = {None}]
<1>1. PICK at : at = FindItem(ram, KeyMatch(flash, k))
  OBVIOUS
<1>2. at # NoItem => at[1] \in Blocks /\ at[2] \in DOMAIN flash[at[1]].items
  BY <1>1, Search DEF ln_kv_del
<1>3. flash \in [Blocks -> Block]
  BY DEF KvInv
<1> QED
  BY <1>1, <1>2, <1>3, DropsMarked DEF ln_kv_del

\* The mark words of two blocks are the same
SameMark(x, y) == y.magic = x.magic /\ y.src = x.src /\ y.dst = x.dst /\ y.done = x.done

\* A step that changes items only: they are those of a formatted block
ItemsOnly == /\ flash' \in [Blocks -> Block]
             /\ \A b \in Blocks : SameMark(flash[b], flash'[b])
             /\ \A b \in Blocks : flash'[b] = flash[b] \/ flash[b].magic

\* One formatted block with other items
LEMMA OneBlock ==
    ASSUME flash \in [Blocks -> Block], NEW b \in Blocks, NEW y, flash[b].magic,
           flash' = [flash EXCEPT ![b] = y], WithItems(flash[b], y, y.items)
    PROVE  ItemsOnly
<1>1. y \in Block /\ SameMark(flash[b], y)
  BY DEF WithItems, SameMark
<1>2. flash' \in [Blocks -> Block] /\ flash'[b] = y /\ \A c \in Blocks \ {b} : flash'[c] = flash[c]
  BY <1>1, Replaced
<1> QED
  BY <1>1, <1>2 DEF ItemsOnly, SameMark

\* A discard changes items only.
LEMMA DropsItems ==
    ASSUME flash \in [Blocks -> Block], Formatted, NEW b, NEW j, Drops(flash, flash', b, j)
    PROVE  ItemsOnly
<1>1. b \in Blocks /\ flash[b].items # << >>
  BY DEF Drops
<1>2. flash[b].magic
  BY <1>1, ErasedRight DEF Formatted
<1> QED
  BY <1>1, <1>2 DEF Drops, Discarded, WithItems, ItemsOnly, SameMark

\* The steps that write items
Writes == \/ ScanRecover \/ GcCopyHeader \/ GcCopyMagic \/ GcCopyKey \/ GcCopyVal
          \/ SaveHeader \/ SaveMagic \/ SaveKey \/ SaveVal \/ DeleteOld
          \/ \E k \in Keys : ln_kv_del(k)

\* Those steps change nothing but items.
LEMMA WritesItems == ASSUME KvInv, KvInv', Formatted, Writes PROVE ItemsOnly
<1>0. flash \in [Blocks -> Block] /\ gc \in Gc
  BY DEF KvInv
<1>a. flash' = flash => ItemsOnly
  BY <1>0 DEF ItemsOnly, SameMark
<1>b. ASSUME NEW b \in Blocks, NEW st \in Stages, flash[b].items # << >>, flash' = PutStage(b, st)
      PROVE  ItemsOnly
  <2>1. PICK y : /\ flash' = [flash EXCEPT ![b] = y] /\ WithItems(flash[b], y, y.items)
    BY <1>0, <1>b, StagePut
  <2>2. flash[b].magic
    BY <1>b, ErasedRight DEF Formatted
  <2> QED
    BY <1>0, <1>b, <2>1, <2>2, OneBlock
<1>c. ASSUME NEW b \in Blocks, NEW s \in Slot, flash[b].magic, flash' = PutHeader(b, s)
      PROVE  ItemsOnly
  <2>1. PICK y : /\ flash' = [flash EXCEPT ![b] = y]
                 /\ WithItems(flash[b], y, Append(flash[b].items, s))
    BY <1>0, <1>c, HeaderPut
  <2>2. WithItems(flash[b], y, y.items)
    BY <2>1 DEF WithItems
  <2> QED
    BY <1>0, <1>c, <2>1, <2>2, OneBlock
<1>1. CASE ScanRecover
  BY <1>0, <1>1, RecoverDrops, DropsItems
<1>2. CASE \E k \in Keys : ln_kv_del(k)
  BY <1>0, <1>2, <1>a, DelDrops, DropsItems
<1>3. CASE DeleteOld
  <2>1. PICK d, y : /\ d = op.prev[1] /\ d \in Blocks /\ flash[d].items # << >>
                    /\ flash' = [flash EXCEPT ![d] = y] /\ Discarded(flash[d], y)
    BY <1>3, DeletePut
  <2>2. flash[d].magic /\ WithItems(flash[d], y, y.items)
    BY <2>1, ErasedRight DEF Formatted, Discarded
  <2> QED
    BY <1>0, <2>1, <2>2, OneBlock
<1>4. CASE GcCopyMagic \/ GcCopyKey \/ GcCopyVal
  <2>1. /\ pc \in Copying /\ \E st : flash' = PutStage(gc.dst, st)
                                   /\ st \in {"magic", "key", flash[gc.src].items[gc.i].st}
    BY <1>4 DEF GcCopyMagic, GcCopyKey, GcCopyVal, Copying
  <2>2. flash[gc.dst].items # << >> /\ gc.dst \in Blocks /\ flash[gc.src].items[gc.i] \in Slot
    BY <2>1, CopyFacts
  <2> QED
    BY <1>b, <2>1, <2>2 DEF Slot, Stages
<1>5. CASE SaveMagic \/ SaveKey \/ SaveVal
  <2>1. pc \in Saving /\ \E st \in {"magic", "key", "full"} : flash' = PutStage(op.blk, st)
    BY <1>5 DEF SaveMagic, SaveKey, SaveVal, Saving
  <2>2. flash[op.blk].items # << >> /\ op.blk \in Blocks
    BY <2>1 DEF KvInv, Setting, Op
  <2> QED
    BY <1>b, <2>1, <2>2 DEF Stages
<1>6. CASE GcCopyHeader
  <2>1. pc = "gc_copy" /\ ToCopy # {}
    BY <1>6 DEF GcCopyHeader
  <2>2. flash[gc.dst].magic /\ gc.dst \in Blocks /\ gc.src \in Blocks
    BY <1>0, <2>1 DEF Formatted, Gc
  <2>3. flash[gc.src].items[NextToCopy] \in Slot
    BY <1>0, <2>1, <2>2, NextToCopyIn, ItemsOf
  <2>4. PICK s : /\ s = NewSlot(UsableOff(ram, gc.dst), flash[gc.src].items[NextToCopy].key,
                                flash[gc.src].items[NextToCopy].val, flash[gc.src].items[NextToCopy].prev)
                 /\ flash' = PutHeader(gc.dst, s)
    BY <1>6 DEF GcCopyHeader
  <2>5. UsableOff(ram, gc.dst) \in Nat
    <3>1. ram.free[gc.dst] = BlkFresh - WalkEnd(flash[gc.dst])
      BY <2>1 DEF KvInv, Moving, Collecting, Copying
    <3>2. WalkEnd(flash[gc.dst]) \in Nat
      BY <1>0, <2>2, Sizes
    <3> QED
      BY <3>1, <3>2, BlocksNat DEF UsableOff
  <2>6. s \in Slot
    <3>1. PICK u \in Slot : u = flash[gc.src].items[NextToCopy]
      BY <2>3
    <3>2. u.key \in Keys /\ u.val \in Vals /\ u.prev \in Pos
      BY DEF Slot
    <3> QED
      BY <2>4, <2>5, <3>1, <3>2, HeaderSlot
  <2> QED
    BY <1>c, <2>2, <2>4, <2>6
<1>7. CASE SaveHeader
  <2>1. PICK c, r, s : /\ c = Suitable(ram, ItemSize(op.val)) /\ r = [FixedRam EXCEPT !.workspace = c.ws]
                       /\ s = NewSlot(UsableOff(r, c.blk), op.key, op.val, FixedPos)
    OBVIOUS
  <2>2. /\ pc = "search" /\ c.blk # Invalid /\ op' = [op EXCEPT !.blk = c.blk, !.prev = FixedPos]
        /\ flash' = flash \/ (flash' = PutHeader(c.blk, s) /\ pc' = "s_magic")
    BY <1>7, <2>1 DEF SaveHeader
  <2>3. CASE flash' = PutHeader(c.blk, s) /\ pc' = "s_magic"
    <3>1. op \in Op /\ op.val \in Vals
      BY <2>2 DEF KvInv, Setting, Op
    <3>2. c.blk \in Blocks
      BY <2>1, <2>2, <3>1, SuitableRight, Sizes DEF KvInv
    <3>3. op' \in Op /\ op'.blk = c.blk /\ flash'[op'.blk].items # << >>
      BY <2>2, <2>3, <3>1 DEF KvInv, Setting, Op, Saving
    <3>4. flash[c.blk].magic
      BY <2>2, <3>2 DEF Formatted
    <3>5. ~FixFails /\ FixedPos \in Pos
      BY <1>7, <2>2, Fixed DEF SaveHeader
    <3>6. UsableOff(r, c.blk) \in Nat
      <4>1. ItemSize(op.val) <= r.free[c.blk]
        BY <1>7, <2>1, <2>3 DEF SaveHeader
      <4>2. /\ RamOk(FixedRam) /\ \A b \in Blocks : Describes(FixedRam, flash, b)
            /\ c.ws \in Blocks \cup {Invalid, Unset}
        <5>1. RamOk(ram) /\ ItemSize(op.val) \in Nat
          BY <3>1, Sizes DEF KvInv
        <5> QED
          BY <2>1, <2>2, <5>1, Fixed, SuitableRight
      <4>3. r.free = FixedRam.free /\ FixedRam \in Ram
        BY <2>1, <4>2, WorkspaceOnly DEF RamOk
      <4>4. FixedRam.free[c.blk] > HdrSize
        <5>1. ItemSize(op.val) \in Nat /\ ItemSize(op.val) > HdrSize
          BY <3>1, Sizes
        <5>2. FixedRam.free[c.blk] \in Int
          BY <3>2, <4>3 DEF Ram
        <5> QED
          BY <5>1, <5>2, <4>1, <4>3, BlocksNat
      <4>5. FixedRam.free[c.blk] = BlkFresh - WalkEnd(flash[c.blk])
        BY <3>2, <4>2, <4>4 DEF Describes
      <4>6. PICK w \in Nat : w = WalkEnd(flash[c.blk])
        BY <1>0, <3>2, Sizes
      <4>7. r.free[c.blk] = BlkFresh - w
        BY <4>3, <4>5, <4>6
      <4> QED
        BY <4>6, <4>7, BlocksNat DEF UsableOff
    <3>7. s \in Slot
      BY <2>1, <3>1, <3>5, <3>6, HeaderSlot DEF Op
    <3> QED
      BY <1>c, <2>3, <3>2, <3>4, <3>7
  <2> QED
    BY <1>a, <2>2, <2>3
<1> QED
  BY <1>1, <1>2, <1>3, <1>4, <1>5, <1>6, <1>7 DEF Writes

-----------------------------------------------------------------------------
(* The marks hold                                                            *)

\* The classes of program points do not overlap.
LEMMA Classes ==
    /\ PC = Running \cup Marking \cup Erasing \cup Booting \cup {"inc_magic"}
    /\ Running \cap (Marking \cup Erasing \cup Booting \cup {"inc_magic"}) = {}
    /\ Marking \cap (Erasing \cup Booting \cup {"inc_magic"}) = {}
    /\ Erasing \cap (Booting \cup {"inc_magic"}) = {} /\ "inc_magic" \notin Booting
    /\ "gc_dst" \in Marking /\ "gc_copy" \in Marking /\ Copying \subseteq Marking
    /\ Collecting = Marking \cup Erasing
  BY DEF PC, Running, Marking, Erasing, Booting, Saving, Copying, Collecting

\* The sets of marked blocks depend on the marks alone.
LEMMA SameSets ==
    ASSUME \A b \in Blocks : SameMark(flash[b], flash'[b])
    PROVE  GcSrcs' = GcSrcs /\ GcDsts' = GcDsts
  BY DEF GcSrcs, GcDsts, IsGcSrc, IsGcDstNotDone, SameMark

\* One block replaced
LEMMA OneMark ==
    ASSUME NEW b \in Blocks, NEW y, flash'[b] = y, \A c \in Blocks \ {b} : flash'[c] = flash[c]
    PROVE  /\ GcSrcs' = (GcSrcs \ {b}) \cup {c \in {b} : IsGcSrc(y)}
           /\ GcDsts' = (GcDsts \ {b}) \cup {c \in {b} : IsGcDstNotDone(y)}
  BY DEF GcSrcs, GcDsts, IsGcSrc, IsGcDstNotDone

\* A set of blocks that kv_handle_incomplete_gc counts at most once
LEMMA CountedOnce ==
    ASSUME NEW S, S \subseteq Blocks, ~(Cardinality(S) > 1), S # {}
    PROVE  S = {FirstBlk(S)} /\ FirstBlk(S) \in Blocks
<1>1. IsFiniteSet(S) /\ Cardinality(S) \in Nat
  BY BlocksNat, FS_Subset, FS_CardinalityType
<1>2. PICK b \in S : b = FirstBlk(S)
  BY FirstBlkIn
<1>3. IsFiniteSet(S \ {b}) /\ Cardinality(S \ {b}) = Cardinality(S) - 1
  BY <1>1, FS_RemoveElement
<1>4. Cardinality(S \ {b}) = 0
  BY <1>1, <1>3, FS_CardinalityType
<1>5. S \ {b} = {}
  BY <1>3, <1>4, FS_EmptySet
<1> QED
  BY <1>2, <1>5

\* Marks hold on when neither the marks nor the phase changes.
LEMMA MarksKept ==
    ASSUME Marks, GcSrcs' = GcSrcs, GcDsts' = GcDsts, UNCHANGED cycles,
           \/ pc \in Running /\ pc' \in Running
           \/ pc \in Booting /\ pc' \in Booting
           \/ /\ pc \in Marking \ {"gc_dst"} /\ pc' \in Marking \ {"gc_dst"}
              /\ gc'.src = gc.src /\ gc'.dst = gc.dst /\ flash'[gc.dst].dst = flash[gc.dst].dst
    PROVE  Marks'
<1>1. Good' = Good
  BY DEF Good
<1>2. CASE pc \in Running /\ pc' \in Running
  BY <1>1, <1>2, Classes DEF Marks, Lone
<1>3. CASE pc \in Booting /\ pc' \in Booting
  BY <1>1, <1>3, Classes DEF Marks, Lone
<1>4. CASE /\ pc \in Marking \ {"gc_dst"} /\ pc' \in Marking \ {"gc_dst"}
           /\ gc'.src = gc.src /\ gc'.dst = gc.dst /\ flash'[gc.dst].dst = flash[gc.dst].dst
  BY <1>1, <1>4, Classes DEF Marks, Lone
<1> QED
  BY <1>2, <1>3, <1>4

\* So do the formatted blocks.
LEMMA FormattedKept ==
    ASSUME Formatted, ItemsOnly \/ flash' = flash,
           \/ pc' = "off"
           \/ pc' \in {"scan", "scan_magic"} /\ \A b \in Blocks : b < cur' => flash[b].magic
           \/ /\ pc \notin {"off", "scan", "scan_magic", "inc_magic", "gc_magic"}
              /\ pc' \notin {"off", "scan", "scan_magic"}
           \/ pc = "scan" /\ pc' \notin {"off", "scan", "scan_magic"}
              /\ \A b \in Blocks : b < cur
    PROVE  Formatted'
<1>1. \A b \in Blocks : (flash'[b].magic <=> flash[b].magic) /\ (flash'[b] = flash[b] \/ flash[b].magic)
  BY DEF ItemsOnly, SameMark
<1> QED
  BY <1>1 DEF Formatted

\* A step that writes items keeps the marks.
LEMMA WritesMarks == ASSUME KvInv, KvInv', MarkInv, Writes PROVE MarkInv'
<1>1. ItemsOnly
  BY WritesItems DEF MarkInv
<1>2. /\ UNCHANGED cycles
      /\ \/ pc = "scan" /\ pc' = "scan" /\ cur' = cur
         \/ pc \in Running /\ pc' \in Running
         \/ pc \in Marking \ {"gc_dst"} /\ pc' \in Marking \ {"gc_dst"} /\ gc'.src = gc.src /\ gc'.dst = gc.dst
  <2>1. CASE ScanRecover
    BY <2>1 DEF ScanRecover, IndexBuild
  <2>2. CASE GcCopyHeader
    <3>1. gc' = [gc EXCEPT !.i = NextToCopy] /\ gc \in Gc
      BY <2>2 DEF GcCopyHeader, KvInv
    <3> QED
      BY <2>2, <3>1 DEF GcCopyHeader, Marking, Copying, Gc
  <2>3. CASE GcCopyMagic \/ GcCopyKey
    BY <2>3 DEF GcCopyMagic, GcCopyKey, Marking, Copying
  <2>4. CASE GcCopyVal
    <3>1. gc' = [gc EXCEPT !.i = @ + 1] /\ gc \in Gc
      BY <2>4 DEF GcCopyVal, KvInv
    <3> QED
      BY <2>4, <3>1 DEF GcCopyVal, Marking, Copying, Gc
  <2>5. CASE SaveHeader \/ SaveMagic \/ SaveKey \/ SaveVal \/ DeleteOld
    BY <2>5 DEF SaveHeader, SaveMagic, SaveKey, SaveVal, DeleteOld, Running, Saving
  <2>6. CASE \E k \in Keys : ln_kv_del(k)
    BY <2>6 DEF ln_kv_del, Running
  <2> QED
    BY <2>1, <2>2, <2>3, <2>4, <2>5, <2>6 DEF Writes
<1>3. GcSrcs' = GcSrcs /\ GcDsts' = GcDsts /\ flash'[gc.dst].dst = flash[gc.dst].dst
  BY <1>1, SameSets DEF ItemsOnly, SameMark, KvInv, Gc
<1>4. Marks'
  BY <1>2, <1>3, MarksKept DEF MarkInv, Booting
<1>5. Formatted'
  <2>1. CASE pc = "scan" /\ pc' = "scan" /\ cur' = cur
    BY <1>1, <2>1, FormattedKept DEF MarkInv, Formatted
  <2>2. CASE pc \in Running \cup Marking /\ pc' \in Running \cup Marking
    BY <1>1, <2>2, FormattedKept DEF MarkInv, Running, Marking, Saving, Copying
  <2> QED
    BY <1>2, <2>1, <2>2
<1> QED
  BY <1>4, <1>5 DEF MarkInv

\* The steps that write no flash
LEMMA QuietMarks ==
    ASSUME KvInv, MarkInv,
           \/ ln_kv_init \/ ScanMarked \/ ScanIndex \/ ScanDone \/ IncompleteFails
           \/ IncompleteNone \/ Locate \/ SearchWild \/ SaveFails
           \/ (\E k \in Keys : ln_kv_get(k) \/ \E v \in Vals : ln_kv_set(k, v))
    PROVE  MarkInv'
<1>0. flash' = flash /\ UNCHANGED cycles /\ GcSrcs' = GcSrcs /\ GcDsts' = GcDsts
  BY DEF ln_kv_init, ScanMarked, ScanIndex, ScanDone, IncompleteFails, IncompleteNone, Locate,
         SearchWild, SaveFails, ln_kv_get, ln_kv_set, GcSrcs, GcDsts
<1>1. CASE ln_kv_init
  <2>1. pc = "off" /\ pc' = "scan" /\ cur' = 0
    BY <1>1 DEF ln_kv_init
  <2>2. \A b \in Blocks : ~(b < 0)
    BY BlocksNat
  <2> QED
    BY <1>0, <2>1, <2>2, MarksKept, FormattedKept DEF MarkInv, Booting
<1>2. CASE ScanMarked \/ ScanIndex
  <2>1. pc = "scan" /\ pc' = "scan" /\ cur' = cur + 1 /\ cur \in Blocks /\ flash[cur].magic
    BY <1>2 DEF ScanMarked, ScanIndex, IndexBuild, IsGcSrc, IsGcDstNotDone
  <2>2. \A b \in Blocks : b < cur' => b < cur \/ b = cur
    BY <2>1, BlocksNat
  <2>3. \A b \in Blocks : b < cur' => flash[b].magic
    BY <2>1, <2>2 DEF MarkInv, Formatted
  <2> QED
    BY <1>0, <2>1, <2>3, MarksKept, FormattedKept DEF MarkInv, Booting
<1>3. CASE ScanDone
  <2>1. pc = "scan" /\ pc' = "incomplete" /\ cur \notin Blocks /\ cur \in 0 .. NumBlk
    BY <1>3 DEF ScanDone, KvInv
  <2>2. \A b \in Blocks : b < cur
    BY <2>1, KvSizes DEF Blocks
  <2> QED
    BY <1>0, <2>1, <2>2, MarksKept, FormattedKept DEF MarkInv, Booting
<1>4. CASE IncompleteFails
  <2>1. pc = "incomplete" /\ pc' = "failed"
    BY <1>4 DEF IncompleteFails
  <2> QED
    BY <1>0, <2>1, MarksKept, FormattedKept DEF MarkInv, Booting
<1>5. CASE IncompleteNone
  <2>1. pc = "incomplete" /\ pc' = "locate" /\ GcSrcs = {}
    BY <1>5 DEF IncompleteNone
  <2>2. Formatted'
    BY <1>0, <2>1, FormattedKept DEF MarkInv
  <2>3. pc \in Booting /\ pc' \in Running /\ Good' = Good
    BY <1>0, <2>1 DEF Booting, Running, Good
  <2>4. Marks'
    BY <1>0, <2>1, <2>3, Classes DEF MarkInv, Marks, Lone
  <2> QED
    BY <2>2, <2>4 DEF MarkInv
<1>6. CASE \/ Locate \/ SearchWild \/ SaveFails
           \/ (\E k \in Keys : ln_kv_get(k) \/ \E v \in Vals : ln_kv_set(k, v))
  <2>1. pc \in {"locate", "locate_ws", "idle", "search"} /\ pc' \in {"idle", "search", "wild"}
    BY <1>6 DEF Locate, SearchWild, SaveFails, ln_kv_get, ln_kv_set
  <2> QED
    BY <1>0, <2>1, MarksKept, FormattedKept DEF MarkInv, Running
<1> QED
  BY <1>1, <1>2, <1>3, <1>4, <1>5, <1>6

\* A fresh block becomes the destination.
LEMMA FreshMarks == ASSUME KvInv, MarkInv, IncompleteFresh PROVE MarkInv'
<1>0. /\ flash' = flash /\ UNCHANGED cycles /\ GcSrcs' = GcSrcs /\ GcDsts' = GcDsts
      /\ pc = "incomplete" /\ pc' = "gc_dst" /\ GcSrcs # {} /\ GcDsts = {}
      /\ gc'.src = FirstBlk(GcSrcs) /\ ~(Cardinality(GcSrcs) > 1)
  BY DEF IncompleteFresh, GcSrcs, GcDsts, IncompleteError
<1>1. GcSrcs = {gc'.src}
  BY <1>0, CountedOnce DEF GcSrcs
<1>2. Formatted'
  BY <1>0, FormattedKept DEF MarkInv
<1>3. pc \in Booting /\ pc' \in Marking /\ Good' = Good
  BY <1>0 DEF Booting, Marking, Good
<1>4. Marks'
  BY <1>0, <1>1, <1>3, Classes DEF MarkInv, Marks, Lone
<1> QED
  BY <1>2, <1>4 DEF MarkInv

\* A power failure leaves the marks as they are on flash.
LEMMA PowerFailMarks == ASSUME KvInv, MarkInv, PowerFail PROVE MarkInv'
<1>0. /\ flash' = flash /\ GcSrcs' = GcSrcs /\ GcDsts' = GcDsts /\ pc' = "off" /\ pc \in PC
      /\ cycles \in [n : 0 .. MaxCycle, window : BOOLEAN] /\ MaxCycle \in Nat
      /\ Marks /\ Formatted
  BY KvEnv DEF PowerFail, GcSrcs, GcDsts, KvInv, MarkInv
<1>1. Formatted'
  BY <1>0, FormattedKept
<1>2. pc' \in Booting
  BY <1>0 DEF Booting
<1>3. CASE cycles' = cycles /\ pc \in {"failed", "overrun", "wild"}
  <2>1. Good' = Good /\ pc \in Booting \cup Running
    BY <1>3 DEF Good, Booting, Running
  <2> QED
    BY <1>0, <1>1, <1>2, <1>3, <2>1, Classes DEF MarkInv, Marks, Lone
<1>4. CASE /\ cycles.n < MaxCycle
           /\ cycles' = [n |-> cycles.n + 1, window |-> cycles.window \/ pc \in {"gc_magic", "gc_done"}]
  <2>1. /\ cycles'.n = cycles.n + 1 /\ cycles'.n >= 1 /\ cycles.n \in Nat
        /\ cycles'.window = (cycles.window \/ pc \in {"gc_magic", "gc_done"})
    BY <1>0, <1>4
  <2>a. cycles'.window <=> (cycles.window \/ pc \in Erasing)
    BY <2>1 DEF Erasing
  <2>2. SUFFICES ASSUME Good' PROVE (cycles'.window => GcSrcs = {} /\ Lone(GcDsts))
                                   /\ (~cycles'.window /\ GcSrcs = {} => GcDsts = {})
    <3>1. Marks' <=> (Good' => (cycles'.window => GcSrcs = {} /\ Lone(GcDsts))
                                   /\ (~cycles'.window /\ GcSrcs = {} => GcDsts = {}))
      BY <1>0, <1>2, <2>1, <2>a, Classes DEF Marks, Lone
    <3> QED
      BY <1>1, <2>2, <3>1 DEF MarkInv
  <2>3. Good /\ ~cycles.window
    <3>1. CASE ~cycles'.window
      BY <2>a, <3>1 DEF Good
    <3>2. CASE MaxCycle <= 1
      <4>1. cycles.n = 0
        BY <1>0, <1>4, <2>1, <3>2
      <4> QED
        BY <1>0, <4>1, <3>2 DEF Marks, Good
    <3> QED
      BY <2>2, <3>1, <3>2 DEF Good
  <2>4. ASSUME pc \in Erasing
        PROVE  GcSrcs = {} /\ Lone(GcDsts)
    BY <1>0, <2>3, <2>4 DEF Marks, Lone
  <2>5. ASSUME pc \notin Erasing, GcSrcs = {}
        PROVE  GcDsts = {}
    BY <1>0, <2>3, <2>5, Classes DEF Marks
  <2> QED
    BY <2>a, <2>3, <2>4, <2>5
<1> QED
  BY <1>3, <1>4 DEF PowerFail

\* A blank block is erased again: nothing changes.
LEMMA ScanEraseSame == ASSUME KvInv, Formatted, ScanErase PROVE flash' = flash
<1>1. cur \in Blocks /\ flash[cur] = Erased /\ flash \in [Blocks -> Block]
  BY DEF ScanErase, Formatted, KvInv
<1> QED
  BY <1>1 DEF ScanErase

\* The erase of an unformatted block
LEMMA ScanEraseMarks == ASSUME KvInv, MarkInv, ScanErase PROVE MarkInv'
<1>1. flash' = flash /\ pc = "scan" /\ pc' = "scan_magic" /\ cur' = cur /\ UNCHANGED cycles
  BY ScanEraseSame DEF MarkInv, ScanErase
<1>2. GcSrcs' = GcSrcs /\ GcDsts' = GcDsts
  BY <1>1 DEF GcSrcs, GcDsts
<1>3. \A b \in Blocks : b < cur' => flash[b].magic
  BY <1>1 DEF MarkInv, Formatted
<1> QED
  BY <1>1, <1>2, <1>3, MarksKept, FormattedKept DEF MarkInv, Booting

\* The interrupted destination is erased: there was one, and it is none any more.
LEMMA IncompleteEraseMarks == ASSUME KvInv, MarkInv, IncompleteErase PROVE MarkInv'
<1>1. PICK d : d = FirstBlk(GcDsts)
  OBVIOUS
<1>2. /\ pc = "incomplete" /\ pc' = "inc_magic" /\ GcSrcs # {} /\ GcDsts # {}
      /\ ~(Cardinality(GcSrcs) > 1) /\ ~(Cardinality(GcDsts) > 1)
      /\ flash' = [flash EXCEPT ![d] = Erased] /\ UNCHANGED cycles
      /\ gc'.src = FirstBlk(GcSrcs) /\ gc'.dst = d
  BY <1>1 DEF IncompleteErase, IncompleteError
<1>3. GcSrcs = {gc'.src} /\ GcDsts = {d} /\ d \in Blocks
  BY <1>1, <1>2, CountedOnce DEF GcSrcs, GcDsts
<1>4. flash' \in [Blocks -> Block] /\ flash'[d] = Erased /\ \A c \in Blocks \ {d} : flash'[c] = flash[c]
  BY <1>2, <1>3, ErasedRight, Replaced DEF KvInv
<1>5. ~IsGcSrc(Erased) /\ ~IsGcDstNotDone(Erased) /\ d \notin GcSrcs
  BY <1>3 DEF IsGcSrc, IsGcDstNotDone, Erased, GcSrcs, GcDsts
<1>6. GcSrcs' = GcSrcs /\ GcDsts' = {}
  BY <1>3, <1>4, <1>5, OneMark
<1>7. Formatted'
  BY <1>2, <1>3, <1>4 DEF MarkInv, Formatted
<1>8. pc \in Booting /\ Good' = Good
  BY <1>2 DEF Booting, Good
<1>9. Marks'
  BY <1>2, <1>3, <1>6, <1>8, Classes DEF MarkInv, Marks, Lone
<1> QED
  BY <1>7, <1>9 DEF MarkInv

\* The erase of the source takes the last gc_src mark away.
LEMMA GcEraseSrcMarks == ASSUME KvInv, MarkInv, GcEraseSrc PROVE MarkInv'
<1>1. /\ pc = "gc_copy" /\ pc' = "gc_magic" /\ gc' = gc /\ UNCHANGED cycles
      /\ flash' = [flash EXCEPT ![gc.src] = Erased]
  BY DEF GcEraseSrc
<1>2. gc.src \in Blocks /\ gc.dst \in Blocks /\ gc.src # gc.dst
  BY <1>1 DEF KvInv, Moving, Collecting, Gc
<1>3. /\ flash' \in [Blocks -> Block] /\ flash'[gc.src] = Erased
      /\ \A c \in Blocks \ {gc.src} : flash'[c] = flash[c]
  BY <1>1, <1>2, ErasedRight, Replaced DEF KvInv
<1>4. ~IsGcSrc(Erased) /\ ~IsGcDstNotDone(Erased)
  BY DEF IsGcSrc, IsGcDstNotDone, Erased
<1>5. GcSrcs' = GcSrcs \ {gc.src} /\ GcDsts' = GcDsts \ {gc.src}
  BY <1>2, <1>3, <1>4, OneMark
<1>6. Formatted'
  BY <1>1, <1>2, <1>3 DEF MarkInv, Formatted
<1>7. pc \in Marking \ {"gc_dst"} /\ pc' \in Erasing /\ Good' = Good
  BY <1>1 DEF Marking, Erasing, Good
<1>8. flash'[gc'.dst].dst = flash[gc.dst].dst
  BY <1>1, <1>2, <1>3
<1>9. Marks'
  BY <1>1, <1>5, <1>7, <1>8, Classes DEF MarkInv, Marks, Lone
<1> QED
  BY <1>6, <1>9 DEF MarkInv

\* A magic word written to a blank block
LEMMA MagicWritten ==
    ASSUME flash \in [Blocks -> Block], Formatted, NEW b \in Blocks,
           flash' = [flash EXCEPT ![b].magic = TRUE]
    PROVE  /\ flash' \in [Blocks -> Block] /\ \A c \in Blocks \ {b} : flash'[c] = flash[c]
           /\ flash'[b].items = flash[b].items /\ flash'[b].magic
           /\ flash'[b].src = flash[b].src /\ flash'[b].dst = flash[b].dst
           /\ flash'[b].done = flash[b].done
           /\ GcSrcs' = GcSrcs /\ GcDsts' = GcDsts
           /\ \A c \in Blocks : ~flash'[c].magic => flash'[c] = Erased
<1>1. PICK y : /\ flash' = [flash EXCEPT ![b] = y]
               /\ y \in Block /\ y.items = flash[b].items /\ y.magic = TRUE
               /\ y.src = flash[b].src /\ y.dst = flash[b].dst /\ y.done = flash[b].done
  BY MarkPut
<1>2. flash' \in [Blocks -> Block] /\ flash'[b] = y /\ \A c \in Blocks \ {b} : flash'[c] = flash[c]
  BY <1>1, Replaced
<1>3. ~flash[b].magic => ~flash[b].src /\ ~flash[b].dst
  BY DEF Formatted, Erased
<1>4. (IsGcSrc(y) <=> b \in GcSrcs) /\ (IsGcDstNotDone(y) <=> b \in GcDsts)
  BY <1>1, <1>3 DEF IsGcSrc, IsGcDstNotDone, GcSrcs, GcDsts
<1>5. GcSrcs' = GcSrcs /\ GcDsts' = GcDsts
  BY <1>2, <1>4, OneMark
<1>6. \A c \in Blocks : ~flash'[c].magic => flash'[c] = Erased
  BY <1>1, <1>2 DEF Formatted
<1> QED
  BY <1>1, <1>2, <1>5, <1>6

\* The magic word of an erased block sets no mark.
LEMMA MagicMarks == ASSUME KvInv, MarkInv, ScanMagic \/ IncompleteMagic \/ GcMagicSrc PROVE MarkInv'
<1>0. flash \in [Blocks -> Block] /\ Formatted /\ Marks /\ gc \in Gc
  BY DEF KvInv, MarkInv
<1>1. CASE ScanMagic
  <2>1. /\ pc = "scan_magic" /\ pc' = "scan" /\ cur' = cur + 1 /\ UNCHANGED cycles /\ cur \in Blocks
        /\ flash' = [flash EXCEPT ![cur].magic = TRUE]
    BY <1>1 DEF ScanMagic, KvInv, Scanning
  <2>2. /\ \A c \in Blocks \ {cur} : flash'[c] = flash[c]
        /\ flash'[cur].magic /\ GcSrcs' = GcSrcs /\ GcDsts' = GcDsts
        /\ \A c \in Blocks : ~flash'[c].magic => flash'[c] = Erased
    BY <1>0, <2>1, MagicWritten
  <2>3. \A b \in Blocks : b < cur' => b < cur \/ b = cur
    BY <2>1, BlocksNat
  <2>4. Formatted'
    BY <1>0, <2>1, <2>2, <2>3 DEF Formatted
  <2> QED
    BY <1>0, <2>1, <2>2, <2>4, MarksKept DEF MarkInv, Booting
<1>2. CASE IncompleteMagic
  <2>1. /\ pc = "inc_magic" /\ pc' = "gc_dst" /\ gc' = gc /\ UNCHANGED cycles /\ gc.dst \in Blocks
        /\ flash' = [flash EXCEPT ![gc.dst].magic = TRUE]
    BY <1>0, <1>2 DEF IncompleteMagic, Gc
  <2>2. /\ \A c \in Blocks \ {gc.dst} : flash'[c] = flash[c]
        /\ flash'[gc.dst].magic /\ GcSrcs' = GcSrcs /\ GcDsts' = GcDsts
        /\ \A c \in Blocks : ~flash'[c].magic => flash'[c] = Erased
    BY <1>0, <2>1, MagicWritten
  <2>3. Formatted'
    BY <1>0, <2>1, <2>2 DEF Formatted
  <2>4. pc' \in Marking /\ Good' = Good
    BY <2>1 DEF Marking, Good
  <2>5. Marks'
    BY <1>0, <2>1, <2>2, <2>4, Classes DEF Marks, Lone
  <2> QED
    BY <2>3, <2>5 DEF MarkInv
<1>3. CASE GcMagicSrc
  <2>1. /\ pc = "gc_magic" /\ pc' = "gc_done" /\ gc' = gc /\ UNCHANGED cycles /\ gc.src \in Blocks
        /\ flash' = [flash EXCEPT ![gc.src].magic = TRUE]
    BY <1>0, <1>3 DEF GcMagicSrc, Gc
  <2>2. /\ \A c \in Blocks \ {gc.src} : flash'[c] = flash[c]
        /\ flash'[gc.src].magic /\ GcSrcs' = GcSrcs /\ GcDsts' = GcDsts
        /\ flash'[gc.src].dst = flash[gc.src].dst
        /\ \A c \in Blocks : ~flash'[c].magic => flash'[c] = Erased
    BY <1>0, <2>1, MagicWritten
  <2>3. Formatted'
    BY <1>0, <2>1, <2>2 DEF Formatted
  <2>4. pc \in Erasing /\ pc' \in Erasing /\ Good' = Good /\ gc.dst \in Blocks
    BY <1>0, <2>1 DEF Erasing, Good, Gc
  <2>5. flash'[gc'.dst].dst = flash[gc.dst].dst
    BY <2>1, <2>2, <2>4
  <2>6. Marks'
    BY <1>0, <2>1, <2>2, <2>4, <2>5, Classes DEF Marks, Lone
  <2> QED
    BY <2>3, <2>6 DEF MarkInv
<1> QED
  BY <1>1, <1>2, <1>3

\* The first mark of a garbage collection
LEMMA SourceMarks == ASSUME KvInv, MarkInv, LocateGc \/ SearchGc PROVE MarkInv'
<1>0. flash \in [Blocks -> Block] /\ Formatted /\ Marks
  BY DEF KvInv, MarkInv
<1>1. PICK s : s = FirstBlk(Dirty(ram))
  OBVIOUS
<1>2. /\ pc \in {"locate", "search"} /\ pc' = "gc_dst" /\ UNCHANGED cycles /\ Dirty(ram) # {}
      /\ flash' = [flash EXCEPT ![s].src = TRUE] /\ gc'.src = s
  BY <1>1 DEF LocateGc, SearchGc, Rescue, NeedsGc, CanGc
<1>3. s \in Blocks
  BY <1>1, <1>2, FirstBlkIn DEF Dirty
<1>4. PICK y : /\ flash' = [flash EXCEPT ![s] = y]
               /\ y \in Block /\ y.items = flash[s].items /\ y.magic = flash[s].magic
               /\ y.src = TRUE /\ y.dst = flash[s].dst /\ y.done = flash[s].done
  BY <1>0, <1>2, <1>3, MarkPut, ZenonT(40)
<1>5. flash' \in [Blocks -> Block] /\ flash'[s] = y /\ \A c \in Blocks \ {s} : flash'[c] = flash[c]
  BY <1>0, <1>3, <1>4, Replaced
<1>6. \A c \in Blocks : flash[c].magic
  BY <1>0, <1>2 DEF Formatted
<1>7. \A c \in Blocks : flash'[c].magic
  BY <1>4, <1>5, <1>6
<1>8. Formatted'
  BY <1>2, <1>7 DEF Formatted
<1>9. IsGcSrc(y) /\ ~IsGcDstNotDone(y)
  BY <1>3, <1>4, <1>6 DEF IsGcSrc, IsGcDstNotDone
<1>10. GcSrcs' = GcSrcs \cup {s} /\ GcDsts' = GcDsts \ {s}
  BY <1>3, <1>5, <1>9, OneMark
<1>11. pc \in Running /\ pc' \in Marking /\ Good' = Good /\ pc' = "gc_dst"
  BY <1>2 DEF Running, Marking, Good
<1>12. Marks'
  BY <1>0, <1>2, <1>10, <1>11, Classes DEF Marks, Lone
<1> QED
  BY <1>8, <1>12 DEF MarkInv

\* gc_dst and gc_done
LEMMA TargetMarks == ASSUME KvInv, MarkInv, GcMarkDst \/ GcMarkDone PROVE MarkInv'
<1>0. flash \in [Blocks -> Block] /\ Formatted /\ Marks /\ gc \in Gc /\ gc.dst \in Blocks
  BY DEF KvInv, MarkInv, Gc
<1>1. CASE GcMarkDst
  <2>1. /\ pc = "gc_dst" /\ pc' = "gc_copy" /\ UNCHANGED cycles /\ gc' = gc
        /\ flash' = [flash EXCEPT ![gc.dst].dst = TRUE]
    BY <1>1 DEF GcMarkDst
  <2>2. PICK y : /\ flash' = [flash EXCEPT ![gc.dst] = y]
                 /\ y \in Block /\ y.items = flash[gc.dst].items /\ y.magic = flash[gc.dst].magic
                 /\ y.src = flash[gc.dst].src /\ y.dst = TRUE /\ y.done = flash[gc.dst].done
    BY <1>0, <2>1, MarkPut, ZenonT(40)
  <2>3. /\ flash' \in [Blocks -> Block] /\ flash'[gc.dst] = y
        /\ \A c \in Blocks \ {gc.dst} : flash'[c] = flash[c]
    BY <1>0, <2>2, Replaced
  <2>4. \A c \in Blocks : flash[c].magic
    BY <1>0, <2>1 DEF Formatted
  <2>5. \A c \in Blocks : flash'[c].magic
    BY <1>0, <2>2, <2>3, <2>4
  <2>6. Formatted'
    BY <2>1, <2>5 DEF Formatted
  <2>7. IsGcSrc(y) <=> gc.dst \in GcSrcs
    BY <1>0, <2>2 DEF IsGcSrc, GcSrcs
  <2>8. GcSrcs' = GcSrcs /\ GcDsts' \subseteq GcDsts \cup {gc.dst}
    BY <1>0, <2>3, <2>7, OneMark
  <2>9. pc \in Marking /\ pc' \in Marking /\ Good' = Good /\ flash'[gc'.dst].dst
    BY <2>1, <2>2, <2>3 DEF Marking, Good
  <2>10. Marks'
    BY <1>0, <2>1, <2>8, <2>9, Classes DEF Marks, Lone
  <2> QED
    BY <2>6, <2>10 DEF MarkInv
<1>2. CASE GcMarkDone
  <2>1. /\ pc = "gc_done" /\ UNCHANGED cycles
        /\ flash' = [flash EXCEPT ![gc.dst].done = TRUE]
    BY <1>2 DEF GcMarkDone
  <2>2. PICK y : /\ flash' = [flash EXCEPT ![gc.dst] = y]
                 /\ y \in Block /\ y.items = flash[gc.dst].items /\ y.magic = flash[gc.dst].magic
                 /\ y.src = flash[gc.dst].src /\ y.dst = flash[gc.dst].dst /\ y.done = TRUE
    BY <1>0, <2>1, MarkPut
  <2>3. /\ flash' \in [Blocks -> Block] /\ flash'[gc.dst] = y
        /\ \A c \in Blocks \ {gc.dst} : flash'[c] = flash[c]
    BY <1>0, <2>2, Replaced
  <2>4. \A c \in Blocks : flash[c].magic
    BY <1>0, <2>1 DEF Formatted
  <2>5. \A c \in Blocks : flash'[c].magic
    BY <1>0, <2>2, <2>3, <2>4
  <2>6. pc' \in {"search", "locate_ws", "locate"}
    <3>1. gc.from \in {"search", "locate", "incomplete"}
      BY <2>1 DEF KvInv, Moving, Collecting
    <3> QED
      BY <1>2, <3>1 DEF GcMarkDone
  <2>7. Formatted'
    BY <2>5, <2>6 DEF Formatted
  <2>8. (IsGcSrc(y) <=> gc.dst \in GcSrcs) /\ ~IsGcDstNotDone(y)
    BY <1>0, <2>2 DEF IsGcSrc, IsGcDstNotDone, GcSrcs
  <2>9. GcSrcs' = GcSrcs /\ GcDsts' = GcDsts \ {gc.dst}
    BY <1>0, <2>3, <2>8, OneMark
  <2>10. pc \in Erasing /\ pc' \in Running /\ Good' = Good
    BY <2>1, <2>6 DEF Erasing, Running, Good
  <2>11. Marks'
    BY <1>0, <2>1, <2>9, <2>10, Classes DEF Marks, Lone
  <2> QED
    BY <2>7, <2>11 DEF MarkInv
<1> QED
  BY <1>1, <1>2

\* The blank partition carries no mark.
LEMMA MarkInit == Init => MarkInv
<1> SUFFICES ASSUME Init PROVE MarkInv
  OBVIOUS
<1>1. pc = "off" /\ cycles.n = 0 /\ cycles.window = FALSE /\ \A b \in Blocks : flash[b] = Erased
  BY DEF Init
<1>2. GcSrcs = {} /\ GcDsts = {}
  BY <1>1 DEF GcSrcs, GcDsts, IsGcSrc, IsGcDstNotDone, Erased
<1>3. Formatted
  BY <1>1 DEF Formatted
<1>4. pc \in Booting
  BY <1>1 DEF Booting
<1> QED
  BY <1>1, <1>2, <1>3, <1>4, Classes DEF MarkInv, Marks

\* The marks are inductive.
LEMMA MarkNext == ASSUME KvInv, MarkInv, [Next]_vars PROVE KvInv' /\ MarkInv'
<1>1. KvInv'
  BY KvNext
<1>2. CASE Boot
  BY <1>1, <1>2, QuietMarks, ScanEraseMarks, MagicMarks, WritesMarks, IncompleteEraseMarks,
     FreshMarks, SourceMarks DEF Boot, Writes
<1>3. CASE Collect
  BY <1>1, <1>3, TargetMarks, WritesMarks, GcEraseSrcMarks, MagicMarks DEF Collect, Writes
<1>4. CASE Save
  BY <1>1, <1>4, QuietMarks, SourceMarks, WritesMarks DEF Save, Writes
<1>5. CASE Call
  BY <1>1, <1>5, QuietMarks, WritesMarks DEF Call, Writes
<1>6. CASE PowerFail
  BY <1>1, <1>6, PowerFailMarks
<1>7. CASE UNCHANGED vars
  BY <1>1, <1>7 DEF vars, MarkInv, Formatted, Marks, Good, GcSrcs, GcDsts
<1> QED
  BY <1>2, <1>3, <1>4, <1>5, <1>6, <1>7 DEF Next

-----------------------------------------------------------------------------
(* The index misses no room                                                  *)

\* A block that nobody touched stays known.
LEMMA StillComplete ==
    ASSUME NEW r, NEW q, NEW f, NEW g, NEW b, Complete(r, f, b), WalkEnd(g[b]) = WalkEnd(f[b]),
           g[b].items = << >> <=> f[b].items = << >>,
           b \in Fresh(r) \cup Inuse(r) => b \in Fresh(q) \cup Inuse(q)
    PROVE  Complete(q, g, b)
  BY DEF Complete

\* A walk to the end of a block finds out whether it has room.
LEMMA WalkComplete ==
    ASSUME NEW r, NEW q, NEW f, NEW b \in Blocks, q.flags[b] = WalkFlags(r, f, b)
    PROVE  Complete(q, f, b) /\ (f[b].items = << >> => b \in Fresh(q))
  BY DEF Complete, WalkFlags, Fresh, Inuse

\* Membership in the sets of the index
LEMMA FlagsMember ==
    ASSUME NEW r, NEW b \in Blocks
    PROVE  /\ b \in Fresh(r) <=> "fresh" \in r.flags[b]
           /\ b \in Inuse(r) <=> "inuse" \in r.flags[b]
           /\ b \in Dirty(r) <=> "dirty" \in r.flags[b]
  BY DEF Fresh, Inuse, Dirty

\* num_inuse is exact when one entry is rewritten and the counter follows.
LEMMA ExactEntry ==
    ASSUME NEW r, r \in Ram, Exact(r), NEW b \in Blocks, NEW q, Entry(r, q, b),
           q.numInuse = r.numInuse + (IF "inuse" \in q.flags[b] THEN 1 ELSE 0)
                                   - (IF "inuse" \in r.flags[b] THEN 1 ELSE 0)
    PROVE  Exact(q)
<1>1. IsFiniteSet(Inuse(r)) /\ Cardinality(Inuse(r)) \in Nat
  BY FlagSets
<1>2. /\ Inuse(q) = IF "inuse" \in q.flags[b] THEN Inuse(r) \cup {b} ELSE Inuse(r) \ {b}
      /\ b \in Inuse(r) <=> "inuse" \in r.flags[b]
  BY DEF Entry, Inuse
<1>3. /\ Cardinality(Inuse(r) \cup {b}) = IF b \in Inuse(r) THEN Cardinality(Inuse(r))
                                          ELSE Cardinality(Inuse(r)) + 1
      /\ Cardinality(Inuse(r) \ {b}) = IF b \in Inuse(r) THEN Cardinality(Inuse(r)) - 1
                                       ELSE Cardinality(Inuse(r))
  BY <1>1, FS_AddElement, FS_RemoveElement
<1>4. CASE "inuse" \in q.flags[b]
  BY <1>1, <1>2, <1>3, <1>4 DEF Exact
<1>5. CASE "inuse" \notin q.flags[b]
  BY <1>1, <1>2, <1>3, <1>5 DEF Exact
<1> QED
  BY <1>4, <1>5

\* The walk of one block
LEMMA WalkExact ==
    ASSUME NEW r, RamOk(r), Exact(r), NEW f \in [Blocks -> Block], NEW b \in Blocks,
           "fresh" \in r.flags[b] => f[b].items = << >>,
           f[b].items = << >> => "inuse" \notin r.flags[b]
    PROVE  Exact(WalkAll(r, f, {b}))
<1> DEFINE q == WalkAll(r, f, {b})
           starts == {c \in {b} : /\ f[c].items # << >> /\ "inuse" \notin r.flags[c]
                                  /\ "inuse" \in WalkFlags(r, f, c)}
           stops == {c \in {b} : /\ f[c].items # << >> /\ "inuse" \in r.flags[c]
                                 /\ "inuse" \notin WalkFlags(r, f, c)}
<1>1. q.numInuse = r.numInuse + Cardinality(starts) - Cardinality(stops)
  BY DEF WalkAll
<1>2. /\ RamOk(q) /\ q.workspace = r.workspace
      /\ \A c \in Blocks \ {b} : q.flags[c] = r.flags[c] /\ q.free[c] = r.free[c]
      /\ q.flags[b] = WalkFlags(r, f, b)
  BY WalkAllRight
<1> HIDE DEF q
<1>3. r \in Ram /\ q \in Ram /\ Entry(r, q, b) /\ r.numInuse \in Int
  BY <1>2 DEF RamOk, Entry, Ram
<1>4. f[b].items = << >> => "inuse" \notin WalkFlags(r, f, b)
  BY DEF WalkFlags
<1>5. /\ starts = IF "inuse" \in q.flags[b] /\ "inuse" \notin r.flags[b] THEN {b} ELSE {}
      /\ stops = IF "inuse" \notin q.flags[b] /\ "inuse" \in r.flags[b] THEN {b} ELSE {}
  BY <1>2, <1>4
<1> HIDE DEF starts, stops
<1>6. Cardinality({b}) = 1 /\ Cardinality({}) = 0
  BY FS_Singleton, FS_EmptySet
<1>7. q.numInuse = r.numInuse + (IF "inuse" \in q.flags[b] THEN 1 ELSE 0)
                              - (IF "inuse" \in r.flags[b] THEN 1 ELSE 0)
  BY <1>1, <1>3, <1>5, <1>6
<1>8. Exact(q)
  BY <1>3, <1>7, ExactEntry
<1> QED
  BY <1>8 DEF q

\* num_inuse stays exact when a block that is not inuse becomes fresh.
LEMMA FreshExact ==
    ASSUME NEW r, RamOk(r), NEW b \in Blocks, "inuse" \notin r.flags[b]
    PROVE  LET q == kv_blk_set_fresh(r, b)
           IN  (Exact(r) => Exact(q)) /\ Inuse(q) = Inuse(r) /\ q.numInuse = r.numInuse
<1> PICK q : q = kv_blk_set_fresh(r, b)
  OBVIOUS
<1>1. Entry(r, q, b) /\ q.flags[b] = {"fresh"}
  BY SetFresh
<1>2. q.numInuse = r.numInuse
  BY DEF kv_blk_set_fresh, RamOk, Ram
<1>3. Inuse(q) = Inuse(r)
  BY <1>1 DEF Inuse, Entry
<1> QED
  BY <1>2, <1>3 DEF Exact

\* num_inuse stays exact when a block becomes dirty.
LEMMA DirtyExact ==
    ASSUME NEW r, RamOk(r), NEW b \in Blocks
    PROVE  LET q == kv_blk_set_dirty(r, b)
           IN  /\ Exact(r) => Exact(q)
               /\ Inuse(q) = Inuse(r) /\ Fresh(q) = Fresh(r)
               /\ q.numInuse = r.numInuse /\ q.numFresh = r.numFresh
               /\ q.workspace = r.workspace
<1> PICK q : q = kv_blk_set_dirty(r, b)
  OBVIOUS
<1>1. r \in Ram /\ q = [r EXCEPT !.flags[b] = @ \cup {"dirty"}]
  BY DEF kv_blk_set_dirty, RamOk
<1>2. /\ q.numInuse = r.numInuse /\ q.numFresh = r.numFresh /\ q.workspace = r.workspace
      /\ q.flags = [r.flags EXCEPT ![b] = @ \cup {"dirty"}]
  BY <1>1 DEF Ram
<1>3. \A c \in Blocks : q.flags[c] = r.flags[c] \/ q.flags[c] = r.flags[c] \cup {"dirty"}
  BY <1>1, <1>2 DEF Ram
<1>4. Inuse(q) = Inuse(r) /\ Fresh(q) = Fresh(r)
  BY <1>3 DEF Inuse, Fresh
<1> QED
  BY <1>2, <1>4 DEF Exact

\* Nothing is writeable if and only if no block is fresh or counted as inuse.
LEMMA NothingWriteable ==
    ASSUME NEW r, RamOk(r)
    PROVE  /\ KV_NO_WRITEABLE_BLK(r) => Fresh(r) = {} /\ Inuse(r) = {}
           /\ Fresh(r) # {} => ~KV_NO_WRITEABLE_BLK(r)
           /\ r.numFresh = 0 => Fresh(r) = {}
           /\ Fresh(r) = {} => r.numFresh = 0
<1>1. /\ IsFiniteSet(Fresh(r)) /\ IsFiniteSet(Inuse(r))
      /\ Cardinality(Fresh(r)) \in Nat /\ Cardinality(Inuse(r)) \in Nat
      /\ r.numFresh = Cardinality(Fresh(r)) /\ r.numInuse >= Cardinality(Inuse(r))
      /\ r.numInuse \in Int
  BY FlagSets DEF RamOk, Counted, Ram
<1>2. (r.numInuse = 0 => Cardinality(Inuse(r)) = 0) /\ (r.numFresh = 0 => Cardinality(Fresh(r)) = 0)
  BY <1>1
<1>3. (Cardinality(Inuse(r)) = 0 => Inuse(r) = {}) /\ (Cardinality(Fresh(r)) = 0 <=> Fresh(r) = {})
  BY <1>1, FS_EmptySet
<1> QED
  BY <1>1, <1>2, <1>3 DEF KV_NO_WRITEABLE_BLK

\* A lookup finds room that the index missed, and misses none that it knew.
LEMMA FindComplete ==
    ASSUME NEW r, RamOk(r), NEW f \in [Blocks -> Block], NEW match \in [Blocks -> SUBSET Nat],
           \A b \in Blocks : match[b] \subseteq DOMAIN f[b].items,
           \A b \in Blocks : Describes(r, f, b), \A b \in Blocks : Complete(r, f, b)
    PROVE  LET q == FindRam(r, f, match)
           IN  /\ \A b \in Blocks : Complete(q, f, b)
               /\ KV_NO_WRITEABLE_BLK(r) => KV_NO_WRITEABLE_BLK(q)
<1> DEFINE at == FindItem(r, match)
           W == {b \in Blocks \ Fresh(r) : b < at[1]}
           w == WalkAll(r, f, W)
<1>0. at = NoItem \/ at[1] \in Blocks
  BY Found
<1>1. W \in SUBSET Blocks /\ \A b \in W : "fresh" \notin r.flags[b]
  BY DEF Fresh
<1> HIDE DEF at
<1>2. /\ RamOk(w) /\ w.workspace = r.workspace
      /\ \A b \in Blocks \ W : w.flags[b] = r.flags[b] /\ w.free[b] = r.free[b]
      /\ \A b \in W : w.flags[b] = WalkFlags(r, f, b)
  <2> HIDE DEF W
  <2> QED
    BY <1>1, WalkAllRight
<1>3. ASSUME NEW b \in Blocks PROVE Complete(w, f, b)
  <2>1. CASE b \in W
    BY <1>2, <2>1, WalkComplete
  <2>2. CASE b \notin W
    <3>1. w.flags[b] = r.flags[b]
      BY <1>2, <2>2
    <3> QED
      BY <3>1, StillComplete DEF Fresh, Inuse
  <2> QED
    BY <2>1, <2>2
<1>4. ASSUME KV_NO_WRITEABLE_BLK(r) PROVE KV_NO_WRITEABLE_BLK(w)
  <2>1. Fresh(r) = {} /\ Inuse(r) = {} /\ r.numFresh = 0 /\ r.numInuse = 0
    BY <1>4, NothingWriteable DEF KV_NO_WRITEABLE_BLK
  <2>2. \A b \in Blocks : f[b].items # << >> /\ ~(WalkEnd(f[b]) + HdrSize < BlkFresh)
    BY <2>1 DEF Complete
  <2>3. \A b \in Blocks : "inuse" \notin r.flags[b] /\ "inuse" \notin WalkFlags(r, f, b)
    BY <2>1, <2>2, FlagsMember DEF WalkFlags
  <2> DEFINE gains == {b \in W : f[b].items = << >> /\ "fresh" \notin r.flags[b]}
             starts == {b \in W : /\ f[b].items # << >> /\ "inuse" \notin r.flags[b]
                                  /\ "inuse" \in WalkFlags(r, f, b)}
             stops == {b \in W : /\ f[b].items # << >> /\ "inuse" \in r.flags[b]
                                 /\ "inuse" \notin WalkFlags(r, f, b)}
  <2>4. gains = {} /\ starts = {} /\ stops = {}
    BY <1>1, <2>2, <2>3
  <2>5. w.numFresh = 0 /\ w.numInuse = 0
    <3>1. Cardinality({}) = 0
      BY FS_EmptySet
    <3>2. /\ w.numFresh = r.numFresh + Cardinality(gains)
          /\ w.numInuse = r.numInuse + Cardinality(starts) - Cardinality(stops)
      BY DEF WalkAll
    <3> HIDE DEF w, gains, starts, stops
    <3> QED
      BY <2>1, <2>4, <3>1, <3>2
  <2> QED
    BY <2>5 DEF KV_NO_WRITEABLE_BLK
<1>5. FindRam(r, f, match) = IF at # NoItem /\ DirtUpTo(f[at[1]], at[2] - 1)
                             THEN kv_blk_set_dirty(w, at[1]) ELSE w
  BY Zenon DEF FindRam, at
<1> HIDE DEF w, W
<1>6. CASE FindRam(r, f, match) = w
  BY <1>3, <1>4, <1>6
<1>7. CASE FindRam(r, f, match) = kv_blk_set_dirty(w, at[1]) /\ at # NoItem
  <2> PICK q : q = kv_blk_set_dirty(w, at[1])
    OBVIOUS
  <2>1. Inuse(q) = Inuse(w) /\ Fresh(q) = Fresh(w) /\ q.numInuse = w.numInuse /\ q.numFresh = w.numFresh
    BY <1>0, <1>2, <1>7, DirtyExact
  <2>2. \A b \in Blocks : Complete(q, f, b)
    BY <1>3, <2>1 DEF Complete
  <2> QED
    BY <1>4, <1>7, <2>1, <2>2 DEF KV_NO_WRITEABLE_BLK
<1> QED
  BY <1>5, <1>6, <1>7, Zenon

\* A discarded item leaves the room and the marks of every block as they are.
LEMMA DropsRoom ==
    ASSUME NEW f \in [Blocks -> Block], NEW g, NEW b, NEW j, Drops(f, g, b, j), NEW c \in Blocks
    PROVE  /\ WalkEnd(g[c]) = WalkEnd(f[c]) /\ (g[c].items = << >> <=> f[c].items = << >>)
           /\ SameMark(f[c], g[c]) /\ Plain(g[c]) = Plain(f[c])
<1>1. CASE c = b
  <2>1. Discarded(f[b], g[b]) /\ f[b] \in Block
    BY <1>1 DEF Drops
  <2>2. Alike(f[b], g[b])
    BY <2>1, DiscardedAlike
  <2>3. SameMark(f[b], g[b])
    BY <2>1 DEF Discarded, WithItems, SameMark
  <2>4. Plain(g[b]) = Plain(f[b])
    BY <2>3 DEF SameMark, Plain, IsGcSrc, IsGcDstNotDone
  <2> QED
    BY <1>1, <2>2, <2>3, <2>4, AlikeSame
<1>2. CASE c # b
  BY <1>2 DEF Drops, SameMark
<1> QED
  BY <1>1, <1>2

\* Boot owes no workspace yet.
LEMMA UsableBooting == ASSUME pc' \in Booting, gc'.from # "search" PROVE Usable'
  BY Classes DEF Usable, Booting, Saving, Running, Marking, Erasing, Copying

\* What the boot scan has to show
LEMMA ScanIndexed ==
    ASSUME KvInv, KvInv', pc' \in {"scan", "scan_magic", "incomplete"}, Exact(ram'),
           \A b \in Blocks : ~Plain(flash'[b]) => b \notin Inuse(ram'),
           \A b \in Blocks : (pc' # "incomplete" => b < cur') /\ Plain(flash'[b]) =>
               Complete(ram', flash', b) /\ (flash'[b].items = << >> => b \in Fresh(ram'))
    PROVE  IndexFacts'
<1>1. pc' \in Booting /\ gc'.from # "search" /\ pc' \notin {"inc_magic", "gc_magic"}
  BY DEF Booting, KvInv, Moving, Collecting, Copying
<1>2. Usable'
  BY <1>1, UsableBooting
<1>3. Scanned'
  BY DEF Scanned
<1>4. Counting'
  BY <1>1 DEF Counting
<1> QED
  BY <1>2, <1>3, <1>4 DEF IndexFacts

\* The boot scan
LEMMA ScanSteps ==
    ASSUME KvInv, KvInv', MarkInv, IndexFacts,
           ln_kv_init \/ ScanErase \/ ScanMagic \/ ScanMarked \/ ScanRecover \/ ScanIndex \/ ScanDone
    PROVE  IndexFacts'
<1>0. flash \in [Blocks -> Block] /\ RamOk(ram) /\ Blocks \subseteq Nat /\ cur \in Int
  BY BlocksNat, KvSizes DEF KvInv
<1>a. ASSUME pc \in {"scan", "scan_magic"}
      PROVE  /\ Exact(ram) /\ \A b \in Blocks : ~Plain(flash[b]) => b \notin Inuse(ram)
             /\ \A b \in Blocks : b < cur /\ Plain(flash[b]) =>
                    Complete(ram, flash, b) /\ (flash[b].items = << >> => b \in Fresh(ram))
             /\ cur \in Blocks => ram.flags[cur] \subseteq {"dirty"}
  BY <1>0, <1>a DEF IndexFacts, Counting, Scanned, KvInv, Scanning
<1>1. CASE ln_kv_init
  <2>1. pc' = "scan" /\ cur' = 0 /\ ram' = ZeroRam
    BY <1>1 DEF ln_kv_init
  <2>2. Inuse(ZeroRam) = {} /\ ZeroRam.numInuse = 0 /\ Cardinality({}) = 0
    BY ZeroRight, FS_EmptySet DEF Inuse, ZeroRam
  <2>3. \A b \in Blocks : ~(b < cur')
    BY <1>0, <2>1
  <2> QED
    BY <2>1, <2>2, <2>3, ScanIndexed DEF Exact
<1>2. CASE ScanErase
  <2>1. flash' = flash /\ ram' = ram /\ pc = "scan" /\ pc' = "scan_magic" /\ cur' = cur
    BY <1>2, ScanEraseSame DEF MarkInv, ScanErase
  <2> QED
    BY <1>a, <2>1, ScanIndexed
<1>3. CASE ScanMagic
  <2>1. /\ pc = "scan_magic" /\ pc' = "scan" /\ cur' = cur + 1 /\ cur \in Blocks
        /\ flash' = [flash EXCEPT ![cur].magic = TRUE] /\ ram' = kv_blk_set_fresh(ram, cur)
        /\ flash[cur] = Erased
    BY <1>3 DEF ScanMagic, KvInv, Scanning
  <2>2. /\ \A c \in Blocks \ {cur} : flash'[c] = flash[c]
        /\ flash'[cur].src = flash[cur].src /\ flash'[cur].dst = flash[cur].dst
    BY <1>0, <2>1, MagicWritten DEF MarkInv
  <2>3. "inuse" \notin ram.flags[cur]
    BY <1>a, <2>1
  <2>4. Entry(ram, ram', cur) /\ ram'.flags[cur] = {"fresh"} /\ Inuse(ram') = Inuse(ram) /\ Exact(ram')
    BY <1>0, <1>a, <2>1, <2>3, SetFresh, FreshExact
  <2>5. Plain(flash'[cur])
    BY <2>1, <2>2 DEF Plain, IsGcSrc, IsGcDstNotDone, Erased
  <2>6. \A b \in Blocks : ~Plain(flash'[b]) => b \notin Inuse(ram')
    BY <1>a, <2>1, <2>2, <2>4, <2>5
  <2>7. cur \in Fresh(ram')
    BY <2>1, <2>4, FlagsMember
  <2>8. ASSUME NEW b \in Blocks, b < cur', Plain(flash'[b])
        PROVE  Complete(ram', flash', b) /\ (flash'[b].items = << >> => b \in Fresh(ram'))
    <3>1. CASE b = cur
      BY <2>7, <3>1 DEF Complete
    <3>2. CASE b # cur
      <4>1. b < cur /\ flash'[b] = flash[b] /\ ram'.flags[b] = ram.flags[b]
        BY <1>0, <2>1, <2>2, <2>4, <2>8, <3>2 DEF Entry
      <4>2. Complete(ram, flash, b) /\ (flash[b].items = << >> => b \in Fresh(ram))
        BY <1>a, <2>1, <2>8, <4>1
      <4>3. Complete(ram', flash', b)
        BY <4>1, <4>2, FlagsMember, StillComplete
      <4> QED
        BY <4>1, <4>2, <4>3, FlagsMember
    <3> QED
      BY <3>1, <3>2
  <2> QED
    BY <2>1, <2>4, <2>6, <2>8, ScanIndexed
<1>4. CASE ScanMarked
  <2>1. /\ pc = "scan" /\ pc' = "scan" /\ cur' = cur + 1 /\ cur \in Blocks /\ flash' = flash /\ ram' = ram
        /\ ~Plain(flash[cur])
    BY <1>4 DEF ScanMarked, Plain
  <2>2. \A b \in Blocks : b < cur' => b < cur \/ b = cur
    BY <1>0, <2>1
  <2> QED
    BY <1>a, <2>1, <2>2, ScanIndexed
<1>5. CASE ScanRecover
  <2>1. PICK b \in Blocks : \E j : Drops(flash, flash', b, j) /\ ram' = kv_blk_set_dirty(ram, b)
    BY <1>5, RecoverDrops
  <2>2. \A c \in Blocks : /\ WalkEnd(flash'[c]) = WalkEnd(flash[c])
                          /\ (flash'[c].items = << >> <=> flash[c].items = << >>)
                          /\ Plain(flash'[c]) = Plain(flash[c])
    BY <1>0, <2>1, DropsRoom
  <2>3. pc = "scan" /\ pc' = "scan" /\ cur' = cur
    BY <1>5 DEF ScanRecover, IndexBuild
  <2>4. Inuse(ram') = Inuse(ram) /\ Fresh(ram') = Fresh(ram) /\ Exact(ram')
    BY <1>0, <1>a, <2>1, <2>3, DirtyExact
  <2>5. \A c \in Blocks : Complete(ram', flash', c) <=> Complete(ram, flash, c)
    BY <2>2, <2>4 DEF Complete
  <2> QED
    BY <1>a, <2>2, <2>3, <2>4, <2>5, ScanIndexed
<1>6. CASE ScanIndex
  <2>1. /\ pc = "scan" /\ pc' = "scan" /\ cur' = cur + 1 /\ cur \in Blocks /\ flash' = flash
        /\ ram' = WalkAll(ram, flash, {cur}) /\ Plain(flash[cur])
    BY <1>6 DEF ScanIndex, IndexBuild, Plain
  <2>2. "fresh" \notin ram.flags[cur] /\ "inuse" \notin ram.flags[cur]
    BY <1>a, <2>1
  <2>3. Exact(ram')
    BY <1>0, <1>a, <2>1, <2>2, WalkExact
  <2>4. /\ \A b \in Blocks \ {cur} : ram'.flags[b] = ram.flags[b]
        /\ ram'.flags[cur] = WalkFlags(ram, flash, cur)
    BY <1>0, <2>1, <2>2, WalkAllRight
  <2>5. \A b \in Blocks : ~Plain(flash'[b]) => b \notin Inuse(ram')
    BY <1>a, <2>1, <2>4, FlagsMember
  <2>6. ASSUME NEW b \in Blocks, b < cur', Plain(flash'[b])
        PROVE  Complete(ram', flash', b) /\ (flash'[b].items = << >> => b \in Fresh(ram'))
    <3>1. CASE b = cur
      BY <2>1, <2>4, <3>1, WalkComplete
    <3>2. CASE b # cur
      <4>a. b < cur
        <5>1. cur' = cur + 1 /\ b \in Int
          BY <1>0, <2>1
        <5> QED
          BY <1>0, <2>6, <3>2, <5>1
      <4>1. b < cur /\ ram'.flags[b] = ram.flags[b]
        BY <2>4, <3>2, <4>a
      <4>2. Complete(ram, flash, b) /\ (flash[b].items = << >> => b \in Fresh(ram))
        BY <1>a, <2>1, <2>6, <4>1
      <4>3. Complete(ram', flash', b)
        BY <2>1, <4>1, <4>2, FlagsMember, StillComplete
      <4> QED
        BY <2>1, <4>1, <4>2, <4>3, FlagsMember
    <3> QED
      BY <3>1, <3>2
  <2> QED
    BY <2>1, <2>3, <2>5, <2>6, ScanIndexed
<1>7. CASE ScanDone
  <2>1. pc = "scan" /\ pc' = "incomplete" /\ cur \notin Blocks /\ cur \in 0 .. NumBlk /\ flash' = flash /\ ram' = ram
    BY <1>7 DEF ScanDone, KvInv
  <2>2. \A b \in Blocks : b < cur
    BY <2>1, KvSizes DEF Blocks
  <2> QED
    BY <1>a, <2>1, <2>2, ScanIndexed
<1> QED
  BY <1>1, <1>2, <1>3, <1>4, <1>5, <1>6, <1>7

\* A collection owes the index of the blocks it does not touch.
LEMMA UsableMoving ==
    ASSUME pc' \in Marking \cup Erasing \cup {"inc_magic", "locate", "locate_ws"},
           \A b \in Blocks \ Exempt' : Plain(flash'[b]) => Complete(ram', flash', b),
           gc'.from = "search" => ram'.workspace # Unset
    PROVE  Scanned' /\ Usable'
  BY DEF Scanned, Usable, Marking, Erasing, Saving, Copying

\* Between two collections all blocks are known.
LEMMA UsableRunning ==
    ASSUME pc' \in {"idle", "search", "del_old"} \cup Saving,
           \A b \in Blocks \ Exempt' : Complete(ram', flash', b),
           pc' \in Saving => op'.blk \in Fresh(ram') \cup Inuse(ram'),
           pc' \in Saving \cup {"del_old"} => ram'.workspace # Unset,
           pc' \in {"idle", "search"} => ram'.workspace # Unset \/ KV_NO_WRITEABLE_BLK(ram'),
           gc'.from # "search"
    PROVE  IndexFacts'
<1>1. Usable' /\ Scanned'
  BY DEF Scanned, Usable, Saving
<1>2. Counting'
  BY DEF Counting, Saving, Collecting, Copying
<1> QED
  BY <1>1, <1>2 DEF IndexFacts

\* The end of the scan and the interrupted collection
LEMMA IncompleteSteps ==
    ASSUME KvInv, KvInv', MarkInv, IndexFacts,
           \/ IncompleteFails \/ IncompleteNone \/ IncompleteErase
           \/ IncompleteMagic \/ IncompleteFresh
    PROVE  IndexFacts'
<1>0. flash \in [Blocks -> Block] /\ RamOk(ram) /\ gc \in Gc
  BY DEF KvInv
<1>a. ASSUME pc = "incomplete"
      PROVE  /\ Exact(ram) /\ gc.from # "search"
             /\ \A b \in Blocks : ~Plain(flash[b]) => b \notin Inuse(ram)
             /\ \A b \in Blocks : Plain(flash[b]) => Complete(ram, flash, b)
  BY <1>a DEF IndexFacts, Counting, Scanned, KvInv, Moving, Collecting, Copying
<1>1. CASE IncompleteFails
  <2>1. pc = "incomplete" /\ pc' = "failed" /\ gc' = gc
    BY <1>1 DEF IncompleteFails
  <2>2. Usable'
    BY <1>a, <2>1, UsableBooting DEF Booting
  <2> QED
    BY <2>1, <2>2 DEF IndexFacts, Scanned, Counting, Collecting, Copying
<1>2. CASE IncompleteNone
  <2>1. pc = "incomplete" /\ pc' = "locate" /\ gc' = gc /\ ram' = ram /\ flash' = flash
    BY <1>2 DEF IncompleteNone
  <2>2. Usable' /\ Scanned'
    BY <1>a, <2>1, UsableMoving
  <2>3. Counting'
    BY <1>a, <2>1 DEF Counting
  <2> QED
    BY <2>2, <2>3 DEF IndexFacts
<1>3. CASE IncompleteErase
  <2>1. PICK d : d = FirstBlk(GcDsts)
    OBVIOUS
  <2>2. /\ pc = "incomplete" /\ pc' = "inc_magic" /\ ram' = ram /\ GcDsts # {}
        /\ flash' = [flash EXCEPT ![d] = Erased] /\ gc'.dst = d /\ gc'.from = "incomplete"
    BY <1>3, <2>1 DEF IncompleteErase
  <2>3. d \in GcDsts /\ d \in Blocks
    BY <2>1, <2>2, FirstBlkIn DEF GcDsts
  <2>4. \A c \in Blocks \ {d} : flash'[c] = flash[c]
    BY <1>0, <2>2, <2>3, ErasedRight, Replaced
  <2>5. Exempt' = {d}
    BY <2>2 DEF Exempt, Saving
  <2>6. \A b \in Blocks \ Exempt' : Plain(flash'[b]) => Complete(ram', flash', b)
    BY <1>a, <2>2, <2>4, <2>5 DEF Complete
  <2>7. Usable' /\ Scanned'
    BY <2>2, <2>6, UsableMoving
  <2>8. d \notin Inuse(ram')
    BY <1>a, <2>2, <2>3 DEF GcDsts, Plain
  <2>9. Counting'
    BY <1>a, <2>2, <2>8 DEF Counting
  <2> QED
    BY <2>7, <2>9 DEF IndexFacts
<1>4. CASE IncompleteMagic
  <2>1. /\ pc = "inc_magic" /\ pc' = "gc_dst" /\ gc' = gc /\ gc.dst \in Blocks
        /\ flash' = [flash EXCEPT ![gc.dst].magic = TRUE] /\ ram' = kv_blk_set_fresh(ram, gc.dst)
        /\ gc.from = "incomplete"
    BY <1>0, <1>4 DEF IncompleteMagic, Gc, KvInv, Moving
  <2>2. Exact(ram) /\ "inuse" \notin ram.flags[gc.dst]
    BY <2>1, FlagsMember DEF IndexFacts, Counting
  <2>3. Entry(ram, ram', gc.dst) /\ Exact(ram')
    BY <1>0, <2>1, <2>2, SetFresh, FreshExact
  <2>4. \A c \in Blocks \ {gc.dst} : flash'[c] = flash[c]
    BY <1>0, <2>1, MagicWritten DEF MarkInv
  <2>5. Exempt' = {gc.dst} /\ Exempt = {gc.dst}
    BY <2>1 DEF Exempt, Saving, Collecting, Copying
  <2>6. ASSUME NEW b \in Blocks \ Exempt', Plain(flash'[b])
        PROVE  Complete(ram', flash', b)
    <3>1. flash'[b] = flash[b] /\ ram'.flags[b] = ram.flags[b]
      BY <2>3, <2>4, <2>5 DEF Entry
    <3>2. Complete(ram, flash, b)
      BY <2>1, <2>5, <2>6, <3>1 DEF IndexFacts, Usable
    <3> QED
      BY <3>1, <3>2, FlagsMember, StillComplete
  <2>7. Usable' /\ Scanned'
    BY <2>1, <2>6, UsableMoving DEF Marking
  <2>8. Counting'
    BY <2>1, <2>3 DEF Counting
  <2> QED
    BY <2>7, <2>8 DEF IndexFacts
<1>5. CASE IncompleteFresh
  <2>1. /\ pc = "incomplete" /\ pc' = "gc_dst" /\ ram' = ram /\ flash' = flash
        /\ gc'.from = "incomplete"
    BY <1>5 DEF IncompleteFresh
  <2>2. Usable' /\ Scanned'
    BY <1>a, <2>1, UsableMoving DEF Marking
  <2>3. Counting'
    BY <1>a, <2>1 DEF Counting
  <2> QED
    BY <2>2, <2>3 DEF IndexFacts
<1> QED
  BY <1>1, <1>2, <1>3, <1>4, <1>5

\* Outside the window, no block is marked between collections.
LEMMA AllPlain ==
    ASSUME MarkInv, ~cycles.window, pc \in Running
    PROVE  \A b \in Blocks : Plain(flash[b])
<1>1. GcSrcs = {} /\ GcDsts = {}
  BY DEF MarkInv, Marks, Good
<1> QED
  BY <1>1 DEF Plain, GcSrcs, GcDsts

\* While a call runs all blocks are known.
LEMMA RunningComplete ==
    ASSUME MarkInv, ~cycles.window, IndexFacts, pc \in Running \ {"overrun", "wild"}
    PROVE  \A b \in Blocks \ Exempt : Complete(ram, flash, b)
  BY AllPlain DEF IndexFacts, Usable

\* The start of a collection
LEMMA StartSteps ==
    ASSUME KvInv, KvInv', MarkInv, ~cycles.window, IndexFacts, LocateGc \/ SearchGc
    PROVE  IndexFacts'
<1>0. flash \in [Blocks -> Block]
  BY DEF KvInv
<1>1. PICK s : s = FirstBlk(Dirty(ram))
  OBVIOUS
<1>2. /\ pc \in {"locate", "search"} /\ pc' = "gc_dst" /\ ram' = ram /\ Dirty(ram) # {}
      /\ flash' = [flash EXCEPT ![s].src = TRUE]
      /\ gc'.from = IF pc = "locate" THEN "locate" ELSE "search"
  BY <1>1 DEF LocateGc, SearchGc, Rescue, NeedsGc, CanGc
<1>3. s \in Blocks
  BY <1>1, <1>2, FirstBlkIn DEF Dirty
<1>4. PICK y : /\ flash' = [flash EXCEPT ![s] = y] /\ y \in Block
               /\ y.magic = flash[s].magic /\ y.src = TRUE
  BY <1>0, <1>2, <1>3, MarkPut
<1>5. flash'[s] = y /\ \A c \in Blocks \ {s} : flash'[c] = flash[c]
  BY <1>0, <1>3, <1>4, Replaced
<1>6. ~Plain(flash'[s])
  BY <1>2, <1>3, <1>4, <1>5 DEF MarkInv, Formatted, Plain, IsGcSrc
<1>7. \A b \in Blocks : Complete(ram, flash, b)
  BY <1>2, RunningComplete DEF Running, Exempt, Saving, Collecting, Copying
<1>8. \A b \in Blocks \ Exempt' : Plain(flash'[b]) => Complete(ram', flash', b)
  BY <1>2, <1>5, <1>6, <1>7 DEF Complete
<1>9. gc'.from = "search" => ram'.workspace # Unset
  <2>1. ASSUME pc = "search" PROVE ram.workspace \in Blocks
    BY <2>1 DEF LocateGc, SearchGc, NeedsGc, Writeable
  <2> QED
    BY <1>2, <2>1, BlocksNat DEF Unset
<1>10. Usable' /\ Scanned'
  BY <1>2, <1>8, <1>9, UsableMoving DEF Marking
<1>11. gc'.from # "search" => Exact(ram')
  BY <1>2 DEF IndexFacts, Counting
<1>12. Counting'
  BY <1>2, <1>11 DEF Counting
<1> QED
  BY <1>10, <1>12 DEF IndexFacts

\* kv_mgr_workspace_locate finds a workspace when there is a block to write.
LEMMA LocateSteps ==
    ASSUME KvInv, KvInv', MarkInv, ~cycles.window, IndexFacts, Locate
    PROVE  IndexFacts'
<1>1. pc \in {"locate", "locate_ws"} /\ pc' = "idle" /\ ram' = Located(ram) /\ flash' = flash /\ gc' = gc
  BY DEF Locate
<1>2. RamOk(ram) /\ gc.from # "search" /\ Exact(ram)
  BY <1>1 DEF KvInv, Moving, Collecting, Copying, IndexFacts, Counting
<1>3. \A b \in Blocks : Complete(ram, flash, b)
  BY <1>1, RunningComplete DEF Running, Exempt, Saving, Collecting, Copying
<1>4. CASE KV_NO_WRITEABLE_BLK(ram)
  <2>1. ram' = ram
    BY <1>1, <1>4 DEF Located
  <2> QED
    BY <1>1, <1>2, <1>3, <1>4, <2>1, UsableRunning DEF Saving
<1>5. CASE ~KV_NO_WRITEABLE_BLK(ram)
  <2>1. PICK S : S = IF ram.numInuse = 0 THEN Fresh(ram) ELSE Inuse(ram)
    OBVIOUS
  <2>2. S # {} /\ S \subseteq Blocks
    <3>1. CASE ram.numInuse = 0
      <4>1. ram.numFresh # 0
        BY <1>5, <3>1 DEF KV_NO_WRITEABLE_BLK
      <4> QED
        BY <1>2, <2>1, <3>1, <4>1, NothingWriteable DEF Fresh
    <3>2. CASE ram.numInuse # 0
      <4>1. Cardinality(Inuse(ram)) # 0 /\ Cardinality({}) = 0
        BY <1>2, <3>2, FS_EmptySet DEF Exact
      <4> QED
        BY <2>1, <3>2, <4>1 DEF Inuse
    <3> QED
      BY <3>1, <3>2
  <2>3. PICK w \in Blocks : ram' = [ram EXCEPT !.workspace = w]
    BY <1>1, <1>5, <2>1, <2>2, FirstBlkIn DEF Located
  <2>4. ram'.workspace = w /\ Fresh(ram') = Fresh(ram) /\ Inuse(ram') = Inuse(ram)
    BY <1>2, <2>3, WorkspaceOnly
  <2>5. \A b \in Blocks : Complete(ram', flash', b)
    BY <1>1, <1>3, <2>4 DEF Complete
  <2>6. ram'.workspace # Unset
    BY <2>4, BlocksNat DEF Unset
  <2> QED
    BY <1>1, <1>2, <2>5, <2>6, UsableRunning DEF Saving
<1> QED
  BY <1>4, <1>5

\* A write to one block leaves the others alone.
LEMMA PutElsewhere ==
    ASSUME flash \in [Blocks -> Block], NEW b \in Blocks, NEW c \in Blocks, c # b
    PROVE  /\ \A s : PutHeader(b, s)[c] = flash[c]
           /\ \A st : PutStage(b, st)[c] = flash[c]
  BY DEF PutHeader, PutStage

\* A step of a collection that changes no block but the destination and counts nothing
LEMMA DstIndexed ==
    ASSUME KvInv, KvInv', IndexFacts, pc \in Marking, pc' \in Marking,
           gc'.dst = gc.dst, gc'.from = gc.from,
           \A c \in Blocks \ {gc.dst} : flash'[c] = flash[c],
           ram'.flags = ram.flags, ram'.numInuse = ram.numInuse, ram'.workspace = ram.workspace
    PROVE  IndexFacts'
<1>1. Exempt = {gc.dst} /\ Exempt' = {gc.dst}
  BY DEF Exempt, Marking, Saving, Collecting, Copying
<1>2. Fresh(ram') = Fresh(ram) /\ Inuse(ram') = Inuse(ram)
  BY DEF Fresh, Inuse
<1>3. ASSUME NEW b \in Blocks \ Exempt', Plain(flash'[b])
      PROVE  Complete(ram', flash', b)
  <2>1. flash'[b] = flash[b]
    BY <1>1
  <2>2. Complete(ram, flash, b)
    BY <1>1, <1>3, <2>1 DEF IndexFacts, Usable
  <2> QED
    BY <1>2, <2>1, <2>2 DEF Complete
<1>4. Usable' /\ Scanned'
  <2>1. gc'.from = "search" => ram'.workspace # Unset
    BY DEF IndexFacts, Usable
  <2> QED
    BY <1>3, <2>1, UsableMoving
<1>5. Counting'
  <2>1. pc \in Collecting /\ pc' \in Collecting /\ pc' \notin {"scan", "scan_magic", "incomplete", "inc_magic", "gc_magic"}
    BY DEF Marking, Collecting, Copying
  <2>2. gc'.from # "search" => Exact(ram')
    BY <1>2, <2>1 DEF IndexFacts, Counting, Exact
  <2>3. pc' \notin {"locate", "locate_ws"}
    BY DEF Marking, Copying
  <2> QED
    BY <2>1, <2>2, <2>3 DEF Counting
<1> QED
  BY <1>4, <1>5 DEF IndexFacts

\* The copies change the destination only.
LEMMA CopySteps ==
    ASSUME KvInv, KvInv', MarkInv, ~cycles.window, IndexFacts,
           GcMarkDst \/ GcCopyHeader \/ GcCopyMagic \/ GcCopyKey \/ GcCopyVal
    PROVE  IndexFacts'
<1>0. flash \in [Blocks -> Block] /\ gc \in Gc /\ gc.dst \in Blocks /\ ram \in Ram
  BY DEF KvInv, Gc, RamOk
<1>1. CASE GcMarkDst
  <2>1. /\ pc = "gc_dst" /\ pc' = "gc_copy" /\ gc' = gc /\ ram' = ram
        /\ flash' = [flash EXCEPT ![gc.dst].dst = TRUE]
    BY <1>1 DEF GcMarkDst
  <2>2. \A c \in Blocks \ {gc.dst} : flash'[c] = flash[c]
    BY <1>0, <2>1
  <2> QED
    BY <2>1, <2>2, DstIndexed DEF Marking
<1>2. CASE GcCopyHeader
  <2>1. /\ pc = "gc_copy" /\ pc' = "c_magic" /\ gc' = [gc EXCEPT !.i = NextToCopy] /\ ram' = ram
        /\ \E s : flash' = PutHeader(gc.dst, s)
    BY <1>2 DEF GcCopyHeader
  <2>2. gc'.dst = gc.dst /\ gc'.from = gc.from
    BY <1>0, <2>1 DEF Gc
  <2>3. \A c \in Blocks \ {gc.dst} : flash'[c] = flash[c]
    BY <1>0, <2>1, PutElsewhere
  <2> QED
    BY <2>1, <2>2, <2>3, DstIndexed DEF Marking, Copying
<1>3. CASE GcCopyMagic \/ GcCopyKey
  <2>1. /\ pc \in Copying /\ pc' \in Copying /\ gc' = gc /\ ram' = ram
        /\ \E st : flash' = PutStage(gc.dst, st)
    BY <1>3 DEF GcCopyMagic, GcCopyKey, Copying
  <2>2. \A c \in Blocks \ {gc.dst} : flash'[c] = flash[c]
    BY <1>0, <2>1, PutElsewhere
  <2> QED
    BY <2>1, <2>2, DstIndexed DEF Marking
<1>4. CASE GcCopyVal
  <2>1. /\ pc = "c_val" /\ pc' = "gc_copy" /\ gc' = [gc EXCEPT !.i = @ + 1]
        /\ ram' = kv_blk_freesz_reduce(ram, gc.dst, ItemSize(flash[gc.src].items[gc.i].val))
        /\ \E st : flash' = PutStage(gc.dst, st)
    BY <1>4 DEF GcCopyVal
  <2>2. gc'.dst = gc.dst /\ gc'.from = gc.from
    BY <1>0, <2>1 DEF Gc
  <2>3. \A c \in Blocks \ {gc.dst} : flash'[c] = flash[c]
    BY <1>0, <2>1, PutElsewhere
  <2>4. flash[gc.src].items[gc.i].val \in Vals
    BY <2>1, CopyFacts DEF Copying
  <2>5. ItemSize(flash[gc.src].items[gc.i].val) \in Int
    BY <2>4, Sizes
  <2>6. ram'.flags = ram.flags /\ ram'.numInuse = ram.numInuse /\ ram'.workspace = ram.workspace
    BY <1>0, <2>1, <2>5, Reduce DEF Entry
  <2> QED
    BY <2>1, <2>2, <2>3, <2>6, DstIndexed DEF Marking, Copying
<1> QED
  BY <1>1, <1>2, <1>3, <1>4

\* The erase of the source
LEMMA EraseSrcSteps ==
    ASSUME KvInv, KvInv', MarkInv, ~cycles.window, IndexFacts, GcEraseSrc
    PROVE  IndexFacts'
<1>0. /\ flash \in [Blocks -> Block] /\ gc \in Gc /\ gc.dst \in Blocks /\ gc.src \in Blocks /\ RamOk(ram)
  BY DEF KvInv, Gc
<1> PICK w : w = WalkAll(ram, flash, {gc.src})
  OBVIOUS
<1>1. /\ pc = "gc_copy" /\ pc' = "gc_magic" /\ gc' = gc /\ ram' = kv_blk_reset_inuse(w, gc.src)
      /\ flash' = [flash EXCEPT ![gc.src] = Erased]
  BY DEF GcEraseSrc
<1>2. \A c \in Blocks \ {gc.src} : flash'[c] = flash[c]
  BY <1>0, <1>1, ErasedRight, Replaced
<1>3. flash[gc.src].items # << >> /\ gc.src # gc.dst
  <2>1. GcSrcs = {gc.src}
    BY <1>1 DEF MarkInv, Marks, Good, Marking
  <2> QED
    BY <1>0, <1>1, <2>1, SourceHasItems DEF GcSrcs, IsGcSrc, KvInv, Moving, Collecting
<1>4. "fresh" \in ram.flags[gc.src] => flash[gc.src].items = << >>
  <2>1. Describes(ram, flash, gc.src)
    BY <1>0, <1>1, <1>3 DEF KvInv, Indexed, Exempt, Saving, Collecting, Copying
  <2> QED
    BY <1>0, <2>1, FlagsMember DEF Describes
<1>5. /\ RamOk(w) /\ w.workspace = ram.workspace
      /\ \A b \in Blocks \ {gc.src} : w.flags[b] = ram.flags[b]
  BY <1>0, <1>4, WalkAllRight
<1>6. Exact(ram) => Exact(w)
  BY <1>0, <1>3, <1>4, WalkExact
<1>7. /\ Entry(w, ram', gc.src) /\ ram'.flags[gc.src] = w.flags[gc.src] \ {"inuse"}
      /\ ram'.numInuse = IF "inuse" \in w.flags[gc.src] THEN w.numInuse - 1 ELSE w.numInuse
  <2>1. w \in Ram
    BY <1>5 DEF RamOk
  <2>2. PICK q : q = kv_blk_reset_inuse(w, gc.src)
    OBVIOUS
  <2>3. /\ Entry(w, q, gc.src) /\ q.flags[gc.src] = w.flags[gc.src] \ {"inuse"}
        /\ q.numInuse = IF "inuse" \in w.flags[gc.src] THEN w.numInuse - 1 ELSE w.numInuse
    BY <1>0, <2>1, <2>2, SetterFields
  <2> QED
    BY <1>1, <2>2, <2>3
<1>8. Exact(ram) => Exact(ram')
  <2>1. w \in Ram /\ w.numInuse \in Int
    BY <1>5 DEF RamOk, Ram
  <2>2. ram'.numInuse = w.numInuse + (IF "inuse" \in ram'.flags[gc.src] THEN 1 ELSE 0)
                                   - (IF "inuse" \in w.flags[gc.src] THEN 1 ELSE 0)
    BY <1>7, <2>1
  <2> QED
    BY <1>0, <1>6, <1>7, <2>1, <2>2, ExactEntry
<1>9. Exempt = {gc.dst} /\ Exempt' = {gc.src, gc.dst}
  BY <1>1 DEF Exempt, Saving, Collecting, Copying
<1>10. ASSUME NEW b \in Blocks \ Exempt', Plain(flash'[b])
       PROVE  Complete(ram', flash', b)
  <2>1. flash'[b] = flash[b] /\ ram'.flags[b] = ram.flags[b]
    BY <1>2, <1>5, <1>7, <1>9 DEF Entry
  <2>2. Complete(ram, flash, b)
    BY <1>1, <1>9, <1>10, <2>1 DEF IndexFacts, Usable, Marking
  <2> QED
    BY <2>1, <2>2, FlagsMember, StillComplete
<1>11. gc'.from = "search" => ram'.workspace # Unset
  BY <1>1, <1>5, <1>7 DEF IndexFacts, Usable, Entry
<1>12. Usable' /\ Scanned'
  BY <1>1, <1>10, <1>11, UsableMoving DEF Erasing
<1>13. gc'.src \notin Inuse(ram')
  BY <1>0, <1>1, <1>7, FlagsMember
<1>14. gc'.from # "search" => Exact(ram')
  BY <1>1, <1>8 DEF IndexFacts, Counting, Collecting
<1>15. Counting'
  BY <1>1, <1>13, <1>14 DEF Counting
<1> QED
  BY <1>12, <1>15 DEF IndexFacts

\* The source becomes fresh.
LEMMA MagicSrcSteps ==
    ASSUME KvInv, KvInv', MarkInv, ~cycles.window, IndexFacts, GcMagicSrc
    PROVE  IndexFacts'
<1>0. flash \in [Blocks -> Block] /\ gc \in Gc /\ gc.dst \in Blocks /\ gc.src \in Blocks /\ RamOk(ram)
  BY DEF KvInv, Gc
<1>1. /\ pc = "gc_magic" /\ pc' = "gc_done" /\ gc' = gc /\ ram' = kv_blk_set_fresh(ram, gc.src)
      /\ flash' = [flash EXCEPT ![gc.src].magic = TRUE]
  BY DEF GcMagicSrc
<1>2. \A c \in Blocks \ {gc.src} : flash'[c] = flash[c]
  BY <1>0, <1>1, MagicWritten DEF MarkInv
<1>3. "inuse" \notin ram.flags[gc.src]
  BY <1>0, <1>1, FlagsMember DEF IndexFacts, Counting
<1>4. /\ Entry(ram, ram', gc.src) /\ ram'.flags[gc.src] = {"fresh"} /\ (Exact(ram) => Exact(ram'))
  BY <1>0, <1>1, <1>3, SetFresh, FreshExact
<1>5. Exempt = {gc.src, gc.dst} /\ Exempt' = {gc.dst}
  BY <1>1 DEF Exempt, Saving, Collecting, Copying
<1>6. ASSUME NEW b \in Blocks \ Exempt', Plain(flash'[b])
      PROVE  Complete(ram', flash', b)
  <2>1. CASE b = gc.src
    BY <1>4, <2>1, FlagsMember DEF Complete
  <2>2. CASE b # gc.src
    <3>1. flash'[b] = flash[b] /\ ram'.flags[b] = ram.flags[b] /\ b \notin Exempt
      BY <1>2, <1>4, <1>5, <2>2 DEF Entry
    <3>2. Complete(ram, flash, b)
      BY <1>1, <1>6, <3>1 DEF IndexFacts, Usable, Erasing
    <3> QED
      BY <3>1, <3>2, FlagsMember, StillComplete
  <2> QED
    BY <2>1, <2>2
<1>7. gc'.from = "search" => ram'.workspace # Unset
  BY <1>1, <1>4 DEF IndexFacts, Usable, Entry
<1>8. Usable' /\ Scanned'
  BY <1>1, <1>6, <1>7, UsableMoving DEF Erasing
<1>9. gc'.from # "search" => Exact(ram')
  BY <1>1, <1>4 DEF IndexFacts, Counting, Collecting
<1>10. Counting'
  BY <1>1, <1>9 DEF Counting
<1> QED
  BY <1>8, <1>10 DEF IndexFacts

\* The destination becomes inuse, or is full.
LEMMA MarkDoneSteps ==
    ASSUME KvInv, KvInv', MarkInv, MarkInv', ~cycles.window, ~cycles'.window, IndexFacts, GcMarkDone
    PROVE  IndexFacts'
<1> PICK d, r, q : /\ d = gc.dst /\ r = kv_blk_reset_fresh(ram, d)
                   /\ q = IF kv_blk_is_full(r, d) THEN r ELSE kv_blk_set_inuse(r, d)
  OBVIOUS
<1>0. /\ flash \in [Blocks -> Block] /\ d \in Blocks /\ RamOk(ram) /\ ram \in Ram
  BY DEF KvInv, Gc, RamOk
<1>1. /\ pc = "gc_done" /\ gc' = NoGc /\ flash' = [flash EXCEPT ![d].done = TRUE]
      /\ ram' = IF gc.from = "search" THEN [q EXCEPT !.workspace = d] ELSE q
  BY DEF GcMarkDone
<1>2. /\ gc.from \in {"search", "locate", "incomplete"} /\ "fresh" \in ram.flags[d]
      /\ ram.free[d] = BlkFresh - WalkEnd(flash[d]) /\ ram.flags[d] = {"fresh"}
  BY <1>0, <1>1 DEF KvInv, Moving, Collecting, Copying, RamOk, FlagsRight
<1>3. pc' = IF gc.from = "search" THEN "search" ELSE IF gc.from = "locate" THEN "locate_ws" ELSE "locate"
  BY <1>2 DEF GcMarkDone
<1>a. \E y : /\ [flash EXCEPT ![d].done = TRUE] = [flash EXCEPT ![d] = y]
             /\ y \in Block /\ y.items = flash[d].items /\ y.magic = flash[d].magic
             /\ y.src = flash[d].src /\ y.dst = flash[d].dst /\ y.done = TRUE
  BY <1>0, MarkPut, ZenonT(40)
<1>4. PICK y : /\ flash' = [flash EXCEPT ![d] = y] /\ y \in Block /\ y.items = flash[d].items
  BY <1>1, <1>a, Zenon
<1>5. flash'[d] = y /\ \A c \in Blocks \ {d} : flash'[c] = flash[c]
  BY <1>0, <1>4, Replaced
<1>6. /\ Entry(ram, r, d) /\ r.flags[d] = {} /\ r.free = ram.free /\ r \in Ram
      /\ r.numInuse = ram.numInuse /\ RamOk(r)
  <2>1. /\ Entry(ram, r, d) /\ r.flags[d] = ram.flags[d] \ {"fresh"} /\ r.free = ram.free
        /\ r.numInuse = ram.numInuse
    BY <1>0, SetterFields
  <2>2. RamOk(r)
    BY <1>0, ResetFresh
  <2> QED
    BY <1>2, <2>1, <2>2 DEF Entry
<1>7. /\ RamOk(q) /\ Entry(ram, q, d) /\ (ram.free[d] > HdrSize => q.flags[d] = {"inuse"})
      /\ q.numInuse = ram.numInuse + (IF "inuse" \in q.flags[d] THEN 1 ELSE 0)
                                   - (IF "inuse" \in ram.flags[d] THEN 1 ELSE 0)
  <2>0. ram.free[d] \in Int /\ ram.numInuse \in Int
    BY <1>0 DEF Ram
  <2>1. CASE kv_blk_is_full(r, d)
    BY <1>2, <1>6, <2>0, <2>1, BlocksNat DEF kv_blk_is_full
  <2>2. CASE ~kv_blk_is_full(r, d)
    <3>1. r.free[d] > HdrSize
      BY <1>6, <2>0, <2>2, BlocksNat DEF kv_blk_is_full
    <3>2. /\ Entry(r, q, d) /\ q.flags[d] = {"inuse"} /\ q.numInuse = r.numInuse + 1 /\ RamOk(q)
      BY <1>0, <1>6, <2>2, <3>1, SetInuse, SetterFields
    <3> QED
      BY <1>2, <1>6, <2>0, <3>2 DEF Entry
  <2> QED
    BY <2>1, <2>2
<1>8. Exact(ram) => Exact(q)
  BY <1>0, <1>7, ExactEntry
<1>9. /\ Fresh(ram') = Fresh(q) /\ Inuse(ram') = Inuse(q)
      /\ gc.from = "search" => ram'.workspace = d
  BY <1>0, <1>1, <1>7, WorkspaceOnly
<1>10. \A b \in Blocks : Complete(q, flash', b)
  <2> TAKE b \in Blocks
  <2>1. CASE b = d
    <3>1. ASSUME flash'[d].items = << >> \/ WalkEnd(flash'[d]) + HdrSize < BlkFresh
          PROVE  ram.free[d] > HdrSize
      <4>1. flash[d].items = << >> => WalkEnd(flash[d]) = 0
        BY DEF WalkEnd
      <4>2. WalkEnd(flash'[d]) = WalkEnd(flash[d]) /\ flash'[d].items = flash[d].items
        BY <1>4, <1>5 DEF WalkEnd
      <4>3. WalkEnd(flash[d]) \in Nat
        BY <1>0, Sizes
      <4> QED
        BY <1>2, <3>1, <4>1, <4>2, <4>3, BlocksNat
    <3> QED
      BY <1>7, <2>1, <3>1, FlagsMember DEF Complete
  <2>2. CASE b # d
    <3>1. flash'[b] = flash[b] /\ q.flags[b] = ram.flags[b]
      BY <1>5, <1>7, <2>2 DEF Entry
    <3>2. Plain(flash[b])
      <4>1. Plain(flash'[b])
        <5>1. pc' \in Running
          BY <1>2, <1>3 DEF Running
        <5>2. GcSrcs' = {} /\ GcDsts' = {}
          BY <5>1 DEF MarkInv, Marks, Good
        <5> QED
          BY <5>2 DEF Plain, GcSrcs, GcDsts
      <4> QED
        BY <3>1, <4>1
    <3>3. Exempt = {d}
      BY <1>1 DEF Exempt, Saving, Collecting, Copying
    <3>4. Complete(ram, flash, b)
      BY <1>1, <2>2, <3>2, <3>3 DEF IndexFacts, Usable, Erasing
    <3> QED
      BY <3>1, <3>4, FlagsMember, StillComplete
  <2> QED
    BY <2>1, <2>2
<1>11. \A b \in Blocks : Complete(ram', flash', b)
  BY <1>9, <1>10 DEF Complete
<1>12. gc'.from # "search"
  BY <1>1, NoGcTyped
<1>13. CASE gc.from = "search"
  <2>1. pc' = "search" /\ ram'.workspace # Unset
    BY <1>0, <1>3, <1>9, <1>13, BlocksNat DEF Unset
  <2> QED
    BY <1>11, <1>12, <2>1, UsableRunning DEF Saving
<1>14. CASE gc.from # "search"
  <2>1. pc' \in {"locate", "locate_ws"} /\ ram' = q
    BY <1>1, <1>2, <1>3, <1>14
  <2>2. Exact(ram')
    BY <1>1, <1>8, <1>14, <2>1 DEF IndexFacts, Counting, Collecting
  <2>3. Usable' /\ Scanned'
    BY <1>11, <1>12, <2>1, UsableMoving
  <2>4. Counting'
    BY <2>1, <2>2 DEF Counting
  <2> QED
    BY <2>3, <2>4 DEF IndexFacts
<1> QED
  BY <1>13, <1>14

\* A lookup misses no block.
LEMMA SearchComplete ==
    ASSUME KvInv, MarkInv, ~cycles.window, IndexFacts, pc \in {"idle", "search"}, NEW m,
           (\E k : m = KeyMatch(flash, k)) \/ (\E s : m = CopyMatch(flash, s))
    PROVE  LET q == FindRam(ram, flash, m)
           IN  /\ \A b \in Blocks : Complete(q, flash, b)
               /\ KV_NO_WRITEABLE_BLK(ram) => KV_NO_WRITEABLE_BLK(q)
               /\ q.workspace = ram.workspace /\ RamOk(q)
<1>1. RamOk(ram) /\ flash \in [Blocks -> Block]
  BY DEF KvInv
<1>2. \A b \in Blocks : Describes(ram, flash, b)
  BY Described DEF Calm
<1>3. \A b \in Blocks : Complete(ram, flash, b)
  BY RunningComplete DEF Running, Exempt, Saving, Collecting, Copying
<1>4. m \in [Blocks -> SUBSET Nat] /\ \A b \in Blocks : m[b] \subseteq DOMAIN flash[b].items
  BY <1>1, Matches
<1> QED
  BY <1>1, <1>2, <1>3, <1>4, FindComplete, FindRamRight

\* Nor does kv_item_fix.
LEMMA FixedComplete ==
    ASSUME KvInv, MarkInv, ~cycles.window, IndexFacts, pc = "search"
    PROVE  \A b \in Blocks : Complete(FixedRam, flash, b)
<1>1. CASE Moved(flash, op)
  BY <1>1, SearchComplete DEF FixedRam
<1>2. CASE ~Moved(flash, op)
  BY <1>2, RunningComplete DEF FixedRam, Running, Exempt, Saving, Collecting, Copying
<1> QED
  BY <1>1, <1>2

\* The workspace that kv_blk_search_suitable leaves
LEMMA SuitableWs ==
    ASSUME NEW r, NEW size
    PROVE  LET c == Suitable(r, size)
           IN  /\ c.blk # Invalid => c.ws = c.blk
               /\ c.blk = Invalid => c.ws = Invalid \/ c.ws = r.workspace
  BY DEF Suitable

\* The tail of kv_item_save keeps a block with room inuse.
LEMMA SavedInuse ==
    ASSUME NEW r, RamOk(r), NEW b \in Blocks, NEW size \in Nat, b \in Fresh(r) \cup Inuse(r),
           r.free[b] - size > HdrSize
    PROVE  b \in Inuse(SavedRam(r, b, size))
<1> PICK q : q = kv_blk_freesz_reduce(r, b, size)
  OBVIOUS
<1>1. r \in Ram /\ size \in Int
  BY DEF RamOk
<1>2. /\ Entry(r, q, b) /\ q.flags = r.flags /\ q.free[b] = r.free[b] - size
      /\ Fresh(q) = Fresh(r) /\ Inuse(q) = Inuse(r) /\ q \in Ram
  BY <1>1, Reduce DEF Entry
<1>3. ~kv_blk_is_full(q, b) /\ \A n : n.free = q.free => ~kv_blk_is_full(n, b)
  <2>1. r.free[b] \in Int
    BY <1>1 DEF Ram
  <2> QED
    BY <1>1, <1>2, <2>1, BlocksNat DEF kv_blk_is_full
<1>4. CASE b \in Fresh(q)
  <2> PICK n : n = kv_blk_reset_fresh(q, b)
    OBVIOUS
  <2>1. n.free = q.free /\ n \in Ram
    BY <1>2, SetterFields DEF Entry
  <2>2. SavedRam(r, b, size) = kv_blk_set_inuse(n, b)
    BY <1>3, <1>4, <2>1 DEF SavedRam
  <2>3. "inuse" \in kv_blk_set_inuse(n, b).flags[b]
    BY <2>1, SetterFields
  <2> QED
    BY <2>2, <2>3, FlagsMember
<1>5. CASE b \notin Fresh(q)
  <2>1. SavedRam(r, b, size) = q
    BY <1>3, <1>5 DEF SavedRam
  <2> QED
    BY <1>2, <1>5, <2>1
<1> QED
  BY <1>4, <1>5

\* Lookups, deletion and the start of a set
LEMMA CallSteps ==
    ASSUME KvInv, KvInv', MarkInv, ~cycles.window, IndexFacts, NEW k \in Keys,
           ln_kv_get(k) \/ ln_kv_del(k) \/ \E v \in Vals : ln_kv_set(k, v)
    PROVE  IndexFacts'
<1> PICK m, q, at : m = KeyMatch(flash, k) /\ q = FindRam(ram, flash, m) /\ at = FindItem(ram, m)
  OBVIOUS
<1>0. pc = "idle" /\ gc' = gc /\ flash \in [Blocks -> Block]
  BY DEF ln_kv_get, ln_kv_del, ln_kv_set, KvInv
<1>1. /\ \A b \in Blocks : Complete(q, flash, b)
      /\ KV_NO_WRITEABLE_BLK(ram) => KV_NO_WRITEABLE_BLK(q)
      /\ q.workspace = ram.workspace /\ RamOk(q)
  BY <1>0, SearchComplete
<1>2. ram.workspace # Unset \/ KV_NO_WRITEABLE_BLK(ram)
  BY <1>0 DEF IndexFacts, Usable
<1>3. gc'.from # "search"
  BY <1>0, Described DEF Calm
<1>4. CASE ram' = q /\ flash' = flash /\ pc' \in {"idle", "search"}
  BY <1>1, <1>2, <1>3, <1>4, UsableRunning DEF Saving
<1>5. CASE ln_kv_del(k) /\ at # NoItem
  <2>1. Drops(flash, flash', at[1], at[2]) /\ ram' = kv_blk_set_dirty(q, at[1]) /\ pc' = "idle"
    BY <1>0, <1>5, DelDrops DEF ln_kv_del
  <2>2. at[1] \in Blocks
    BY <2>1 DEF Drops
  <2>3. /\ Inuse(ram') = Inuse(q) /\ Fresh(ram') = Fresh(q) /\ ram'.numInuse = q.numInuse
        /\ ram'.numFresh = q.numFresh /\ ram'.workspace = q.workspace
    BY <1>1, <2>1, <2>2, DirtyExact
  <2>4. \A c \in Blocks : /\ WalkEnd(flash'[c]) = WalkEnd(flash[c])
                          /\ (flash'[c].items = << >> <=> flash[c].items = << >>)
    BY <1>0, <2>1, DropsRoom
  <2>5. \A c \in Blocks : Complete(ram', flash', c)
    BY <1>1, <2>3, <2>4 DEF Complete
  <2>6. ram'.workspace # Unset \/ KV_NO_WRITEABLE_BLK(ram')
    BY <1>1, <1>2, <2>3 DEF KV_NO_WRITEABLE_BLK
  <2> QED
    BY <1>3, <2>1, <2>5, <2>6, UsableRunning DEF Saving
<1>6. CASE ln_kv_del(k) /\ at = NoItem
  BY <1>0, <1>4, <1>6 DEF ln_kv_del
<1>7. CASE ln_kv_get(k) \/ \E v \in Vals : ln_kv_set(k, v)
  BY <1>0, <1>4, <1>7 DEF ln_kv_get, ln_kv_set
<1> QED
  BY <1>5, <1>6, <1>7

\* The search for a block
LEMMA SearchSteps ==
    ASSUME KvInv, KvInv', MarkInv, ~cycles.window, IndexFacts, SearchWild \/ SaveFails \/ SaveHeader
    PROVE  IndexFacts'
<1> PICK c : c = Suitable(ram, ItemSize(op.val))
  OBVIOUS
<1>0. /\ pc = "search" /\ gc' = gc /\ flash \in [Blocks -> Block] /\ op \in Op /\ op.val \in Vals /\ RamOk(ram)
      /\ ram \in Ram /\ ItemSize(op.val) \in Nat /\ ItemSize(op.val) > HdrSize
  BY Sizes DEF SearchWild, SaveFails, SaveHeader, KvInv, Setting, Op, RamOk
<1>1. ram.workspace # Unset \/ KV_NO_WRITEABLE_BLK(ram)
  BY <1>0 DEF IndexFacts, Usable
<1>2. gc'.from # "search" /\ \A b \in Blocks : Describes(ram, flash, b)
  BY <1>0, Described DEF Calm
<1>3. /\ \A b \in Blocks : Complete(ram, flash, b)
      /\ \A b \in Blocks : Complete(FixedRam, flash, b)
  BY <1>0, RunningComplete, FixedComplete DEF Running, Exempt, Saving, Collecting, Copying
<1>4. RamOk(FixedRam)
  BY <1>0, Fixed
<1>5. /\ c.ws \in Blocks \cup {Invalid, Unset}
      /\ c.blk # Invalid => /\ c.blk \in Blocks /\ c.ws = c.blk
                            /\ c.blk \in Fresh(ram) \/ ram.free[c.blk] >= ItemSize(op.val)
      /\ c.blk = Invalid => c.ws = Invalid \/ c.ws = ram.workspace
  BY <1>0, SuitableRight, SuitableWs
<1>6. Invalid # Unset /\ \A b \in Blocks : b # Unset
  BY BlocksNat DEF Invalid, Unset
<1>7. CASE SearchWild
  BY <1>1, <1>7 DEF SearchWild
<1>8. CASE SaveFails
  <2>1. /\ pc' = "idle" /\ flash' = flash
        /\ ram' = IF c.blk = Invalid THEN [ram EXCEPT !.workspace = c.ws]
                  ELSE [FixedRam EXCEPT !.workspace = c.ws]
    BY <1>8 DEF SaveFails
  <2>2. CASE c.blk = Invalid
    <3>1. Fresh(ram') = Fresh(ram) /\ Inuse(ram') = Inuse(ram) /\ ram'.workspace = c.ws
      BY <1>0, <1>5, <2>1, <2>2, WorkspaceOnly
    <3>2. ram'.numFresh = ram.numFresh /\ ram'.numInuse = ram.numInuse
      BY <1>0, <2>1, <2>2 DEF Ram
    <3>3. ram'.workspace # Unset \/ KV_NO_WRITEABLE_BLK(ram')
      BY <1>1, <1>5, <1>6, <2>2, <3>1, <3>2 DEF KV_NO_WRITEABLE_BLK
    <3>4. \A b \in Blocks : Complete(ram', flash', b)
      BY <1>3, <2>1, <3>1 DEF Complete
    <3> QED
      BY <1>2, <2>1, <3>3, <3>4, UsableRunning DEF Saving
  <2>3. CASE c.blk # Invalid
    <3>1. Fresh(ram') = Fresh(FixedRam) /\ Inuse(ram') = Inuse(FixedRam) /\ ram'.workspace = c.ws
      BY <1>4, <1>5, <2>1, <2>3, WorkspaceOnly
    <3>3. ram'.workspace # Unset
      BY <1>5, <1>6, <2>3, <3>1
    <3>4. \A b \in Blocks : Complete(ram', flash', b)
      BY <1>3, <2>1, <3>1 DEF Complete
    <3> QED
      BY <1>2, <2>1, <3>3, <3>4, UsableRunning DEF Saving
  <2> QED
    BY <2>2, <2>3
<1>9. CASE SaveHeader
  <2>1. /\ c.blk # Invalid /\ ram' = [FixedRam EXCEPT !.workspace = c.ws]
        /\ op' = [op EXCEPT !.blk = c.blk, !.prev = FixedPos]
        /\ \/ pc' = "s_magic" /\ \E s : flash' = PutHeader(c.blk, s)
           \/ pc' = "overrun"
    BY <1>9 DEF SaveHeader
  <2>2. Fresh(ram') = Fresh(FixedRam) /\ Inuse(ram') = Inuse(FixedRam) /\ ram'.workspace = c.ws
    BY <1>4, <1>5, <2>1, WorkspaceOnly
  <2>3. CASE pc' = "overrun"
    BY <1>2, <2>3 DEF IndexFacts, Usable, Scanned, Counting, Saving, Collecting, Copying, Marking, Erasing
  <2>4. CASE pc' = "s_magic" /\ \E s : flash' = PutHeader(c.blk, s)
    <3>1. op'.blk = c.blk
      BY <1>0, <2>1 DEF Op
    <3>2. Exempt' = {c.blk} /\ pc' \in Saving
      BY <2>4, <3>1 DEF Exempt, Saving
    <3>3. \A b \in Blocks \ {c.blk} : flash'[b] = flash[b]
      BY <1>0, <1>5, <2>1, <2>4, PutElsewhere
    <3>4. \A b \in Blocks \ Exempt' : Complete(ram', flash', b)
      BY <1>3, <2>2, <3>2, <3>3 DEF Complete
    <3>5. c.blk \in Fresh(FixedRam) \cup Inuse(FixedRam)
      <4>1. CASE c.blk \in Fresh(ram)
        BY <1>2, <1>3, <1>5, <2>1, <4>1 DEF Describes, Complete
      <4>2. CASE ram.free[c.blk] >= ItemSize(op.val)
        <5>1. ram.free[c.blk] \in Int /\ c.blk \in Blocks
          BY <1>0, <1>5, <2>1 DEF Ram
        <5>2. ram.free[c.blk] > HdrSize
          BY <1>0, <4>2, <5>1, BlocksNat
        <5>3. ram.free[c.blk] = BlkFresh - WalkEnd(flash[c.blk]) /\ WalkEnd(flash[c.blk]) \in Nat
          BY <1>0, <1>2, <5>1, <5>2, Sizes DEF Describes
        <5>4. WalkEnd(flash[c.blk]) + HdrSize < BlkFresh
          BY <5>2, <5>3, BlocksNat
        <5> QED
          BY <1>3, <5>1, <5>4 DEF Complete
      <4> QED
        BY <1>5, <2>1, <4>1, <4>2
    <3>6. ram'.workspace # Unset
      BY <1>5, <1>6, <2>1, <2>2
    <3> QED
      BY <1>2, <2>2, <2>4, <3>1, <3>2, <3>4, <3>5, <3>6, UsableRunning
  <2> QED
    BY <2>1, <2>3, <2>4
<1> QED
  BY <1>7, <1>8, <1>9

\* The writes of an item and the deletion of the old one
LEMMA SaveSteps ==
    ASSUME KvInv, KvInv', MarkInv, ~cycles.window, IndexFacts, SaveMagic \/ SaveKey \/ SaveVal \/ DeleteOld
    PROVE  IndexFacts'
<1>0. /\ pc \in Saving \cup {"del_old"} /\ gc' = gc /\ flash \in [Blocks -> Block] /\ RamOk(ram) /\ op \in Op
      /\ op.blk \in Blocks /\ op.val \in Vals
  BY DEF SaveMagic, SaveKey, SaveVal, DeleteOld, KvInv, Setting, Op, Saving
<1>1. gc'.from # "search" /\ ram.workspace # Unset
  BY <1>0 DEF KvInv, Moving, Collecting, Copying, Saving, IndexFacts, Usable
<1>2. \A b \in Blocks \ Exempt : Complete(ram, flash, b)
  BY <1>0, RunningComplete DEF Running, Saving
<1>3. CASE SaveMagic \/ SaveKey
  <2>1. pc \in Saving /\ pc' \in Saving /\ ram' = ram /\ op' = op /\ \E st : flash' = PutStage(op.blk, st)
    BY <1>3 DEF SaveMagic, SaveKey, Saving
  <2>2. Exempt = {op.blk} /\ Exempt' = {op.blk}
    BY <2>1 DEF Exempt
  <2>3. \A b \in Blocks \ {op.blk} : flash'[b] = flash[b]
    BY <1>0, <2>1, PutElsewhere
  <2>4. \A b \in Blocks \ Exempt' : Complete(ram', flash', b)
    BY <1>2, <2>1, <2>2, <2>3 DEF Complete
  <2>5. op'.blk \in Fresh(ram') \cup Inuse(ram')
    BY <2>1 DEF IndexFacts, Usable
  <2>6. pc' \notin {"idle", "search"}
    BY <2>1 DEF Saving
  <2> QED
    BY <1>1, <2>1, <2>4, <2>5, <2>6, UsableRunning
<1>4. CASE SaveVal
  <2>1. /\ pc \in Saving /\ pc' \in {"idle", "del_old"} /\ flash' = PutStage(op.blk, "full")
        /\ ram' = SavedRam(ram, op.blk, ItemSize(op.val))
    BY <1>4 DEF SaveVal, Saving
  <2>2. Exempt = {op.blk} /\ pc' \notin Saving
    BY <2>1 DEF Exempt, Saving
  <2>3. ItemSize(op.val) \in Nat
    BY <1>0, Sizes
  <2>4. /\ Entry(ram, ram', op.blk) /\ ram'.free[op.blk] = ram.free[op.blk] - ItemSize(op.val)
    BY <1>0, <2>1, <2>3, SavedRamRight
  <2>5. "full" \in Stages \ {"hdr"}
    BY DEF Stages
  <2>6. PICK y \in Block : /\ flash'[op.blk] = y /\ y.items # << >>
                           /\ \A b \in Blocks \ {op.blk} : flash'[b] = flash[b]
                           /\ WalkEnd(y) = (BlkFresh - ram.free[op.blk]) + ItemSize(op.val)
    <3>1. \E y \in Block :
                   /\ y.items # << >> /\ flash'[op.blk] = y
                   /\ \A b \in Blocks \ {op.blk} : flash'[b] = flash[b]
                   /\ LastItem(y).off = BlkFresh - ram.free[op.blk]
                   /\ WalkEnd(y) = LastItem(y).off + ItemSize(op.val)
      BY <2>1, <2>5, SaveStage
    <3> QED
      BY <3>1
  <2>7. op.blk \in Fresh(ram) \cup Inuse(ram)
    BY <2>1 DEF IndexFacts, Usable
  <2>8. Complete(ram', flash', op.blk)
    <3>1. ASSUME WalkEnd(y) + HdrSize < BlkFresh PROVE op.blk \in Inuse(ram')
      <4>1. ram.free[op.blk] \in Int
        BY <1>0 DEF RamOk, Ram
      <4>2. ram.free[op.blk] - ItemSize(op.val) > HdrSize
        BY <2>3, <2>6, <3>1, <4>1, BlocksNat
      <4> QED
        BY <1>0, <2>1, <2>3, <2>7, <4>2, SavedInuse
    <3> QED
      BY <2>6, <3>1 DEF Complete
  <2>9. ASSUME NEW b \in Blocks, b # op.blk PROVE Complete(ram', flash', b)
    <3>1. flash'[b] = flash[b] /\ ram'.flags[b] = ram.flags[b] /\ Complete(ram, flash, b)
      BY <1>2, <2>2, <2>4, <2>6, <2>9 DEF Entry
    <3> QED
      BY <3>1, FlagsMember, StillComplete
  <2>10. ram'.workspace # Unset
    BY <1>1, <2>4 DEF Entry
  <2> QED
    BY <1>1, <2>1, <2>2, <2>8, <2>9, <2>10, UsableRunning
<1>5. CASE DeleteOld
  <2>1. pc = "del_old" /\ pc' = "idle" /\ ram' = kv_blk_set_dirty(ram, op.prev[1])
    BY <1>5 DEF DeleteOld
  <2>2. PICK d, y : /\ d = op.prev[1] /\ d \in Blocks /\ flash' = [flash EXCEPT ![d] = y]
                    /\ Discarded(flash[d], y)
    BY <1>5, DeletePut
  <2>3. Alike(flash[d], y) /\ y \in Block
    BY <1>0, <2>2, DiscardedAlike DEF Discarded, WithItems
  <2>4. flash'[d] = y /\ \A b \in Blocks \ {d} : flash'[b] = flash[b]
    BY <1>0, <2>2, <2>3, Replaced
  <2>5. \A b \in Blocks : /\ WalkEnd(flash'[b]) = WalkEnd(flash[b])
                          /\ (flash'[b].items = << >> <=> flash[b].items = << >>)
    BY <2>2, <2>3, <2>4, AlikeSame
  <2>6. Inuse(ram') = Inuse(ram) /\ Fresh(ram') = Fresh(ram) /\ ram'.workspace = ram.workspace
    BY <1>0, <2>1, <2>2, DirtyExact
  <2>7. Exempt = {} /\ pc' \notin Saving
    BY <2>1 DEF Exempt, Saving, Collecting, Copying
  <2>8. \A b \in Blocks : Complete(ram', flash', b)
    BY <1>2, <2>5, <2>6, <2>7 DEF Complete
  <2> QED
    BY <1>1, <2>1, <2>6, <2>7, <2>8, UsableRunning
<1> QED
  BY <1>3, <1>4, <1>5

\* The index facts are inductive outside the window.
LEMMA IndexNext ==
    ASSUME KvInv, KvInv', MarkInv, MarkInv', IndexInv, [Next]_vars
    PROVE  IndexInv'
<1>1. CASE PowerFail
  <2>1. pc' = "off" /\ gc'.from # "search"
    BY <1>1, NoGcTyped DEF PowerFail
  <2>2. Usable'
    BY <2>1, UsableBooting DEF Booting
  <2> QED
    BY <2>1, <2>2 DEF IndexInv, IndexFacts, Scanned, Counting, Collecting, Copying
<1>2. CASE UNCHANGED vars
  BY <1>2 DEF vars, IndexInv, IndexFacts, Scanned, Counting, Usable, Exempt
<1>3. CASE Boot \/ Collect \/ Save \/ Call
  <2>1. UNCHANGED cycles
    BY <1>3 DEF Boot, Collect, Save, Call, ln_kv_init, ScanErase, ScanMagic, ScanMarked, ScanRecover,
                ScanIndex, ScanDone, IncompleteFails, IncompleteNone, IncompleteErase, IncompleteMagic,
                IncompleteFresh, LocateGc, Locate, GcMarkDst, GcCopyHeader, GcCopyMagic, GcCopyKey,
                GcCopyVal, GcEraseSrc, GcMagicSrc, GcMarkDone, SearchWild, SearchGc, SaveFails,
                SaveHeader, SaveMagic, SaveKey, SaveVal, DeleteOld, ln_kv_get, ln_kv_del, ln_kv_set
  <2>2. SUFFICES ASSUME ~cycles.window, ~cycles'.window PROVE IndexFacts'
    BY <2>1, <2>2 DEF IndexInv
  <2>3. IndexFacts
    BY <2>2 DEF IndexInv
  <2>4. CASE Boot
    BY <2>2, <2>3, <2>4, ScanSteps, IncompleteSteps, StartSteps, LocateSteps DEF Boot
  <2>5. CASE Collect
    BY <2>2, <2>3, <2>5, CopySteps, EraseSrcSteps, MagicSrcSteps, MarkDoneSteps DEF Collect
  <2>6. CASE Save
    BY <2>2, <2>3, <2>6, SearchSteps, StartSteps, SaveSteps DEF Save
  <2>7. CASE Call
    BY <2>2, <2>3, <2>7, CallSteps DEF Call
  <2> QED
    BY <1>3, <2>4, <2>5, <2>6, <2>7
<1> QED
  BY <1>1, <1>2, <1>3 DEF Next

\* Nothing is known before the first boot.
LEMMA IndexInit == Init => IndexInv
<1> SUFFICES ASSUME Init PROVE IndexInv
  OBVIOUS
<1>1. pc = "off" /\ gc.from # "search"
  BY NoGcTyped DEF Init
<1> QED
  BY <1>1 DEF IndexInv, IndexFacts, Scanned, Counting, Usable, Collecting, Copying, Saving, Running,
              Marking, Erasing

\* However often power failed, kv_blk_search_suitable never runs with the workspace that
\* memset left (an index table entry out of bounds) as long as no power failure came between
\* the erase of a gc source and gc_done: kv_mgr_workspace_locate found a block, or no block
\* is writeable and the search says so.
THEOREM KvWorkspace == Spec => []WorkspaceKnown
<1>1. Init => KvInv /\ MarkInv /\ IndexInv
  BY KvInit, MarkInit, IndexInit
<1>2. KvInv /\ MarkInv /\ IndexInv /\ [Next]_vars => KvInv' /\ MarkInv' /\ IndexInv'
  BY MarkNext, IndexNext
<1>3. IndexInv => WorkspaceKnown
  BY DEF IndexInv, IndexFacts, Usable, WorkspaceKnown
<1> QED
  BY <1>1, <1>2, <1>3, PTL DEF Spec
=============================================================================
