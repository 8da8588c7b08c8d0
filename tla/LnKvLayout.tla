----------------------------- MODULE LnKvLayout -----------------------------
(***************************************************************************)
(* What the KV store of components/fs/kv keeps on flash and in RAM, and    *)
(* the helpers of ln_kv.h and ln_kv.c that only read or update those       *)
(* records.  A block is one flash sector: four header words that are       *)
(* written at most once between erases, then items in address order.       *)
(*                                                                         *)
(* Sizes count abstract units.  Offsets are relative to the first item of  *)
(* the block (KV_BLK_FIRST_ITEM), so a blank block has BlkFresh usable     *)
(* units (KV_BLK_FRESH_SIZE).  Keys have one length, which is part of      *)
(* BodySize; the size of a value is what tells items apart.                *)
(*                                                                         *)
(* Values are not empty.  ln_kv_set accepts an empty one, and writes an    *)
(* item that kv_item_hdr_verify refuses and whose header the next walk     *)
(* discards and steps over; that case is not modelled.                     *)
(***************************************************************************)
EXTENDS Integers, Sequences, FiniteSets

CONSTANTS Keys, Vals,
          NumBlk,       \* number of sectors of the KV partition
          BlkFresh,     \* KV_BLK_FRESH_SIZE
          HdrSize,      \* KV_ITEM_HDR_SIZE
          BodySize      \* [Vals -> size of key and value]

ASSUME KvSizes == /\ NumBlk \in Nat \ {0}
                  /\ HdrSize \in Nat \ {0}
                  /\ BlkFresh \in Nat
                  /\ HdrSize < BlkFresh
                  /\ BodySize \in [Vals -> Nat \ {0}]

Blocks  == 0 .. NumBlk - 1
Invalid == NumBlk            \* KV_BLK_INVALID
Unset   == -1                \* the workspace after memset(&kv_ctl, 0)

(***************************************************************************)
(* The stages a power loss can leave an item in: only the fields after the *)
(* magic word, the whole header, the header and the key, everything.       *)
(***************************************************************************)
Stages == {"hdr", "magic", "key", "full"}
Flags  == {"fresh", "inuse", "dirty"}

\* A flash address <<block, offset>>; prev_pos = 0 is an address of no block.
Pos   == (Blocks \X Nat) \cup {<<NumBlk, 0>>}
NoPos == <<NumBlk, 0>>

Slot == [off : Nat, st : Stages, key : Keys, val : Vals, prev : Pos,
         disc : BOOLEAN]
Block == [magic : BOOLEAN, src : BOOLEAN, dst : BOOLEAN, done : BOOLEAN,
          items : Seq(Slot)]
Ram == [flags : [Blocks -> SUBSET Flags], free : [Blocks -> Int],
        numFresh : Int, numInuse : Int, workspace : Blocks \cup {Invalid, Unset}]

Erased == [magic |-> FALSE, src |-> FALSE, dst |-> FALSE, done |-> FALSE,
           items |-> << >>]
ZeroRam == [flags |-> [b \in Blocks |-> {}], free |-> [b \in Blocks |-> 0],
            numFresh |-> 0, numInuse |-> 0, workspace |-> Unset]

ItemSize(v) == HdrSize + BodySize[v]

-----------------------------------------------------------------------------
(* Items                                                                   *)

\* KV_ITEM_IS_LEGAL, KV_ITEM_IS_DISCARDED and kv_item_body_verify.  The test
\* of the lengths in kv_item_hdr_verify passes: keys and values are not empty.
Legal(s)  == s.st # "hdr"
Live(s)   == Legal(s) /\ ~s.disc
Intact(s) == s.st = "full"

\* How far the walk advances over a slot: a header without its magic word
\* is skipped by the header size alone, as that of an empty value would be.
Extent(s) == IF Legal(s) THEN ItemSize(s.val) ELSE HdrSize

\* Where the walk of a block ends: the first blank address behind its items.
WalkEnd(blk) == IF blk.items = << >> THEN 0
                ELSE LET s == blk.items[Len(blk.items)] IN s.off + Extent(s)

\* The slots of a block whose header is at offset o; empty when the bytes at
\* o are blank or are the inside of an item.
SlotsAt(f, p) == {i \in DOMAIN f[p[1]].items : f[p[1]].items[i].off = p[2]}

MarkDiscarded(f, b, i) == [f EXCEPT ![b].items[i].disc = TRUE]

-----------------------------------------------------------------------------
(* The block index in RAM                                                  *)

kv_blk_set_fresh(r, b) ==
    [r EXCEPT !.numFresh = IF "fresh" \in r.flags[b] THEN @ ELSE @ + 1,
              !.free[b]  = BlkFresh,
              !.flags[b] = {"fresh"}]

kv_blk_set_inuse(r, b) ==
    [r EXCEPT !.numInuse = IF "inuse" \in r.flags[b] THEN @ ELSE @ + 1,
              !.flags[b] = @ \cup {"inuse"}]

kv_blk_set_dirty(r, b) == [r EXCEPT !.flags[b] = @ \cup {"dirty"}]

kv_blk_reset_fresh(r, b) ==
    [r EXCEPT !.numFresh = IF "fresh" \in r.flags[b] THEN @ - 1 ELSE @,
              !.flags[b] = @ \ {"fresh"}]

kv_blk_reset_inuse(r, b) ==
    [r EXCEPT !.numInuse = IF "inuse" \in r.flags[b] THEN @ - 1 ELSE @,
              !.flags[b] = @ \ {"inuse"}]

kv_blk_freesz_reduce(r, b, size) == [r EXCEPT !.free[b] = @ - size]

kv_blk_is_full(r, b) == r.free[b] <= HdrSize

Fresh(r) == {b \in Blocks : "fresh" \in r.flags[b]}
Inuse(r) == {b \in Blocks : "inuse" \in r.flags[b]}
Dirty(r) == {b \in Blocks : "dirty" \in r.flags[b]}

KV_NO_WRITEABLE_BLK(r) == r.numInuse = 0 /\ r.numFresh = 0

FirstBlk(S) == IF S = {} THEN Invalid ELSE CHOOSE b \in S : \A c \in S : b <= c

\* KV_BLK_FOR_EACH_FROM: the ring of blocks behind "start", without "start".
NextBlk(S, start) ==
    LET T == S \ {start}
        dist(b) == (b - start) % NumBlk
    IN  IF T = {} THEN Invalid
        ELSE CHOOSE b \in T : \A c \in T : dist(b) <= dist(c)

-----------------------------------------------------------------------------
(* kv_item_walkthru: what a walk does to the index.  The walk of a block   *)
(* that is stopped by its walker only sets the dirty flag; one that        *)
(* reaches the end also refreshes the block's entry.                       *)

DirtUpTo(blk, n) == \E i \in 1 .. n : ~Live(blk.items[i])

WalkFlags(r, f, b) ==
    LET seen == IF DirtUpTo(f[b], Len(f[b].items))
                THEN r.flags[b] \cup {"dirty"} ELSE r.flags[b]
    IN  IF f[b].items = << >> THEN {"fresh"}
        ELSE IF WalkEnd(f[b]) + HdrSize < BlkFresh THEN seen \cup {"inuse"}
        ELSE seen \ {"inuse"}

WalkFree(f, b) ==
    IF f[b].items = << >> THEN BlkFresh
    ELSE IF WalkEnd(f[b]) + HdrSize < BlkFresh THEN BlkFresh - WalkEnd(f[b])
    ELSE 0

\* The walks of all blocks of W to their ends.  kv_blk_set_fresh overwrites
\* the flags without a look at the inuse flag and its counter.
WalkAll(r, f, W) ==
    LET gains == {b \in W : /\ f[b].items = << >>
                            /\ "fresh" \notin r.flags[b]}
        starts == {b \in W : /\ f[b].items # << >>
                             /\ "inuse" \notin r.flags[b]
                             /\ "inuse" \in WalkFlags(r, f, b)}
        stops == {b \in W : /\ f[b].items # << >>
                            /\ "inuse" \in r.flags[b]
                            /\ "inuse" \notin WalkFlags(r, f, b)}
    IN  [flags |-> [b \in Blocks |-> IF b \in W THEN WalkFlags(r, f, b)
                                     ELSE r.flags[b]],
         free  |-> [b \in Blocks |-> IF b \in W THEN WalkFree(f, b)
                                     ELSE r.free[b]],
         numFresh  |-> r.numFresh + Cardinality(gains),
         numInuse  |-> r.numInuse + Cardinality(starts) - Cardinality(stops),
         workspace |-> r.workspace]

(***************************************************************************)
(* kv_item_find and kv_item_find_new_copy: the blocks are walked in        *)
(* address order, fresh ones skipped, until the walker accepts an item.    *)
(* match[b] is the set of slots of b the walker accepts.                   *)
(***************************************************************************)
NoItem == <<NumBlk, 0>>      \* the result NULL; an item is <<block, slot>>

FindItem(r, match) ==
    LET hit == {b \in Blocks \ Fresh(r) : match[b] # {}}
    IN  IF hit = {} THEN NoItem
        ELSE LET b == FirstBlk(hit)
             IN  <<b, CHOOSE i \in match[b] : \A j \in match[b] : i <= j>>

FindRam(r, f, match) ==
    LET at == FindItem(r, match)
        w  == WalkAll(r, f, {b \in Blocks \ Fresh(r) : b < at[1]})
    IN  IF at # NoItem /\ DirtUpTo(f[at[1]], at[2] - 1)
        THEN kv_blk_set_dirty(w, at[1]) ELSE w

\* kv_item_do_fetch: a live item whose key bytes are the ones asked for
KeyMatch(f, k) ==
    [b \in Blocks |-> {i \in DOMAIN f[b].items :
        LET s == f[b].items[i]
        IN  Live(s) /\ s.st \in {"key", "full"} /\ s.key = k}]

\* kv_item_do_fetch_new_copy: a live item with the same key and value
CopyMatch(f, old) ==
    [b \in Blocks |-> {i \in DOMAIN f[b].items :
        LET s == f[b].items[i]
        IN  Live(s) /\ s.st = old.st /\ s.key = old.key /\ s.val = old.val}]

-----------------------------------------------------------------------------
(* kv_item_do_recovery: what the boot walk does with one item              *)

\* kv_item_try_delete: the slot at prev_pos that an update superseded and did
\* not get to delete.
Superseded(f, s) ==
    IF s.prev = NoPos THEN {}
    ELSE {i \in SlotsAt(f, s.prev) :
            LET p == f[s.prev[1]].items[i]
            IN  Live(p) /\ p.st \in {"key", "full"} /\ p.key = s.key}

\* Fault: recovery does not finish interrupted updates.
Recover_TornOnly(f, b) ==
    {i \in DOMAIN f[b].items : Live(f[b].items[i]) /\ ~Intact(f[b].items[i])}

\* Fault: recovery does not verify the checksum.
Recover_UpdatesOnly(f, b) ==
    {i \in DOMAIN f[b].items :
        LET s == f[b].items[i]
        IN  Live(s) /\ Intact(s) /\ s.prev # <<b, s.off>>
            /\ Superseded(f, s) # {}}

\* The slots of block b, in walk order, for which recovery writes to flash.
Recover(f, b) ==
    {i \in DOMAIN f[b].items :
        LET s == f[b].items[i]
        IN  /\ Live(s)
            /\ \/ ~Intact(s)
               \/ /\ s.prev # <<b, s.off>>        \* kv_item_is_updated_one
                  /\ Superseded(f, s) # {}}

\* The slot recovery discards on behalf of slot i of block b.
Discards(f, b, i) ==
    LET s == f[b].items[i]
    IN  IF ~Intact(s) THEN <<b, i>>
        ELSE <<s.prev[1], CHOOSE j \in Superseded(f, s) : TRUE>>
=============================================================================
