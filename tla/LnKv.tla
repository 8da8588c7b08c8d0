-------------------------------- MODULE LnKv --------------------------------
(***************************************************************************)
(* The KV store of components/fs/kv/kv/ln_kv.c: boot (index build,         *)
(* recovery, completion of an interrupted garbage collection), ln_kv_set,  *)
(* ln_kv_get, ln_kv_has_key and ln_kv_del, with garbage collection inside  *)
(* ln_kv_set.  Every change of the flash is a step of its own, and power   *)
(* may fail between any two of them; RAM is lost then.                     *)
(*                                                                         *)
(* kv_lock() is held for the whole of each call, so one program counter    *)
(* is enough.  Flash calls never fail (FLASH_Program, FLASH_Read and       *)
(* FLASH_Erase of hal/flash.c always return 0) and ln_kv_malloc is taken   *)
(* to succeed, so the bad and hanging block flags do not occur.            *)
(***************************************************************************)
EXTENDS LnKvLayout

CONSTANTS MaxCycle,      \* bound on power cycles
          CrashAt        \* program points at which power may fail

VARIABLES flash,         \* the KV partition: [Blocks -> Block]
          ram,           \* kv_ctl.mgr_ctl
          pc,
          cur,           \* block the boot scan is at
          op,            \* the ln_kv_set in progress
          gc,            \* the garbage collection in progress
          cycles,        \* power failures so far, and whether one of them
                         \* came between the erase of a gc source and the
                         \* gc_done mark
          allowed        \* per key, the values a lookup may return

vars == <<flash, ram, pc, cur, op, gc, cycles, allowed>>

PC == {"off", "scan", "scan_magic", "incomplete", "inc_magic", "locate",
       "locate_ws", "idle", "search", "s_magic", "s_key", "s_val", "del_old",
       "gc_dst", "gc_copy", "c_magic", "c_key", "c_val", "gc_magic",
       "gc_done", "failed", "overrun", "wild"}

ASSUME KvEnv == MaxCycle \in Nat /\ CrashAt \subseteq PC

None    == "none"        \* the key does not exist
Garbage == "garbage"     \* value bytes that no call ever stored

\* A stored value is never taken for a missing key.
ASSUME KvVals == None \notin Vals

NewSlot(off, key, val, prev) ==
    [off |-> off, st |-> "hdr", key |-> key, val |-> val, prev |-> prev,
     disc |-> FALSE]
NoSlot == NewSlot(0, None, None, NoPos)
NoOp == [key |-> None, val |-> None, blk |-> 0, prev |-> NoPos,
         old |-> NoSlot]
NoGc == [src |-> 0, dst |-> 0, i |-> 0, from |-> "idle"]

Init == /\ flash = [b \in Blocks |-> Erased]
        /\ ram = ZeroRam
        /\ pc = "off"
        /\ cur = 0
        /\ op = NoOp
        /\ gc = NoGc
        /\ cycles = [n |-> 0, window |-> FALSE]
        /\ allowed = [k \in Keys |-> {None}]

-----------------------------------------------------------------------------
(* What a caller sees                                                      *)

\* The value bytes ln_kv_get copies out, None for KV_ERR_NOT_EXIST.
Lookup(k) ==
    LET at == FindItem(ram, KeyMatch(flash, k))
    IN  IF at = NoItem THEN None
        ELSE LET s == flash[at[1]].items[at[2]]
             IN  IF Intact(s) THEN s.val ELSE Garbage

\* What a lookup found after boot must stay: a set or delete that power cut
\* short is settled one way or the other.
Settled == [k \in Keys |-> IF Lookup(k) \in allowed[k] THEN {Lookup(k)}
                           ELSE allowed[k]]

-----------------------------------------------------------------------------
(* Flash writes shared by saving and copying                               *)

\* KV_BLK_USABLE_ADDR, as an offset
UsableOff(r, b) == BlkFresh - r.free[b]

\* kv_item_hdr_write, first half: checksum, lengths and prev_pos
PutHeader(b, s) == [flash EXCEPT ![b].items = Append(@, s)]

\* The item being written is the last one of its block.
PutStage(b, stage) ==
    [flash EXCEPT ![b].items[Len(flash[b].items)].st = stage]

-----------------------------------------------------------------------------
(* Boot                                                                    *)

ln_kv_init ==
    /\ pc = "off"
    /\ ram' = ZeroRam
    /\ cur' = 0
    /\ pc' = "scan"
    /\ UNCHANGED <<flash, op, gc, cycles, allowed>>

\* kv_mgr_ctl_build at an unformatted block: kv_blk_format, the erase
ScanErase ==
    /\ pc = "scan"
    /\ cur \in Blocks
    /\ ~flash[cur].magic
    /\ flash' = [flash EXCEPT ![cur] = Erased]
    /\ pc' = "scan_magic"
    /\ UNCHANGED <<ram, cur, op, gc, cycles, allowed>>

\* kv_blk_format, the block magic
ScanMagic ==
    /\ pc = "scan_magic"
    /\ flash' = [flash EXCEPT ![cur].magic = TRUE]
    /\ ram' = kv_blk_set_fresh(ram, cur)
    /\ cur' = cur + 1
    /\ pc' = "scan"
    /\ UNCHANGED <<op, gc, cycles, allowed>>

IsGcSrc(blk) == blk.magic /\ blk.src
IsGcDstNotDone(blk) == blk.magic /\ ~blk.src /\ blk.dst /\ ~blk.done

\* kv_mgr_ctl_build at a block an interrupted gc left marked
ScanMarked ==
    /\ pc = "scan"
    /\ cur \in Blocks
    /\ IsGcSrc(flash[cur]) \/ IsGcDstNotDone(flash[cur])
    /\ cur' = cur + 1
    /\ UNCHANGED <<flash, ram, pc, op, gc, cycles, allowed>>

IndexBuild ==
    /\ pc = "scan"
    /\ cur \in Blocks
    /\ flash[cur].magic
    /\ ~IsGcSrc(flash[cur])
    /\ ~IsGcDstNotDone(flash[cur])

\* kv_item_do_recovery discards a torn item or a superseded one
ScanRecover ==
    /\ IndexBuild
    /\ Recover(flash, cur) # {}
    /\ LET i == CHOOSE i \in Recover(flash, cur) :
                    \A j \in Recover(flash, cur) : i <= j
           d == Discards(flash, cur, i)
       IN  /\ flash' = MarkDiscarded(flash, d[1], d[2])
           /\ ram' = kv_blk_set_dirty(ram, d[1])
    /\ UNCHANGED <<pc, cur, op, gc, cycles, allowed>>

\* the end of kv_item_walkthru for a block that needs no more recovery
ScanIndex ==
    /\ IndexBuild
    /\ Recover(flash, cur) = {}
    /\ ram' = WalkAll(ram, flash, {cur})
    /\ cur' = cur + 1
    /\ UNCHANGED <<flash, pc, op, gc, cycles, allowed>>

ScanDone ==
    /\ pc = "scan"
    /\ cur \notin Blocks
    /\ pc' = "incomplete"
    /\ UNCHANGED <<flash, ram, cur, op, gc, cycles, allowed>>

GcSrcs == {b \in Blocks : IsGcSrc(flash[b])}
GcDsts == {b \in Blocks : IsGcDstNotDone(flash[b])}

\* fresh_blk of kv_mgr_ctl_build: the last fresh block the scan met
LastFresh == CHOOSE b \in Fresh(ram) : \A c \in Fresh(ram) : c <= b

\* kv_handle_incomplete_gc answers KV_ERR_BLK_STATUS_ERROR
IncompleteError ==
    \/ Cardinality(GcSrcs) > 1
    \/ Cardinality(GcDsts) > 1
    \/ GcSrcs # {} /\ GcDsts = {} /\ Fresh(ram) = {}

IncompleteFails ==
    /\ pc = "incomplete"
    /\ IncompleteError
    /\ pc' = "failed"
    /\ UNCHANGED <<flash, ram, cur, op, gc, cycles, allowed>>

IncompleteNone ==
    /\ pc = "incomplete"
    /\ ~IncompleteError
    /\ GcSrcs = {}
    /\ pc' = "locate"
    /\ UNCHANGED <<flash, ram, cur, op, gc, cycles, allowed>>

\* the interrupted destination is formatted first: the erase
IncompleteErase ==
    /\ pc = "incomplete"
    /\ ~IncompleteError
    /\ GcSrcs # {}
    /\ GcDsts # {}
    /\ LET d == FirstBlk(GcDsts)
       IN  /\ flash' = [flash EXCEPT ![d] = Erased]
           /\ gc' = [src |-> FirstBlk(GcSrcs), dst |-> d, i |-> 1,
                     from |-> "incomplete"]
    /\ pc' = "inc_magic"
    /\ UNCHANGED <<ram, cur, op, cycles, allowed>>

\* and its magic; kv_do_gc then marks it as the destination again
IncompleteMagic ==
    /\ pc = "inc_magic"
    /\ flash' = [flash EXCEPT ![gc.dst].magic = TRUE]
    /\ ram' = kv_blk_set_fresh(ram, gc.dst)
    /\ pc' = "gc_dst"
    /\ UNCHANGED <<cur, op, gc, cycles, allowed>>

\* only gc_src was marked: a fresh block becomes the destination
IncompleteFresh ==
    /\ pc = "incomplete"
    /\ ~IncompleteError
    /\ GcSrcs # {}
    /\ GcDsts = {}
    /\ gc' = [src |-> FirstBlk(GcSrcs), dst |-> LastFresh, i |-> 1,
              from |-> "incomplete"]
    /\ pc' = "gc_dst"
    /\ UNCHANGED <<flash, ram, cur, op, cycles, allowed>>

\* kv_mgr_workspace_locate needs a "rescue" gc
Rescue == ram.numInuse = 0 /\ ram.numFresh = 1 /\ Dirty(ram) # {}

LocateGc ==
    /\ pc = "locate"
    /\ Rescue
    /\ LET s == FirstBlk(Dirty(ram))
       IN  /\ flash' = [flash EXCEPT ![s].src = TRUE]
           /\ gc' = [src |-> s, dst |-> FirstBlk(Fresh(ram)), i |-> 1,
                     from |-> "locate"]
    /\ pc' = "gc_dst"
    /\ UNCHANGED <<ram, cur, op, cycles, allowed>>

\* Fault: kv_mgr_workspace_locate only looks at blocks inuse.
Located_InuseOnly(r) ==
    IF Inuse(r) = {} THEN r ELSE [r EXCEPT !.workspace = FirstBlk(Inuse(r))]

\* The workspace kv_mgr_workspace_locate chooses; it stays unset when no
\* block can be written (KV_ERR_NO_WRITEABLE_BLK), and lookups still work.
Located(r) ==
    IF KV_NO_WRITEABLE_BLK(r) THEN r
    ELSE LET S == IF r.numInuse = 0 THEN Fresh(r) ELSE Inuse(r)
         IN  IF S = {} THEN r ELSE [r EXCEPT !.workspace = FirstBlk(S)]

Locate ==
    /\ \/ pc = "locate" /\ ~Rescue
       \/ pc = "locate_ws"
    /\ ram' = Located(ram)
    /\ allowed' = Settled
    /\ pc' = "idle"
    /\ UNCHANGED <<flash, cur, op, gc, cycles>>

-----------------------------------------------------------------------------
(* Garbage collection: kv_do_gc after its first mark                       *)

\* Fault: the destination is marked done together with gc_dst.
GcMarkDst_DoneEarly ==
    /\ pc = "gc_dst"
    /\ flash' = [flash EXCEPT ![gc.dst].dst = TRUE, ![gc.dst].done = TRUE]
    /\ pc' = "gc_copy"
    /\ UNCHANGED <<ram, cur, op, gc, cycles, allowed>>

GcMarkDst ==
    /\ pc = "gc_dst"
    /\ flash' = [flash EXCEPT ![gc.dst].dst = TRUE]
    /\ pc' = "gc_copy"
    /\ UNCHANGED <<ram, cur, op, gc, cycles, allowed>>

\* The items of the source the walk still has to hand to kv_item_do_gc
ToCopy == {i \in DOMAIN flash[gc.src].items :
              i >= gc.i /\ Live(flash[gc.src].items[i])}
NextToCopy == CHOOSE i \in ToCopy : \A j \in ToCopy : i <= j

\* kv_item_do_gc copies the header as it is, prev_pos included
GcCopyHeader ==
    /\ pc = "gc_copy"
    /\ ToCopy # {}
    /\ LET s == flash[gc.src].items[NextToCopy]
       IN  flash' = PutHeader(gc.dst, NewSlot(UsableOff(ram, gc.dst), s.key,
                                              s.val, s.prev))
    /\ gc' = [gc EXCEPT !.i = NextToCopy]
    /\ pc' = "c_magic"
    /\ UNCHANGED <<ram, cur, op, cycles, allowed>>

GcCopyMagic ==
    /\ pc = "c_magic"
    /\ flash' = PutStage(gc.dst, "magic")
    /\ pc' = "c_key"
    /\ UNCHANGED <<ram, cur, op, gc, cycles, allowed>>

GcCopyKey ==
    /\ pc = "c_key"
    /\ flash' = PutStage(gc.dst, "key")
    /\ pc' = "c_val"
    /\ UNCHANGED <<ram, cur, op, gc, cycles, allowed>>

\* Fault: kv_item_do_gc forgets to reduce the free size.
GcCopyVal_NoReduce ==
    /\ pc = "c_val"
    /\ flash' = PutStage(gc.dst, flash[gc.src].items[gc.i].st)
    /\ gc' = [gc EXCEPT !.i = @ + 1]
    /\ pc' = "gc_copy"
    /\ UNCHANGED <<ram, cur, op, cycles, allowed>>

\* The copied bytes are the source's bytes, torn or not.
GcCopyVal ==
    /\ pc = "c_val"
    /\ LET s == flash[gc.src].items[gc.i]
       IN  /\ flash' = PutStage(gc.dst, s.st)
           /\ ram' = kv_blk_freesz_reduce(ram, gc.dst, ItemSize(s.val))
    /\ gc' = [gc EXCEPT !.i = @ + 1]
    /\ pc' = "gc_copy"
    /\ UNCHANGED <<cur, op, cycles, allowed>>

\* Fault: the source is formatted before all its items are copied.
GcEraseSrc_Early ==
    /\ pc = "gc_copy"
    /\ ram' = kv_blk_reset_inuse(WalkAll(ram, flash, {gc.src}), gc.src)
    /\ flash' = [flash EXCEPT ![gc.src] = Erased]
    /\ pc' = "gc_magic"
    /\ UNCHANGED <<cur, op, gc, cycles, allowed>>

\* the walk of the source ends; step 4, kv_blk_format(src): the erase
GcEraseSrc ==
    /\ pc = "gc_copy"
    /\ ToCopy = {}
    /\ ram' = kv_blk_reset_inuse(WalkAll(ram, flash, {gc.src}), gc.src)
    /\ flash' = [flash EXCEPT ![gc.src] = Erased]
    /\ pc' = "gc_magic"
    /\ UNCHANGED <<cur, op, gc, cycles, allowed>>

GcMagicSrc ==
    /\ pc = "gc_magic"
    /\ flash' = [flash EXCEPT ![gc.src].magic = TRUE]
    /\ ram' = kv_blk_set_fresh(ram, gc.src)
    /\ pc' = "gc_done"
    /\ UNCHANGED <<cur, op, gc, cycles, allowed>>

\* Fault: a collected block counts as dirty.
GcMarkDone_DirtyDst ==
    /\ pc = "gc_done"
    /\ flash' = [flash EXCEPT ![gc.dst].done = TRUE]
    /\ LET r == kv_blk_reset_fresh(ram, gc.dst)
           q == IF kv_blk_is_full(r, gc.dst) THEN r
                ELSE kv_blk_set_inuse(r, gc.dst)
       IN  ram' = IF gc.from = "search"
                  THEN [kv_blk_set_dirty(q, gc.dst) EXCEPT !.workspace = gc.dst]
                  ELSE kv_blk_set_dirty(q, gc.dst)
    /\ pc' = CASE gc.from = "search"     -> "search"
               [] gc.from = "locate"     -> "locate_ws"
               [] gc.from = "incomplete" -> "locate"
    /\ gc' = NoGc
    /\ UNCHANGED <<cur, op, cycles, allowed>>

\* step 5 and the return to kv_gc, kv_try_gc or kv_handle_incomplete_gc
GcMarkDone ==
    /\ pc = "gc_done"
    /\ flash' = [flash EXCEPT ![gc.dst].done = TRUE]
    /\ LET r == kv_blk_reset_fresh(ram, gc.dst)
           q == IF kv_blk_is_full(r, gc.dst) THEN r
                ELSE kv_blk_set_inuse(r, gc.dst)
       IN  ram' = IF gc.from = "search" THEN [q EXCEPT !.workspace = gc.dst]
                  ELSE q
    /\ pc' = CASE gc.from = "search"     -> "search"
               [] gc.from = "locate"     -> "locate_ws"
               [] gc.from = "incomplete" -> "locate"
    /\ gc' = NoGc
    /\ UNCHANGED <<cur, op, cycles, allowed>>

-----------------------------------------------------------------------------
(* Lookups and deletion                                                    *)

\* ln_kv_get and ln_kv_has_key: kv_item_find may refresh the index
ln_kv_get(k) ==
    /\ pc = "idle"
    /\ ram' = FindRam(ram, flash, KeyMatch(flash, k))
    /\ UNCHANGED <<flash, pc, cur, op, gc, cycles, allowed>>

ln_kv_del(k) ==
    /\ pc = "idle"
    /\ LET at == FindItem(ram, KeyMatch(flash, k))
           r  == FindRam(ram, flash, KeyMatch(flash, k))
       IN  IF at = NoItem
           THEN ram' = r /\ UNCHANGED <<flash, allowed>>
           ELSE /\ flash' = MarkDiscarded(flash, at[1], at[2])
                /\ ram' = kv_blk_set_dirty(r, at[1])
                /\ allowed' = [allowed EXCEPT ![k] = {None}]
    /\ UNCHANGED <<pc, cur, op, gc, cycles>>

-----------------------------------------------------------------------------
(* ln_kv_set                                                               *)

\* kv_item_find and, for an existing key, kv_item_value_is_match
ln_kv_set(k, v) ==
    /\ pc = "idle"
    /\ ram' = FindRam(ram, flash, KeyMatch(flash, k))
    /\ LET at == FindItem(ram, KeyMatch(flash, k))
       IN  IF Lookup(k) = v
           THEN UNCHANGED <<pc, op, allowed>>
           ELSE /\ op' = IF at = NoItem
                         THEN [NoOp EXCEPT !.key = k, !.val = v]
                         ELSE LET s == flash[at[1]].items[at[2]]
                              IN  [NoOp EXCEPT !.key = k, !.val = v,
                                               !.prev = <<at[1], s.off>>,
                                               !.old = s]
                /\ allowed' = [allowed EXCEPT ![k] = @ \cup {v}]
                /\ pc' = "search"
    /\ UNCHANGED <<flash, cur, gc, cycles>>

\* Fault: kv_blk_search_inuse ignores the free size.
Roomy_AnyFree(r, size) == Inuse(r)

\* kv_blk_search_suitable up to the point where it needs kv_gc
Roomy(r, size) == {b \in Inuse(r) : r.free[b] >= size}

Writeable(r) == ~KV_NO_WRITEABLE_BLK(r) /\ r.workspace \in Blocks

Choosing(r, size) ==
    IF r.free[r.workspace] >= size THEN r.workspace
    ELSE NextBlk(Roomy(r, size), r.workspace)

\* kv_gc finds a destination and a dirty block
CanGc(r) == NextBlk(Fresh(r), r.workspace) # Invalid /\ Dirty(r) # {}

\* Fault: kv_gc does not look for a dirty block.
NeedsGc_NoDirtyCheck(r, size) ==
    /\ Writeable(r)
    /\ Choosing(r, size) = Invalid
    /\ r.numFresh = 1
    /\ NextBlk(Fresh(r), r.workspace) # Invalid

NeedsGc(r, size) ==
    /\ Writeable(r)
    /\ Choosing(r, size) = Invalid
    /\ r.numFresh = 1
    /\ CanGc(r)

\* The block kv_blk_search_suitable returns when it does not collect, and
\* the workspace it leaves: the last resort is the next fresh block, which
\* is Invalid when the workspace itself is the only fresh one.
Suitable(r, size) ==
    IF ~Writeable(r) THEN [blk |-> Invalid, ws |-> r.workspace]
    ELSE IF Choosing(r, size) # Invalid
    THEN [blk |-> Choosing(r, size), ws |-> Choosing(r, size)]
    ELSE IF r.numFresh < 1 THEN [blk |-> Invalid, ws |-> r.workspace]
    ELSE LET b == NextBlk(Fresh(r), r.workspace) IN [blk |-> b, ws |-> b]

\* After a boot that ended with KV_ERR_NO_WRITEABLE_BLK the workspace is 0,
\* an address of no block; a search that uses it reads the index table out
\* of bounds.  What follows is not modelled.
SearchWild ==
    /\ pc = "search"
    /\ ~KV_NO_WRITEABLE_BLK(ram)
    /\ ram.workspace = Unset
    /\ pc' = "wild"
    /\ UNCHANGED <<flash, ram, cur, op, gc, cycles, allowed>>

SearchGc ==
    /\ pc = "search"
    /\ NeedsGc(ram, ItemSize(op.val))
    /\ LET s == FirstBlk(Dirty(ram))
       IN  /\ flash' = [flash EXCEPT ![s].src = TRUE]
           /\ gc' = [src |-> s, dst |-> NextBlk(Fresh(ram), ram.workspace),
                     i |-> 1, from |-> "search"]
    /\ pc' = "gc_dst"
    /\ UNCHANGED <<ram, cur, op, cycles, allowed>>

\* Fault: kv_item_save trusts the old position after a gc.
Moved_Never(f, o) == FALSE

\* kv_item_is_moved: the bytes at the old position are no longer the item
Moved(f, o) ==
    /\ o.prev # NoPos
    /\ ~ \E i \in SlotsAt(f, o.prev) : f[o.prev[1]].items[i] = o.old

\* kv_item_fix answers KV_ERR_POS_FIX_FAILED
FixFails == /\ Moved(flash, op)
            /\ FindItem(ram, CopyMatch(flash, op.old)) = NoItem

\* The old item's position after kv_item_fix, and the index it leaves
FixedPos == IF Moved(flash, op)
            THEN LET at == FindItem(ram, CopyMatch(flash, op.old))
                 IN  <<at[1], flash[at[1]].items[at[2]].off>>
            ELSE op.prev
FixedRam == IF Moved(flash, op)
            THEN FindRam(ram, flash, CopyMatch(flash, op.old)) ELSE ram

SaveFails ==
    /\ pc = "search"
    /\ KV_NO_WRITEABLE_BLK(ram) \/ ram.workspace # Unset
    /\ ~NeedsGc(ram, ItemSize(op.val))
    /\ LET c == Suitable(ram, ItemSize(op.val))
       IN  /\ c.blk = Invalid \/ FixFails
           /\ ram' = IF c.blk = Invalid
                     THEN [ram EXCEPT !.workspace = c.ws]
                     ELSE [FixedRam EXCEPT !.workspace = c.ws]
    /\ allowed' = [allowed EXCEPT ![op.key] = @ \ {op.val}]
    /\ op' = NoOp
    /\ pc' = "idle"
    /\ UNCHANGED <<flash, cur, gc, cycles>>

\* kv_item_save reaches kv_item_do_save.  An item that does not fit the
\* block it was given is written over the block's end; the flash behind it
\* is not modelled any further.
SaveHeader ==
    /\ pc = "search"
    /\ ~NeedsGc(ram, ItemSize(op.val))
    /\ ~FixFails
    /\ LET c == Suitable(ram, ItemSize(op.val))
           r == [FixedRam EXCEPT !.workspace = c.ws]
       IN  /\ c.blk # Invalid
           /\ ram' = r
           /\ op' = [op EXCEPT !.blk = c.blk, !.prev = FixedPos]
           /\ IF ItemSize(op.val) <= r.free[c.blk]
              THEN /\ flash' = PutHeader(c.blk, NewSlot(UsableOff(r, c.blk),
                                              op.key, op.val, FixedPos))
                   /\ pc' = "s_magic"
              ELSE flash' = flash /\ pc' = "overrun"
    /\ UNCHANGED <<cur, gc, cycles, allowed>>

SaveMagic ==
    /\ pc = "s_magic"
    /\ flash' = PutStage(op.blk, "magic")
    /\ pc' = "s_key"
    /\ UNCHANGED <<ram, cur, op, gc, cycles, allowed>>

SaveKey ==
    /\ pc = "s_key"
    /\ flash' = PutStage(op.blk, "key")
    /\ pc' = "s_val"
    /\ UNCHANGED <<ram, cur, op, gc, cycles, allowed>>

\* Fault: kv_item_save leaves the fresh flag of a block it wrote to.
SavedRam_KeepsFresh(r, b, size) ==
    LET q == kv_blk_freesz_reduce(r, b, size)
    IN  IF kv_blk_is_full(q, b) THEN kv_blk_reset_inuse(q, b)
        ELSE kv_blk_set_inuse(q, b)

\* The tail of kv_item_save
SavedRam(r, b, size) ==
    LET q == kv_blk_freesz_reduce(r, b, size)
    IN  IF b \in Fresh(q)
        THEN LET n == kv_blk_reset_fresh(q, b)
             IN  IF kv_blk_is_full(n, b) THEN n ELSE kv_blk_set_inuse(n, b)
        ELSE IF kv_blk_is_full(q, b) THEN kv_blk_reset_inuse(q, b) ELSE q

\* the last bytes of the value; ln_kv_set returns when there is no old item
SaveVal ==
    /\ pc = "s_val"
    /\ flash' = PutStage(op.blk, "full")
    /\ ram' = SavedRam(ram, op.blk, ItemSize(op.val))
    /\ IF op.prev = NoPos
       THEN /\ allowed' = [allowed EXCEPT ![op.key] = {op.val}]
            /\ op' = NoOp
            /\ pc' = "idle"
       ELSE pc' = "del_old" /\ UNCHANGED <<op, allowed>>
    /\ UNCHANGED <<cur, gc, cycles>>

\* kv_item_update: kv_item_delete of the old item
DeleteOld ==
    /\ pc = "del_old"
    /\ flash' = [flash EXCEPT ![op.prev[1]].items =
                    [i \in DOMAIN @ |-> IF @[i].off = op.prev[2]
                                        THEN [@[i] EXCEPT !.disc = TRUE]
                                        ELSE @[i]]]
    /\ ram' = kv_blk_set_dirty(ram, op.prev[1])
    /\ allowed' = [allowed EXCEPT ![op.key] = {op.val}]
    /\ op' = NoOp
    /\ pc' = "idle"
    /\ UNCHANGED <<cur, gc, cycles>>

-----------------------------------------------------------------------------
\* Power fails between two flash operations; RAM is gone.
\* A device whose store is unusable may be restarted at will.
PowerFail ==
    /\ pc # "off"
    /\ \/ /\ pc \in CrashAt
          /\ cycles.n < MaxCycle
          /\ cycles' = [n |-> cycles.n + 1,
                        window |-> cycles.window \/ pc \in {"gc_magic", "gc_done"}]
       \/ /\ pc \in {"failed", "overrun", "wild"}
          /\ cycles' = cycles
    /\ pc' = "off"
    /\ ram' = ZeroRam
    /\ cur' = 0
    /\ op' = NoOp
    /\ gc' = NoGc
    /\ UNCHANGED <<flash, allowed>>

Boot == \/ ln_kv_init \/ ScanErase \/ ScanMagic \/ ScanMarked \/ ScanRecover
        \/ ScanIndex \/ ScanDone
        \/ IncompleteFails \/ IncompleteNone \/ IncompleteErase
        \/ IncompleteMagic \/ IncompleteFresh
        \/ LocateGc \/ Locate
Collect == \/ GcMarkDst \/ GcCopyHeader \/ GcCopyMagic \/ GcCopyKey
           \/ GcCopyVal \/ GcEraseSrc \/ GcMagicSrc \/ GcMarkDone
Save == \/ SearchWild \/ SearchGc \/ SaveFails \/ SaveHeader \/ SaveMagic \/ SaveKey
        \/ SaveVal \/ DeleteOld
Call == \E k \in Keys : \/ ln_kv_get(k)
                        \/ ln_kv_del(k)
                        \/ \E v \in Vals : ln_kv_set(k, v)

Next == Boot \/ Collect \/ Save \/ Call \/ PowerFail

Spec == Init /\ [][Next]_vars

-----------------------------------------------------------------------------
(* Properties                                                              *)

Op == [key : Keys, val : Vals, blk : Blocks, prev : Pos,
       old : Slot \cup {NoSlot}]
Gc == [src : Blocks, dst : Blocks, i : Nat,
       from : {"idle", "search", "locate", "incomplete"}]

\* The values the variables range over.
TypeOK == /\ flash \in [Blocks -> Block]
          /\ ram \in Ram
          /\ pc \in PC
          /\ cur \in 0 .. NumBlk
          /\ op \in Op \cup {NoOp}
          /\ gc \in Gc
          /\ cycles \in [n : 0 .. MaxCycle, window : BOOLEAN]
          /\ allowed \in [Keys -> SUBSET (Vals \cup {None})]

\* A lookup returns what the last completed ln_kv_set or ln_kv_del of the key
\* left; a call that power cut short took effect entirely or not at all, and
\* half-written values are never returned.
Durable == pc = "idle" => \A k \in Keys : Lookup(k) \in allowed[k]

\* The same with several power failures, as long as none came between the
\* erase of a gc source and the gc_done mark of its destination, the one
\* state that boot does not repair.
DurableOutsideWindow == ~cycles.window => Durable

\* ln_kv_init never finds block marks it cannot make sense of
\* (KV_ERR_BLK_STATUS_ERROR): every interrupted gc is completed at boot.
InitSucceeds == pc # "failed"

\* Items lie back to back from the start of their block and inside it, so
\* no header was written over bytes that were not blank: the usable address
\* kept in RAM was right at every write.
Packed ==
    \A b \in Blocks :
        LET its == flash[b].items
        IN  /\ \A i \in DOMAIN its :
                   its[i].off = IF i = 1 THEN 0
                                ELSE its[i - 1].off + Extent(its[i - 1])
            /\ WalkEnd(flash[b]) <= BlkFresh

\* Between calls the index describes the flash: fresh blocks are blank, the
\* free sizes are exact, num_fresh counts the fresh blocks, and num_inuse
\* misses no block inuse (kv_blk_set_fresh of an emptied gc destination leaks
\* one count, so it may be larger).
IndexExact ==
    pc = "idle" =>
        /\ \A b \in Fresh(ram) : flash[b].items = << >>
        /\ \A b \in Fresh(ram) \cup Inuse(ram) :
               ram.free[b] = BlkFresh - WalkEnd(flash[b])
        /\ ram.numFresh = Cardinality(Fresh(ram))
        /\ ram.numInuse >= Cardinality(Inuse(ram))

\* Between calls a key has at most one item that is not discarded.
LiveAt(f, k) == {p \in {<<b, i>> : b \in Blocks, i \in 1 .. BlkFresh} :
                    /\ p[2] \in DOMAIN f[p[1]].items
                    /\ f[p[1]].items[p[2]].key = k
                    /\ Live(f[p[1]].items[p[2]])
                    /\ f[p[1]].items[p[2]].st \in {"key", "full"}}
OneCopy == pc = "idle" => \A k \in Keys : Cardinality(LiveAt(flash, k)) <= 1

\* An item handed to kv_item_do_save fits the block it is written to: what
\* kv_item_hdr_verify tests ("2. test the flash address range").
ItemFits == pc # "overrun"

\* No search uses a workspace that boot never located, outside that window.
WorkspaceKnown == pc = "wild" => cycles.window

\* No erase and no discard takes away the last readable value of a key,
\* except ln_kv_del of that key.
HasValue(f, k) == \E p \in LiveAt(f, k) : Intact(f[p[1]].items[p[2]])
KeepsLastCopy ==
    [][\A k \in Keys :
          HasValue(flash, k) /\ ~HasValue(flash', k) => allowed'[k] = {None}]_vars

\* Every call returns and every boot ends, also when collection runs again
\* and again: kv_blk_search_suitable's loop terminates.
Returns == (pc # "idle") ~> (pc \in {"idle", "failed", "overrun", "wild"})

FairSpec == Spec /\ WF_vars(Boot \/ Collect \/ Save)
=============================================================================
