-------------------------------- MODULE Nvds --------------------------------
(***************************************************************************)
(* The non-volatile data store of components/fs/nvds/ln_nvds.c: two        *)
(* sectors used in turn and a third that holds the flag of the valid one.  *)
(* Every erase and every write of a field is a step, and power may fail    *)
(* before it or half-way through a field.  A half-written flag or magic    *)
(* word compares like a missing one.                                       *)
(***************************************************************************)
EXTENDS Naturals

CONSTANTS NumField,        \* fields of a sector, in address order
          Vals, Blank,     \* field contents; Blank is all 0xFF bytes
          Torn,            \* a field that was being written when power failed
          VersionField, Version

ASSUME NvdsConstants ==
    /\ NumField \in Nat \ {0}
    /\ VersionField \in 1 .. NumField
    /\ Version \in Vals
    /\ Blank \notin Vals
    /\ Torn \notin Vals \cup {Blank}

Fields == 1 .. NumField
Data   == Vals \cup {Blank}
Sector == [magic : BOOLEAN, data : [Fields -> Data \cup {Torn}]]

VARIABLES sect,    \* USR_NVDS_SECT1 and USR_NVDS_SECT2
          flag,    \* which sector is valid: 1, 2, or 0 for neither
          pc,
          wr       \* the ln_nvds_write in progress: target, field, value, next

vars == <<sect, flag, pc, wr>>

PC == {"off", "init2", "init3", "up", "erase", "magic", "copy",
       "half", "setflag", "ret"}

Wiped == [magic |-> FALSE, data |-> [g \in Fields |-> Blank]]
NoWr  == [tgt |-> 1, f |-> VersionField, v |-> Version, i |-> 1]

\* A device that never ran: nothing is valid, the sectors hold anything
\* without a magic word.
Init == /\ sect \in [1 .. 2 -> {s \in Sector : ~s.magic}]
        /\ flag = 0
        /\ pc = "off"
        /\ wr = NoWr

-----------------------------------------------------------------------------
\* ln_nvds_read: the sector it reads from, 0 for NVDS_ERR_FAIL
ReadSector == IF flag = 1 THEN 1
              ELSE IF flag = 2 THEN 2
              ELSE IF sect[2].magic THEN 2 ELSE 0

\* Fault: the copy loop starts at the magic word instead of behind it.
StartWrite_FromMagic(f, v) ==
    /\ wr' = [tgt |-> IF flag = 1 THEN 2 ELSE 1, f |-> f, v |-> v, i |-> 0]
    /\ pc' = "erase"

\* Fault: the write goes to the sector that is flagged valid.
StartWrite_InPlace(f, v) ==
    /\ wr' = [tgt |-> IF flag = 1 THEN 1 ELSE 2, f |-> f, v |-> v, i |-> 1]
    /\ pc' = "erase"

\* ln_nvds_write begins: the target is the sector that is not flagged valid
StartWrite(f, v) ==
    /\ wr' = [tgt |-> IF flag = 1 THEN 2 ELSE 1, f |-> f, v |-> v, i |-> 1]
    /\ pc' = "erase"

-----------------------------------------------------------------------------
\* ln_nvds_init can read the version: nothing to do
InitOk ==
    /\ pc = "off"
    /\ ReadSector # 0
    /\ pc' = "up"
    /\ UNCHANGED <<sect, flag, wr>>

\* it cannot: erase all three sectors, then write the version
InitErase1 ==
    /\ pc = "off"
    /\ ReadSector = 0
    /\ sect' = [sect EXCEPT ![1] = Wiped]
    /\ pc' = "init2"
    /\ UNCHANGED <<flag, wr>>

InitErase2 ==
    /\ pc = "init2"
    /\ sect' = [sect EXCEPT ![2] = Wiped]
    /\ pc' = "init3"
    /\ UNCHANGED <<flag, wr>>

InitErase3 ==
    /\ pc = "init3"
    /\ flag' = 0
    /\ wr' = [tgt |-> 1, f |-> VersionField, v |-> Version, i |-> 1]
    /\ pc' = "erase"
    /\ UNCHANGED sect

\* A setter: nothing is written when the field already reads as v.
Set(f, v) ==
    /\ pc = "up"
    /\ ReadSector # 0 => sect[ReadSector].data[f] # v
    /\ StartWrite(f, v)
    /\ UNCHANGED <<sect, flag>>

WriteErase ==
    /\ pc = "erase"
    /\ sect' = [sect EXCEPT ![wr.tgt] = Wiped]
    /\ pc' = "magic"
    /\ UNCHANGED <<flag, wr>>

WriteMagic ==
    /\ pc = "magic"
    /\ sect' = [sect EXCEPT ![wr.tgt].magic = TRUE]
    /\ pc' = "copy"
    /\ UNCHANGED <<flag, wr>>

Source == 3 - wr.tgt

\* Fault: fields the caller did not pass are not copied.
NewData_CallerOnly(i) == IF i = wr.f THEN wr.v ELSE Blank

\* The bytes field i of the target gets: the caller's or the source's.
NewData(i) == IF i = wr.f THEN wr.v ELSE sect[Source].data[i]

\* Bytes that are 0xFF need no write: an erased field already has them.
CopySkip ==
    /\ pc = "copy"
    /\ wr.i \in Fields
    /\ NewData(wr.i) = Blank
    /\ wr' = [wr EXCEPT !.i = @ + 1]
    /\ UNCHANGED <<sect, flag, pc>>

CopyHalf ==
    /\ pc = "copy"
    /\ wr.i \in Fields
    /\ NewData(wr.i) # Blank
    /\ sect' = [sect EXCEPT ![wr.tgt].data[wr.i] = Torn]
    /\ pc' = "half"
    /\ UNCHANGED <<flag, wr>>

CopyRest ==
    /\ pc = "half"
    /\ sect' = [sect EXCEPT ![wr.tgt].data[wr.i] = NewData(wr.i)]
    /\ wr' = [wr EXCEPT !.i = @ + 1]
    /\ pc' = "copy"
    /\ UNCHANGED flag

FlagErase ==
    /\ pc = "copy"
    /\ wr.i \notin Fields
    /\ flag' = 0
    /\ pc' = "setflag"
    /\ UNCHANGED <<sect, wr>>

FlagSet ==
    /\ pc = "setflag"
    /\ flag' = wr.tgt
    /\ pc' = "ret"
    /\ UNCHANGED <<sect, wr>>

WriteReturn ==
    /\ pc = "ret"
    /\ pc' = "up"
    /\ wr' = NoWr
    /\ UNCHANGED <<sect, flag>>

PowerFail ==
    /\ pc # "off"
    /\ pc' = "off"
    /\ wr' = NoWr
    /\ UNCHANGED <<sect, flag>>

Next == \/ InitOk \/ InitErase1 \/ InitErase2 \/ InitErase3
        \/ \E f \in Fields, v \in Data : Set(f, v)
        \/ WriteErase \/ WriteMagic \/ CopySkip \/ CopyHalf \/ CopyRest
        \/ FlagErase \/ FlagSet \/ WriteReturn \/ PowerFail

Spec == Init /\ [][Next]_vars

-----------------------------------------------------------------------------
(* Properties                                                              *)

Writing == {"erase", "magic", "copy", "half", "setflag", "ret"}

\* The values the variables range over.
TypeOK == /\ sect \in [1 .. 2 -> Sector]
          /\ flag \in 0 .. 2
          /\ pc \in PC
          /\ wr \in [tgt : 1 .. 2, f : Fields, v : Data, i : 1 .. NumField + 1]

\* What ln_nvds_read returns never comes from a sector that a write erased or
\* filled only in part, whenever it is called and whenever power failed.
NeverTorn == ReadSector # 0 => sect[ReadSector].data \in [Fields -> Data]

\* The record a reader sees
Readable == ReadSector # 0
Record == IF Readable THEN sect[ReadSector].data ELSE [f \in Fields |-> Blank]

\* The store behaves like one record updated atomically (NvdsStore): a write
\* takes effect in a single step, at the erase of the flag when the target
\* is sector 2 and at the new flag when it is sector 1, and a power failure
\* changes nothing.
Store == INSTANCE NvdsStore WITH
    formatted <- Readable,
    rec <- Record,
    req <- IF pc \in Writing THEN <<wr.f, wr.v>> ELSE <<0, Blank>>,
    status <- IF pc = "up" THEN "up"
              ELSE IF pc \in Writing THEN "busy" ELSE "down"
AtomicRecord == Store!Spec

\* The inductive invariant: the target is the sector nobody reads; fields
\* before the copy position are in place and the rest are still erased; an
\* unreadable area is blank once the version is being written.
CopyOk ==
    /\ pc \in {"erase", "magic"} => wr.i = 1
    /\ pc = "magic" => sect[wr.tgt] = Wiped
    /\ pc \in {"copy", "half", "setflag"} => sect[wr.tgt].magic
    /\ pc \in {"copy", "half"} =>
         \A g \in Fields :
            /\ g < wr.i => sect[wr.tgt].data[g] = NewData(g)
            /\ g > wr.i => sect[wr.tgt].data[g] = Blank
    /\ pc = "copy" /\ wr.i \in Fields => sect[wr.tgt].data[wr.i] = Blank
    /\ pc = "half" => wr.i \in Fields
    /\ pc = "setflag" =>
         /\ flag = 0
         /\ \A g \in Fields : sect[wr.tgt].data[g] = NewData(g)
    /\ pc = "ret" => Readable /\ sect[ReadSector].data[wr.f] = wr.v
TargetOk ==
    pc \in {"erase", "magic", "copy", "half"} => (wr.tgt = 2 <=> flag = 1)
AreaOk ==
    /\ flag = 2 => sect[2].magic
    /\ pc = "up" => Readable
    /\ pc \in {"init2", "init3"} => ~Readable
    /\ pc = "init3" \/ (pc \in Writing /\ ~Readable) => sect[2] = Wiped
    /\ pc \notin Writing => wr = NoWr
IInv == TypeOK /\ NeverTorn /\ AreaOk /\ TargetOk /\ CopyOk
=============================================================================
