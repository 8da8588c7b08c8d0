----------------------------- MODULE NvdsProofs -----------------------------
(***************************************************************************)
(* Proofs about Nvds, for any number of fields and any field contents: the *)
(* invariant, that no read returns a half-written sector, and that the     *)
(* store implements NvdsStore.                                             *)
(***************************************************************************)
EXTENDS Nvds, TLAPS

(* The record types of ln_nvds.c's state, spelt out for the provers.       *)
LEMMA WipedType == Wiped \in Sector
  BY DEF Wiped, Sector, Data

LEMMA NoWrType == NoWr \in [tgt : 1 .. 2, f : Fields, v : Data,
                            i : 1 .. NumField + 1]
  BY NvdsConstants DEF NoWr, Fields, Data

(* Writing one field of a sector leaves two well-formed sectors.           *)
LEMMA PutFieldType ==
    ASSUME sect \in [1 .. 2 -> Sector], NEW t \in 1 .. 2, NEW g \in Fields,
           NEW d \in Data \cup {Torn}
    PROVE  [sect EXCEPT ![t].data[g] = d] \in [1 .. 2 -> Sector]
  BY DEF Sector

(* The initial states satisfy the invariant.                               *)
LEMMA InitInv == Init => IInv
  <1> SUFFICES ASSUME Init PROVE IInv
    OBVIOUS
  <1>1. TypeOK
    BY NoWrType DEF Init, TypeOK, PC
  <1>2. ReadSector = 0
    BY DEF Init, ReadSector
  <1>3. NeverTorn
    BY <1>2 DEF NeverTorn
  <1>4. AreaOk
    BY <1>2 DEF Init, AreaOk, Readable, Writing
  <1>5. TargetOk /\ CopyOk
    BY DEF Init, TargetOk, CopyOk
  <1> QED
    BY <1>1, <1>3, <1>4, <1>5 DEF IInv

(* Every step of ln_nvds_init, of a setter and of ln_nvds_write preserves  *)
(* the types of the flash and of the write in progress.                    *)
LEMMA TypeStep == IInv /\ [Next]_vars => TypeOK'
  <1> SUFFICES ASSUME IInv, [Next]_vars PROVE TypeOK'
    OBVIOUS
  <1> USE NvdsConstants DEF IInv, TypeOK
  <1>1. CASE InitOk
    BY <1>1 DEF InitOk, PC
  <1>2. CASE InitErase1
    BY <1>2, WipedType DEF InitErase1, PC
  <1>3. CASE InitErase2
    BY <1>3, WipedType DEF InitErase2, PC
  <1>4. CASE InitErase3
    BY <1>4, NoWrType DEF InitErase3, PC, NoWr
  <1>5. ASSUME NEW f \in Fields, NEW v \in Data, Set(f, v) PROVE TypeOK'
    BY <1>5 DEF Set, StartWrite, PC
  <1>6. CASE WriteErase
    BY <1>6, WipedType DEF WriteErase, PC
  <1>7. CASE WriteMagic
    BY <1>7 DEF WriteMagic, PC, Sector
  <1>8. CASE CopySkip
    BY <1>8 DEF CopySkip, PC, Fields
  <1>9. CASE CopyHalf
    BY <1>9, PutFieldType DEF CopyHalf, PC
  <1>10. CASE CopyRest
    <2>1. NewData(wr.i) \in Data \cup {Torn}
      BY <1>10 DEF NewData, Source, CopyRest, CopyOk, Sector, Fields
    <2>2. wr.i \in Fields /\ wr.tgt \in 1 .. 2
      BY <1>10 DEF CopyRest, CopyOk
    <2>3. sect' \in [1 .. 2 -> Sector]
      BY <1>10, <2>1, <2>2, PutFieldType DEF CopyRest
    <2>4. wr' \in [tgt : 1 .. 2, f : Fields, v : Data, i : 1 .. NumField + 1]
      BY <1>10, <2>2 DEF CopyRest, Fields
    <2> QED
      BY <1>10, <2>3, <2>4 DEF CopyRest, PC
  <1>11. CASE FlagErase
    BY <1>11 DEF FlagErase, PC
  <1>12. CASE FlagSet
    BY <1>12 DEF FlagSet, PC
  <1>13. CASE WriteReturn
    BY <1>13, NoWrType DEF WriteReturn, PC
  <1>14. CASE PowerFail
    BY <1>14, NoWrType DEF PowerFail, PC
  <1>15. CASE UNCHANGED vars
    BY <1>15 DEF vars
  <1> QED
    BY <1>1, <1>2, <1>3, <1>4, <1>5, <1>6, <1>7, <1>8, <1>9, <1>10, <1>11,
       <1>12, <1>13, <1>14, <1>15 DEF Next

(* While a write fills its target, readers use the other sector or none.   *)
LEMMA TargetNotRead ==
    ASSUME IInv, pc \in {"erase", "magic", "copy", "half"}
    PROVE  /\ wr.tgt # ReadSector
           /\ Source # wr.tgt
           /\ Source \in 1 .. 2
           /\ wr.tgt \in 1 .. 2
  BY DEF IInv, TypeOK, TargetOk, ReadSector, Source

(* A change of the target alone changes nothing that a reader sees.        *)
LEMMA ReadStable ==
    ASSUME IInv, pc \in {"erase", "magic", "copy", "half"}, flag' = flag,
           sect'[Source] = sect[Source]
    PROVE  /\ ReadSector' = ReadSector
           /\ Readable => ReadSector = Source
  <1>1. wr.tgt = 2 => ReadSector = 1 /\ Source = 1 /\ flag = 1
    BY DEF IInv, TargetOk, ReadSector, Source
  <1>2. wr.tgt = 1 => flag # 1 /\ ReadSector \in {0, 2} /\ Source = 2
    BY DEF IInv, TypeOK, TargetOk, ReadSector, Source
  <1> QED
    BY <1>1, <1>2 DEF IInv, TypeOK, ReadSector, Readable

(* The bytes a write puts into its target are whole: the caller's, or those *)
(* of the sector that can be read, or blank ones.                          *)
LEMMA NewDataWhole ==
    ASSUME IInv,
           \/ pc \in {"erase", "magic", "copy", "half"}
           \/ pc = "setflag" /\ wr.tgt = 1,
           NEW g \in Fields
    PROVE  NewData(g) \in Data
  <1>1. CASE g = wr.f
    BY <1>1 DEF NewData, IInv, TypeOK
  <1>2. CASE g # wr.f /\ wr.tgt = 2
    <2>1. Source = 1 /\ ReadSector = 1
      BY <1>2 DEF Source, IInv, TargetOk, ReadSector
    <2> QED
      BY <1>2, <2>1 DEF IInv, NeverTorn, NewData
  <1>3. CASE g # wr.f /\ wr.tgt = 1
    <2>1. Source = 2 /\ ReadSector \in {0, 2}
      BY <1>3 DEF Source, IInv, TypeOK, TargetOk, CopyOk, ReadSector
    <2>2. CASE ReadSector = 0
      <3>1. sect[2] = Wiped
        BY <2>2 DEF IInv, AreaOk, Readable, Writing
      <3> QED
        BY <3>1, <2>1, <1>3 DEF NewData, Wiped, Data
    <2>3. CASE ReadSector = 2
      BY <2>1, <2>3, <1>3 DEF IInv, NeverTorn, NewData
    <2> QED
      BY <2>1, <2>2, <2>3
  <1> QED
    BY <1>1, <1>2, <1>3 DEF IInv, TypeOK

(* Steps that only change the target preserve what concerns readers.       *)
LEMMA TargetStep ==
    ASSUME IInv, pc \in {"erase", "magic", "copy", "half"},
           pc' \in {"magic", "copy", "half"}, flag' = flag,
           wr'.tgt = wr.tgt, sect' \in [1 .. 2 -> Sector],
           sect'[Source] = sect[Source]
    PROVE  NeverTorn' /\ AreaOk' /\ TargetOk'
  <1>1. /\ ReadSector' = ReadSector
        /\ Readable => ReadSector = Source
    BY ReadStable
  <1>2. NeverTorn'
    BY <1>1 DEF IInv, NeverTorn, Readable
  <1>3. wr.tgt = 1 => Source = 2
    BY DEF Source
  <1>4. wr.tgt = 2 => flag = 1
    BY DEF IInv, TargetOk
  <1>5. AreaOk'
    BY <1>1, <1>3, <1>4 DEF IInv, TypeOK, AreaOk, Readable, Writing, ReadSector
  <1>6. TargetOk'
    BY DEF IInv, TargetOk
  <1> QED
    BY <1>2, <1>5, <1>6

(* The invariant is inductive: one step per action of ln_nvds_init, the    *)
(* setters and ln_nvds_write.                                              *)
LEMMA InvStep == IInv /\ [Next]_vars => IInv'
  <1> SUFFICES ASSUME IInv, [Next]_vars
               PROVE  NeverTorn' /\ AreaOk' /\ TargetOk' /\ CopyOk'
    BY TypeStep DEF IInv
  <1>0. TypeOK /\ TypeOK'
    BY TypeStep DEF IInv
  <1>1. CASE InitOk
    BY <1>1 DEF InitOk, IInv, NeverTorn, AreaOk, TargetOk, CopyOk, ReadSector,
                Readable, Writing
  <1>2. CASE InitErase1
    BY <1>0, <1>2 DEF TypeOK, InitErase1, IInv, NeverTorn, AreaOk, TargetOk,
                CopyOk, ReadSector, Readable, Writing, Wiped
  <1>3. CASE InitErase2
    BY <1>0, <1>3 DEF TypeOK, InitErase2, IInv, NeverTorn, AreaOk, TargetOk,
                CopyOk, ReadSector, Readable, Writing, Wiped
  <1>4. CASE InitErase3
    BY <1>0, <1>4 DEF TypeOK, InitErase3, IInv, NeverTorn, AreaOk, TargetOk,
                CopyOk, ReadSector, Readable, Writing, Wiped
  <1>5. ASSUME NEW f \in Fields, NEW v \in Data, Set(f, v)
        PROVE  NeverTorn' /\ AreaOk' /\ TargetOk' /\ CopyOk'
    BY <1>0, <1>5 DEF TypeOK, Set, StartWrite, IInv, NeverTorn, AreaOk,
                TargetOk, CopyOk, ReadSector, Readable, Writing
  <1>6. CASE WriteErase
    <2>1. NeverTorn' /\ AreaOk' /\ TargetOk'
      BY <1>0, <1>6, TargetNotRead, TargetStep DEF WriteErase, TypeOK
    <2>2. sect'[wr.tgt] = Wiped /\ wr' = wr /\ wr.i = 1
      BY <1>0, <1>6, TargetNotRead DEF WriteErase, TypeOK, IInv, CopyOk
    <2>3. CopyOk'
      BY <1>6, <2>2 DEF WriteErase, CopyOk
    <2> QED
      BY <2>1, <2>3
  <1>7. CASE WriteMagic
    <2>1. NeverTorn' /\ AreaOk' /\ TargetOk'
      BY <1>0, <1>7, TargetNotRead, TargetStep DEF WriteMagic, TypeOK
    <2>2. /\ sect'[wr.tgt].magic
          /\ \A g \in Fields : sect'[wr.tgt].data[g] = Blank
      BY <1>0, <1>7 DEF WriteMagic, IInv, CopyOk, TypeOK, Wiped, Sector
    <2>3. wr' = wr /\ wr.i = 1
      BY <1>7 DEF WriteMagic, IInv, CopyOk
    <2>4. CopyOk'
      BY <1>7, <2>2, <2>3 DEF WriteMagic, CopyOk, Fields
    <2> QED
      BY <2>1, <2>4
  <1>8. CASE CopySkip
    <2>1. NeverTorn' /\ AreaOk' /\ TargetOk'
      BY <1>0, <1>8, TargetStep DEF CopySkip, TypeOK
    <2>2. /\ wr'.f = wr.f /\ wr'.v = wr.v /\ wr'.tgt = wr.tgt
          /\ wr'.i = wr.i + 1 /\ wr.i \in Nat
      BY <1>0, <1>8 DEF CopySkip, TypeOK
    <2>3. \A g \in Fields : NewData(g)' = NewData(g)
      BY <1>8, <2>2 DEF CopySkip, NewData, Source
    <2>4. \A g \in Fields : g < wr'.i => sect'[wr'.tgt].data[g] = NewData(g)'
      BY <1>8, <2>2, <2>3 DEF CopySkip, IInv, CopyOk, Fields
    <2>5. \A g \in Fields : g >= wr'.i => sect'[wr'.tgt].data[g] = Blank
      BY <1>8, <2>2 DEF CopySkip, IInv, CopyOk, Fields
    <2>6. pc' = "copy" /\ sect'[wr'.tgt].magic
      BY <1>8, <2>2 DEF CopySkip, IInv, CopyOk
    <2>7. CopyOk'
      BY <1>0, <2>4, <2>5, <2>6 DEF CopyOk, Fields, TypeOK
    <2> QED
      BY <2>1, <2>7
  <1>9. CASE CopyHalf
    <2>1. /\ sect'[Source] = sect[Source]
          /\ sect'[wr.tgt].magic = sect[wr.tgt].magic
          /\ \A g \in Fields \ {wr.i} :
                sect'[wr.tgt].data[g] = sect[wr.tgt].data[g]
      BY <1>0, <1>9, TargetNotRead DEF CopyHalf, TypeOK, Sector
    <2>2. NeverTorn' /\ AreaOk' /\ TargetOk'
      BY <1>0, <1>9, <2>1, TargetStep DEF CopyHalf, TypeOK
    <2>3. wr' = wr /\ \A g \in Fields : NewData(g)' = NewData(g)
      <3>1. wr' = wr /\ sect'[Source] = sect[Source]
        BY <1>9, <2>1 DEF CopyHalf
      <3> QED
        BY <3>1 DEF NewData, Source
    <2>4. CopyOk'
      BY <1>0, <1>9, <2>1, <2>3 DEF CopyHalf, IInv, CopyOk, TypeOK, Fields
    <2> QED
      BY <2>2, <2>4
  <1>10. CASE CopyRest
    <2>1. /\ sect'[Source] = sect[Source]
          /\ sect'[wr.tgt].magic = sect[wr.tgt].magic
          /\ sect'[wr.tgt].data[wr.i] = NewData(wr.i)
          /\ \A g \in Fields \ {wr.i} :
                sect'[wr.tgt].data[g] = sect[wr.tgt].data[g]
      BY <1>0, <1>10, TargetNotRead DEF CopyRest, TypeOK, Sector, IInv, CopyOk
    <2>2. /\ wr'.f = wr.f /\ wr'.v = wr.v /\ wr'.tgt = wr.tgt
          /\ wr'.i = wr.i + 1 /\ wr.i \in Nat
      BY <1>0, <1>10 DEF CopyRest, TypeOK
    <2>3. NeverTorn' /\ AreaOk' /\ TargetOk'
      BY <1>0, <1>10, <2>1, <2>2, TargetStep DEF CopyRest, TypeOK
    <2>4. \A g \in Fields : NewData(g)' = NewData(g)
      BY <1>10, <2>1, <2>2 DEF CopyRest, NewData, Source
    <2>5. \A g \in Fields : g < wr'.i => sect'[wr'.tgt].data[g] = NewData(g)'
      BY <1>10, <2>1, <2>2, <2>4 DEF CopyRest, IInv, CopyOk, Fields
    <2>6. \A g \in Fields : g >= wr'.i => sect'[wr'.tgt].data[g] = Blank
      BY <1>10, <2>1, <2>2 DEF CopyRest, IInv, CopyOk, Fields
    <2>7. pc' = "copy" /\ sect'[wr'.tgt].magic
      BY <1>10, <2>1, <2>2 DEF CopyRest, IInv, CopyOk
    <2>8. CopyOk'
      BY <1>0, <2>5, <2>6, <2>7 DEF CopyOk, Fields, TypeOK
    <2> QED
      BY <2>3, <2>8
  <1>11. CASE FlagErase
    <2>1. wr.i = NumField + 1
      BY <1>0, <1>11, NvdsConstants DEF FlagErase, TypeOK, Fields
    <2>2. \A g \in Fields : sect[wr.tgt].data[g] = NewData(g)
      BY <1>11, <2>1, NvdsConstants DEF FlagErase, IInv, CopyOk, Fields
    <2>3. \A g \in Fields : sect[wr.tgt].data[g] \in Data
      BY <1>11, <2>2, NewDataWhole DEF FlagErase
    <2>4. wr' = wr /\ sect' = sect /\ flag' = 0 /\ pc' = "setflag"
      BY <1>11 DEF FlagErase
    <2>5. CopyOk'
      BY <1>11, <2>2, <2>4 DEF FlagErase, IInv, CopyOk, NewData, Source
    <2>6. TargetOk'
      BY <2>4 DEF TargetOk
    <2>7. CASE wr.tgt = 2
      <3>1. ReadSector' = 2
        BY <1>11, <2>4, <2>7 DEF FlagErase, ReadSector, IInv, CopyOk
      <3>2. NeverTorn'
        BY <1>0, <2>3, <2>4, <2>7, <3>1 DEF NeverTorn, TypeOK, Sector
      <3>3. AreaOk'
        BY <2>4, <3>1 DEF AreaOk, Readable, Writing
      <3> QED
        BY <2>5, <2>6, <3>2, <3>3
    <2>8. CASE wr.tgt = 1
      <3>1. flag # 1 /\ ReadSector' = ReadSector
        BY <1>0, <1>11, <2>4, <2>8 DEF FlagErase, ReadSector, IInv, TargetOk,
                                       AreaOk, TypeOK
      <3>2. NeverTorn'
        BY <2>4, <3>1 DEF NeverTorn, IInv
      <3>3. AreaOk'
        BY <1>11, <2>4, <3>1 DEF FlagErase, AreaOk, Readable, Writing, IInv
      <3> QED
        BY <2>5, <2>6, <3>2, <3>3
    <2> QED
      BY <1>0, <2>7, <2>8 DEF TypeOK
  <1>12. CASE FlagSet
    <2>1. /\ wr' = wr /\ sect' = sect /\ flag' = wr.tgt /\ pc' = "ret"
          /\ wr.tgt \in 1 .. 2
      BY <1>0, <1>12 DEF FlagSet, TypeOK
    <2>2. ReadSector' = wr.tgt /\ wr.tgt # 0
      BY <2>1 DEF ReadSector
    <2>3. \A g \in Fields : sect[wr.tgt].data[g] = NewData(g)
      BY <1>12 DEF FlagSet, IInv, CopyOk
    <2>4. \A g \in Fields : sect[wr.tgt].data[g] \in Data
      <3>1. CASE wr.tgt = 1
        BY <1>12, <2>3, <3>1, NewDataWhole DEF FlagSet
      <3>2. CASE wr.tgt = 2
        <4>1. ReadSector = 2
          BY <1>12, <3>2 DEF FlagSet, ReadSector, IInv, CopyOk
        <4> QED
          BY <3>2, <4>1 DEF IInv, NeverTorn
      <3> QED
        BY <2>1, <3>1, <3>2
    <2>5. NeverTorn'
      BY <1>0, <2>1, <2>2, <2>4 DEF NeverTorn, TypeOK, Sector
    <2>6. AreaOk' /\ TargetOk'
      BY <1>12, <2>1, <2>2 DEF FlagSet, AreaOk, TargetOk, Readable, Writing,
                               IInv, CopyOk
    <2>7. sect[wr.tgt].data[wr.f] = wr.v
      BY <1>0, <2>3 DEF TypeOK, NewData
    <2>8. CopyOk'
      BY <2>1, <2>2, <2>7 DEF CopyOk, Readable
    <2> QED
      BY <2>5, <2>6, <2>8
  <1>13. CASE WriteReturn
    BY <1>13 DEF WriteReturn, IInv, NeverTorn, AreaOk, TargetOk, CopyOk,
                 ReadSector, Readable, Writing
  <1>14. CASE PowerFail
    BY <1>14 DEF PowerFail, IInv, NeverTorn, AreaOk, TargetOk, CopyOk,
                 ReadSector, Readable, Writing
  <1>15. CASE UNCHANGED vars
    BY <1>15 DEF vars, IInv, NeverTorn, AreaOk, TargetOk, CopyOk, ReadSector,
                 Readable, NewData, Source
  <1> QED
    BY <1>1, <1>2, <1>3, <1>4, <1>5, <1>6, <1>7, <1>8, <1>9, <1>10, <1>11,
       <1>12, <1>13, <1>14, <1>15 DEF Next

(* The inductive invariant of the store holds in every reachable state.    *)
THEOREM Invariant == Spec => []IInv
  BY InitInv, InvStep, PTL DEF Spec

(* The flash of the store and the write in progress keep their types.      *)
THEOREM TypeCorrect == Spec => []TypeOK
  <1>1. IInv => TypeOK
    BY DEF IInv
  <1> QED
    BY <1>1, Invariant, PTL

(* ln_nvds_read never returns bytes of a sector that is only partly        *)
(* written, whenever power failed during ln_nvds_write.                    *)
THEOREM ReadsWhole == Spec => []NeverTorn
  <1>1. IInv => NeverTorn
    BY DEF IInv
  <1> QED
    BY <1>1, Invariant, PTL

-----------------------------------------------------------------------------
(* The record a reader sees stays the same while a write fills its target. *)
LEMMA FillIsStutter ==
    ASSUME IInv, pc \in {"erase", "magic", "copy", "half"},
           pc' \in {"magic", "copy", "half"}, flag' = flag,
           wr'.f = wr.f, wr'.v = wr.v, sect'[Source] = sect[Source]
    PROVE  UNCHANGED Store!vars
  <1>1. ReadSector' = ReadSector /\ (Readable => ReadSector = Source)
    BY ReadStable
  <1>2. Readable' = Readable /\ Record' = Record
    BY <1>1 DEF Readable, Record
  <1> QED
    BY <1>2 DEF Store!vars, Writing

(* An unformatted area maps to the abstract initial state.                 *)
LEMMA StoreInit == Init => Store!Init
  BY DEF Init, Store!Init, Readable, Record, ReadSector, Writing, Store!Fields,
         Fields, Store!NoReq

(* Every step of the store is a step of the atomic record or leaves it     *)
(* alone.                                                                  *)
LEMMA StoreStep == IInv /\ IInv' /\ [Next]_vars => [Store!Next]_(Store!vars)
  <1> SUFFICES ASSUME IInv, IInv', [Next]_vars
               PROVE  Store!Next \/ UNCHANGED Store!vars
    OBVIOUS
  <1>0. TypeOK /\ TypeOK'
    BY DEF IInv
  <1>1. CASE InitOk
    <2>1. Readable /\ Readable' /\ Record' = Record
      BY <1>1 DEF InitOk, Readable, Record, ReadSector
    <2>2. Store!Restart
      BY <1>1, <2>1 DEF InitOk, Store!Restart, Writing
    <2> QED
      BY <2>2 DEF Store!Next
  <1>2. CASE InitErase1
    <2>1. ~Readable /\ ~Readable'
      BY <1>2 DEF InitErase1, Readable, IInv, AreaOk
    <2>2. Readable' = Readable /\ Record' = Record
      BY <2>1 DEF Readable, Record
    <2> QED
      BY <1>2, <2>2 DEF InitErase1, Store!vars, Writing
  <1>3. CASE InitErase2
    <2>1. ~Readable /\ ~Readable'
      BY <1>3 DEF InitErase2, IInv, AreaOk
    <2>2. Readable' = Readable /\ Record' = Record
      BY <2>1 DEF Readable, Record
    <2> QED
      BY <1>3, <2>2 DEF InitErase2, Store!vars, Writing
  <1>4. CASE InitErase3
    <2>1. ~Readable /\ sect[2] = Wiped
      BY <1>4 DEF InitErase3, IInv, AreaOk
    <2>2. ~Readable'
      BY <1>4, <2>1 DEF InitErase3, Readable, ReadSector, Wiped
    <2>3. Readable' = Readable /\ Record' = Record
      BY <2>1, <2>2 DEF Readable, Record
    <2>4. Store!Format
      BY <1>4, <2>1, <2>3 DEF InitErase3, Store!Format, Writing
    <2> QED
      BY <2>4 DEF Store!Next
  <1>5. ASSUME NEW f \in Fields, NEW v \in Data, Set(f, v)
        PROVE  Store!Next
    <2>1. Readable' = Readable /\ Record' = Record
      BY <1>5 DEF Set, Readable, Record, ReadSector
    <2>2. Store!Request(f, v)
      BY <1>5, <2>1 DEF Set, StartWrite, Store!Request, Writing
    <2> QED
      BY <2>2 DEF Store!Next, Store!Fields, Fields, Store!Data, Data
  <1>6. CASE WriteErase
    BY <1>0, <1>6, TargetNotRead, FillIsStutter DEF WriteErase, TypeOK
  <1>7. CASE WriteMagic
    BY <1>0, <1>7, TargetNotRead, FillIsStutter DEF WriteMagic, TypeOK
  <1>8. CASE CopySkip
    BY <1>0, <1>8, FillIsStutter DEF CopySkip, TypeOK
  <1>9. CASE CopyHalf
    <2>1. sect'[Source] = sect[Source]
      BY <1>0, <1>9, TargetNotRead DEF CopyHalf, TypeOK
    <2> QED
      BY <1>9, <2>1, FillIsStutter DEF CopyHalf
  <1>10. CASE CopyRest
    <2>1. sect'[Source] = sect[Source]
      BY <1>0, <1>10, TargetNotRead DEF CopyRest, TypeOK
    <2> QED
      BY <1>0, <1>10, <2>1, FillIsStutter DEF CopyRest, TypeOK
  <1>11. CASE FlagErase
    <2>1. /\ wr' = wr /\ sect' = sect /\ flag' = 0
          /\ pc = "copy" /\ pc' = "setflag"
          /\ \A g \in Fields : sect[wr.tgt].data[g] = NewData(g)
      BY <1>11 DEF FlagErase, IInv, CopyOk, NewData, Source
    <2>2. CASE wr.tgt = 2
      <3>1. Source = 1 /\ ReadSector = 1 /\ ReadSector' = 2
        BY <2>1, <2>2 DEF Source, IInv, TargetOk, ReadSector, CopyOk
      <3>2. Readable' /\ Record = sect[1].data /\ Record' = sect[2].data
        BY <2>1, <3>1 DEF Readable, Record
      <3>3. Record' = [Record EXCEPT ![wr.f] = wr.v]
        <4>1. Record \in [Fields -> Data] /\ Record' \in [Fields -> Data]
          BY <3>1, <3>2, <2>1 DEF IInv, NeverTorn
        <4>2. \A g \in Fields : Record'[g] = IF g = wr.f THEN wr.v ELSE Record[g]
          BY <2>1, <2>2, <3>1, <3>2 DEF NewData
        <4> QED
          BY <4>1, <4>2
      <3>4. Store!Apply
        BY <2>1, <3>2, <3>3 DEF Store!Apply, Writing, Readable
      <3> QED
        BY <3>4 DEF Store!Next
    <2>3. CASE wr.tgt = 1
      <3>1. ReadSector' = ReadSector
        BY <1>0, <2>1, <2>3 DEF ReadSector, IInv, TargetOk, AreaOk, TypeOK
      <3>2. Readable' = Readable /\ Record' = Record
        BY <2>1, <3>1 DEF Readable, Record
      <3> QED
        BY <2>1, <3>2 DEF Store!vars, Writing
    <2> QED
      BY <1>0, <2>2, <2>3 DEF TypeOK
  <1>12. CASE FlagSet
    <2>1. /\ wr' = wr /\ sect' = sect /\ flag' = wr.tgt /\ flag = 0
          /\ pc = "setflag" /\ pc' = "ret"
          /\ \A g \in Fields : sect[wr.tgt].data[g] = NewData(g)
      BY <1>12 DEF FlagSet, IInv, CopyOk
    <2>2. CASE wr.tgt = 2
      <3>1. ReadSector = 2 /\ ReadSector' = 2
        BY <2>1, <2>2 DEF IInv, ReadSector, CopyOk
      <3>2. Readable' = Readable /\ Record' = Record
        BY <2>1, <3>1 DEF Readable, Record
      <3> QED
        BY <2>1, <3>2 DEF Store!vars, Writing
    <2>3. CASE wr.tgt = 1
      <3>1. Source = 2 /\ ReadSector \in {0, 2} /\ ReadSector' = 1
        BY <2>1, <2>3 DEF Source, ReadSector
      <3>2. Readable' /\ Record' = sect[1].data
        BY <2>1, <3>1 DEF Readable, Record
      <3>3. Record \in [Fields -> Data]
            /\ \A g \in Fields : Record[g] = sect[2].data[g]
        <4>1. CASE ReadSector = 0
          <5>1. sect[2] = Wiped
            BY <2>1, <4>1 DEF IInv, AreaOk, Readable, Writing
          <5> QED
            BY <4>1, <5>1 DEF Record, Readable, Wiped, Data
        <4>2. CASE ReadSector = 2
          BY <4>2 DEF Record, Readable, IInv, NeverTorn
        <4> QED
          BY <3>1, <4>1, <4>2
      <3>4. Record' = [Record EXCEPT ![wr.f] = wr.v]
        <4>1. Record' \in [Fields -> Data]
          BY <3>1, <3>2, <2>1 DEF IInv, NeverTorn
        <4>2. \A g \in Fields : Record'[g] = IF g = wr.f THEN wr.v ELSE Record[g]
          BY <2>1, <2>3, <3>1, <3>2, <3>3 DEF NewData
        <4> QED
          BY <3>3, <4>1, <4>2
      <3>5. Store!Apply
        BY <2>1, <3>2, <3>4 DEF Store!Apply, Writing, Readable
      <3> QED
        BY <3>5 DEF Store!Next
    <2> QED
      BY <1>0, <2>2, <2>3 DEF TypeOK
  <1>13. CASE WriteReturn
    <2>1. /\ Readable /\ Readable' /\ Record' = Record
          /\ Record[wr.f] = wr.v
      BY <1>13 DEF WriteReturn, Readable, Record, ReadSector, IInv, CopyOk
    <2>2. Store!Return
      BY <1>13, <2>1 DEF WriteReturn, Store!Return, Writing, Store!NoReq
    <2> QED
      BY <2>2 DEF Store!Next
  <1>14. CASE PowerFail
    <2>1. Readable' = Readable /\ Record' = Record
      BY <1>14 DEF PowerFail, Readable, Record, ReadSector
    <2>2. Store!PowerFail
      BY <1>14, <2>1 DEF PowerFail, Store!PowerFail, Writing, Store!NoReq
    <2> QED
      BY <2>2 DEF Store!Next
  <1>15. CASE UNCHANGED vars
    BY <1>15 DEF vars, Store!vars, Readable, Record, ReadSector
  <1> QED
    BY <1>1, <1>2, <1>3, <1>4, <1>5, <1>6, <1>7, <1>8, <1>9, <1>10, <1>11,
       <1>12, <1>13, <1>14, <1>15 DEF Next

(* The two flash sectors and the flag implement one record that a write    *)
(* changes atomically: the refinement that ln_nvds_write is built for.     *)
THEOREM Refinement == Spec => AtomicRecord
  <1>1. Spec => []IInv
    BY Invariant
  <1>2. Init => Store!Init
    BY StoreInit
  <1>3. IInv /\ IInv' /\ [Next]_vars => [Store!Next]_(Store!vars)
    BY StoreStep
  <1> QED
    BY <1>1, <1>2, <1>3, PTL DEF Spec, AtomicRecord, Store!Spec
=============================================================================
