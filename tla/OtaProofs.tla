------------------------------ MODULE OtaProofs ------------------------------
(***************************************************************************)
(* Proofs about Ota, for any images, partition sizes, callback lengths and *)
(* number of power failures.  Where a theorem needs that no file is too    *)
(* short to be prechecked, LongFiles is its hypothesis.                    *)
(***************************************************************************)
EXTENDS Ota, TLAPS

(* The constants as the arithmetic of the download needs them: a sector    *)
(* has at least two bytes and there is a sector 0.                         *)
LEMMA ConstantFacts ==
    /\ SectorSize \in Nat /\ SectorSize >= 2
    /\ OtaSectors \in Nat /\ NumBeyond \in Nat /\ OtaSectors + NumBeyond >= 1
    /\ \A i \in Images : /\ Info[i].file \in Nat \ {0}
                         /\ Info[i].orig \in Nat
                         /\ Info[i].ver \in Nat
                         /\ Info[i].kind \in Kinds
  <1>1. \A i \in Images : /\ Info[i].file \in Nat \ {0}
                          /\ Info[i].orig \in Nat
                          /\ Info[i].ver \in Nat
                          /\ Info[i].kind \in Kinds
    BY OtaConstants DEF Header
  <1>2. SectorSize \in Nat \ {0} /\ OtaSectors \in Nat /\ NumBeyond \in Nat
    BY OtaConstants, OtaEnv
  <1>3. Info[Installed].file < (OtaSectors + NumBeyond) * (SectorSize - 1)
    BY OtaEnv
  <1>4. OtaSectors + NumBeyond # 0 /\ SectorSize # 1
    BY <1>1, <1>2, <1>3, OtaEnv
  <1> QED
    BY <1>1, <1>2, <1>4

(* Sector counts are positive for a file that is not empty.                *)
LEMMA SectorsPositive == \A n \in Nat \ {0} : SectorsOf(n) \in Nat \ {0}
  BY OtaConstants DEF SectorsOf

LEMMA SectorsNat == \A n \in Nat : SectorsOf(n) \in Nat
  BY OtaConstants DEF SectorsOf

(* A partition that verifies holds the file its first sector names.        *)
LEMMA HoldsNames ==
    ASSUME NEW o, NEW i \in Images, HoldsFile(o, i)
    PROVE  o[0].img = i
  <1>1. 0 \in 0 .. SectorsOf(Info[i].file) - 1
    BY ConstantFacts, SectorsPositive
  <1>2. o[0] = Piece(i, 0)
    BY <1>1 DEF HoldsFile
  <1> QED
    BY <1>2 DEF Piece

LEMMA OtaNames == OtaOk => OtaImg \in Images /\ HoldsFile(ota, OtaImg)
  BY HoldsNames DEF OtaOk, OtaImg

LEMMA AppNames == AppOk => app.hdr \in Images /\ Holds(app, app.hdr)
  BY DEF AppOk, Holds

LEMMA PartsNat == \A i \in Images : Parts(i) \in Nat
  BY ConstantFacts, SectorsNat DEF Parts

LEMMA HoldsApp ==
    ASSUME NEW i \in Images, app = [hdr |-> i, img |-> i, n |-> Parts(i)]
    PROVE  AppOk
  BY DEF AppOk, Holds

(* What does not touch a partition does not change what it holds.          *)
LEMMA SameApp == app' = app => AppOk' = AppOk
  BY DEF AppOk

LEMMA SameOta == ota' = ota => OtaOk' = OtaOk /\ OtaImg' = OtaImg
  BY DEF OtaOk, OtaImg

LEMMA NoDlType == NoDl \in Dl
  <1>1. 0 \in 0 .. SectorSize /\ 0 \in AllSectors /\ 0 \in Nat
    BY ConstantFacts DEF AllSectors
  <1> QED
    BY <1>1, Zenon DEF NoDl, Dl, DlState

-----------------------------------------------------------------------------
(* The shipped device satisfies the invariant.                             *)
LEMMA InitInv == Init => IInv
  <1> SUFFICES ASSUME Init PROVE IInv
    OBVIOUS
  <1>1. app \in App
    BY PartsNat, OtaEnv DEF Init, App
  <1>2. ota \in [AllSectors -> Sector]
    <2>1. Empty \in Sector /\ Foreign \in Sector
      BY ConstantFacts DEF Empty, Foreign, Sector
    <2> QED
      BY <2>1 DEF Init
  <1>3. TypeOK
    BY <1>1, <1>2, NoDlType, OtaEnv DEF Init, TypeOK, Upg, PC
  <1>4. AppOk
    BY HoldsApp, OtaEnv DEF Init
  <1>5. Waiting /\ Restoring
    BY <1>4 DEF Init, Waiting, Restoring
  <1>6. Downloading
    BY DEF Init, Downloading, NoDl
  <1> QED
    BY <1>3, <1>5, <1>6 DEF IInv

-----------------------------------------------------------------------------
(* The branches of ota_boot_upgrade_agent.                                 *)
LEMMA BootStep ==
    ASSUME IInv,
           BootApp \/ BootRestore \/ BootNotNewer
    PROVE  IInv'
  <1> USE DEF IInv
  <1>1. app' = app /\ ota' = ota /\ fails' = fails /\ pc = "off" /\ dl = NoDl
    BY DEF BootApp, BootRestore, BootNotNewer,
           Downloading
  <1>2. AppOk' = AppOk /\ OtaOk' = OtaOk /\ OtaImg' = OtaImg
    BY <1>1, SameApp, SameOta
  <1>3. dl' = NoDl
    BY <1>1 DEF BootApp, BootRestore, BootNotNewer, VerifyAndJump, Jump
  <1>4. \/ pc' = "app" /\ upg' = upg /\ upg # "download_ok" /\ AppOk
        \/ pc' = "app" /\ upg' = "restore_ok" /\ AppOk
        \/ pc' = "erase" /\ upg' = upg /\ upg = "download_ok"
    <2>1. CASE BootApp
      BY <2>1 DEF BootApp, VerifyAndJump, Jump, Waiting
    <2>2. CASE BootRestore
      BY <2>2 DEF BootRestore
    <2>3. CASE BootNotNewer
      <3>1. OtaImg \in Images /\ app.hdr \in Images
        BY <2>3, OtaNames, AppNames DEF BootNotNewer
      <3>2. Ver(OtaImg) \in Nat /\ Ver(app.hdr) \in Nat
        BY <3>1, ConstantFacts DEF Ver
      <3>3. OtaImg = app.hdr
        BY <2>3, <3>2 DEF BootNotNewer, Waiting
      <3> QED
        BY <2>3, <3>3 DEF BootNotNewer, Jump
    <2> QED
      BY <2>1, <2>2, <2>3
  <1>5. TypeOK'
    BY <1>1, <1>3, <1>4, NoDlType DEF TypeOK, PC, Upg
  <1>6. Waiting'
    BY <1>1, <1>2, <1>4 DEF Waiting
  <1>7. Restoring'
    BY <1>1, <1>2, <1>4 DEF Restoring
  <1>8. Downloading'
    BY <1>3, <1>4 DEF Downloading, NoDl
  <1> QED
    BY <1>5, <1>6, <1>7, <1>8
-----------------------------------------------------------------------------
(* The steps of restore_image.                                             *)
LEMMA RestoreStep ==
    ASSUME IInv, RestoreErase \/ RestoreHeader \/ RestoreBody \/ RestoreDone
    PROVE  IInv'
  <1> USE DEF IInv
  <1>1. pc \in {"erase", "erased", "copy"} /\ ota' = ota /\ fails' = fails
    BY DEF RestoreErase, RestoreHeader, RestoreBody, RestoreDone
  <1>2. upg = "download_ok" /\ dl = NoDl
    BY <1>1 DEF Restoring, Downloading
  <1>3. OtaOk /\ OtaImg \in Images /\ Info[OtaImg].kind # "diff"
    BY <1>2, OtaNames DEF Waiting
  <1>4. OtaOk' = OtaOk /\ OtaImg' = OtaImg
    BY <1>1, SameOta
  <1>5. app \in App /\ Parts(OtaImg) \in Nat /\ NoImg \notin Images
    BY <1>3, PartsNat, OtaConstants DEF TypeOK
  <1>6. CASE RestoreErase \/ RestoreHeader \/ RestoreBody
    <2>1. upg' = upg /\ dl' = dl
      BY <1>3, <1>6 DEF RestoreErase, RestoreHeader, RestoreBody
    <2>2. app' \in App /\ (app'.hdr = NoImg \/ app'.hdr = OtaImg)
      BY <1>3, <1>5, <1>6 DEF RestoreErase, RestoreHeader, RestoreBody, App,
                              Restoring
    <2>3. pc' \in {"erased", "copy"}
      BY <1>3, <1>6 DEF RestoreErase, RestoreHeader, RestoreBody
    <2>4. pc' = "copy" => /\ app'.hdr = OtaImg
                          /\ app'.img = OtaImg
                          /\ app'.n <= Parts(OtaImg)
      <3>1. CASE RestoreErase
        BY <3>1 DEF RestoreErase
      <3>2. CASE RestoreHeader
        BY <1>3, <1>5, <3>2 DEF RestoreHeader
      <3>3. CASE RestoreBody
        <4>1. app.n \in Nat /\ app.n < Parts(OtaImg)
          BY <1>5, <3>3 DEF RestoreBody, App, Restoring
        <4> QED
          BY <1>5, <3>3, <4>1 DEF RestoreBody, App, Restoring
      <3> QED
        BY <1>6, <3>1, <3>2, <3>3
    <2>5. TypeOK'
      BY <1>1, <2>1, <2>2, <2>3 DEF TypeOK, PC
    <2>6. Waiting'
      <3>1. AppOk' => app'.hdr \in Images
        BY DEF AppOk, Holds
      <3> QED
        BY <1>2, <1>3, <1>4, <1>5, <2>1, <2>2, <3>1 DEF Waiting
    <2>7. Restoring'
      <3>1. Parts(OtaImg)' = Parts(OtaImg)
        BY <1>4 DEF Parts
      <3> QED
        BY <1>2, <1>4, <2>1, <2>3, <2>4, <3>1 DEF Restoring
    <2>8. Downloading'
      BY <1>2, <2>1, <2>3 DEF Downloading, NoDl
    <2> QED
      BY <2>5, <2>6, <2>7, <2>8
  <1>7. CASE RestoreDone
    <2>1. app = [hdr |-> OtaImg, img |-> OtaImg, n |-> Parts(OtaImg)]
      BY <1>5, <1>7 DEF RestoreDone, Restoring, App
    <2>2. AppOk
      BY <1>3, <2>1, HoldsApp
    <2>3. AppOk'
      BY <1>7, <2>2, SameApp DEF RestoreDone
    <2>4. TypeOK'
      BY <1>1, <1>7, NoDlType DEF RestoreDone, Jump, TypeOK, PC, Upg
    <2>5. Waiting' /\ Restoring'
      BY <1>7, <2>3 DEF RestoreDone, Jump, Waiting, Restoring
    <2>6. Downloading'
      BY <1>7 DEF RestoreDone, Jump, Downloading, NoDl
    <2> QED
      BY <2>4, <2>5, <2>6
  <1> QED
    BY <1>6, <1>7

-----------------------------------------------------------------------------
(* A step of the download task that leaves application and upgrade state   *)
(* alone keeps the device as startable as it was.                          *)
LEMMA DownloadKeeps ==
    ASSUME IInv, pc = "app", dl.st # "reboot",
           app' = app, upg' = upg, pc' = pc
    PROVE  Waiting' /\ Restoring' /\ upg # "download_ok"
  <1>1. AppOk /\ upg # "download_ok"
    BY DEF IInv, Restoring, Downloading
  <1>2. AppOk'
    BY <1>1, SameApp
  <1> QED
    BY <1>1, <1>2 DEF Waiting, Restoring

LEMMA SamePrecheck ==
    ASSUME app' = app, dl'.img = dl.img
    PROVE  Precheck(dl.img)' = Precheck(dl.img)
  BY DEF Precheck, Ver

LEMMA MulLess ==
    ASSUME NEW n \in Nat, NEW m \in Nat, NEW k \in Nat, n * k < m * k
    PROVE  n < m
  OBVIOUS

(* The buffer after n more bytes                                           *)
LEMMA FilledFacts ==
    ASSUME dl \in Dl, NEW n \in RecvSizes
    PROVE  /\ n \in 1 .. SectorSize
           /\ Filled(n) \in 0 .. SectorSize
           /\ Left(n) \in 0 .. SectorSize
           /\ Filled(n) + Left(n) = dl.off + n
           /\ Filled(n) < SectorSize - 1 => Filled(n) = dl.off + n
           /\ Filled(n) >= dl.off
  <1>1. dl.off \in 0 .. SectorSize /\ n \in 1 .. SectorSize
    BY OtaEnv DEF Dl
  <1> QED
    BY <1>1, ConstantFacts DEF Filled, Left
-----------------------------------------------------------------------------
(* The download task.                                                      *)

(* ota_persistent_start forgets everything but the two result flags.       *)
LEMMA StartStep ==
    ASSUME IInv, NEW i \in Images, StartGet(i)
    PROVE  IInv'
  <1> USE DEF IInv
  <1>1. Waiting' /\ Restoring' /\ upg # "download_ok"
    BY DownloadKeeps DEF StartGet
  <1>2. dl \in Dl /\ ~dl.ready
    BY DEF TypeOK, Downloading, StartGet
  <1>3. 0 \in 0 .. SectorSize /\ 0 \in AllSectors
    BY ConstantFacts DEF AllSectors
  <1>4. dl' = [dl EXCEPT !.st = "get", !.img = i, !.pos = 0, !.from = 0,
                         !.off = 0, !.part = 0, !.sect = 0]
    BY DEF StartGet
  <1>5. dl' \in Dl
    BY <1>2, <1>3, <1>4 DEF Dl, DlState
  <1>6. TypeOK'
    BY <1>5 DEF StartGet, TypeOK
  <1>7. /\ dl'.st = "get" /\ dl'.img = i /\ dl'.pos = 0 /\ dl'.off = 0
        /\ dl'.part = 0 /\ dl'.sect = 0 /\ ~dl'.ready
    BY <1>2, <1>4 DEF Dl
  <1>8. Info[i].file \in Nat /\ SectorSize \in Nat /\ SectorSize >= 2
    BY ConstantFacts
  <1>9. Downloading'
    BY <1>1, <1>7, <1>8 DEF Downloading, StartGet
  <1> QED
    BY <1>1, <1>6, <1>9

(* Data that stays in the buffer, or that the precheck rejects.            *)
LEMMA RecvStep ==
    ASSUME IInv, LongFiles, NEW n \in RecvSizes, Recv(n)
    PROVE  IInv'
  <1> USE DEF IInv
  <1>1. Waiting' /\ Restoring' /\ upg # "download_ok"
    BY DownloadKeeps DEF Recv
  <1>2. dl \in Dl /\ ~dl.ready /\ dl.st = "get" /\ pc = "app"
    BY DEF TypeOK, Downloading, Recv
  <1>3. /\ dl.pos \in Nat /\ dl.off \in 0 .. SectorSize
        /\ dl.part \in 0 .. SectorSize /\ dl.sect \in AllSectors
        /\ dl.sect \in Nat
    BY <1>2, ConstantFacts DEF Dl, AllSectors
  <1>4. /\ n \in 1 .. SectorSize
        /\ Filled(n) \in 0 .. SectorSize
        /\ Filled(n) <= dl.off + n
        /\ Filled(n) < SectorSize - 1 => Filled(n) = dl.off + n
        /\ Filled(n) >= dl.off
    BY <1>2, FilledFacts, ConstantFacts DEF Dl
  <1>5. /\ dl'.st = "get" /\ dl'.img = dl.img /\ dl'.pos = dl.pos + n
        /\ dl'.off = Filled(n) /\ dl'.part = dl.part /\ dl'.sect = dl.sect
        /\ dl'.ready = dl.ready
    BY <1>2 DEF Recv, Dl
  <1>6. dl' \in Dl
    <2>1. dl.pos + n \in Nat
      BY <1>3, <1>4, ConstantFacts
    <2>2. CASE Flushes(n)
      <3>1. dl' = [dl EXCEPT !.pos = dl.pos + n, !.off = Filled(n),
                             !.precheck = FALSE]
        BY <2>2 DEF Recv
      <3> QED
        BY <1>2, <1>4, <2>1, <3>1 DEF Dl
    <2>3. CASE ~Flushes(n)
      <3>1. dl' = [dl EXCEPT !.pos = dl.pos + n, !.off = Filled(n)]
        BY <2>3 DEF Recv
      <3> QED
        BY <1>2, <1>4, <2>1, <3>1 DEF Dl
    <2> QED
      BY <2>2, <2>3
  <1>7. TypeOK'
    BY <1>6 DEF Recv, TypeOK
  <1>8. Precheck(dl.img)' = Precheck(dl.img)
    BY <1>5, SamePrecheck DEF Recv
  <1>9. Filled(n) >= SectorSize - 1 => dl.sect = 0 /\ ~dl'.precheck
    BY <1>2 DEF Recv, Flushes, Dl
  <1>10. /\ dl.img \in Images
         /\ dl.pos + n <= Info[dl.img].file
         /\ dl.sect * (SectorSize - 1) + dl.off + dl.part <= dl.pos
         /\ dl.sect > 0 => Precheck(dl.img) /\ ota[0].img = dl.img
         /\ dl.sect = 0 /\ dl.off < SectorSize - 1 => dl.off = dl.pos
    BY <1>2 DEF Recv, Downloading
  <1>11. dl.sect * (SectorSize - 1) + Filled(n) + dl.part <= dl.pos + n
    <2>1. dl.sect * (SectorSize - 1) \in Nat
      BY <1>3, ConstantFacts
    <2> QED
      BY <1>3, <1>4, <1>10, <2>1, ConstantFacts
  <1>12. dl.sect = 0 /\ Filled(n) < SectorSize - 1 => Filled(n) = dl.pos + n
    BY <1>3, <1>4, <1>10, ConstantFacts
  <1>13. Downloading'
    BY <1>1, <1>2, <1>3, <1>4, <1>5, <1>8, <1>9, <1>10, <1>11, <1>12,
       ConstantFacts DEF Downloading, Recv
  <1> QED
    BY <1>1, <1>7, <1>13
(* Writing one sector leaves a well-formed partition.                      *)
LEMMA PutSectorType ==
    ASSUME ota \in [AllSectors -> Sector], NEW k \in AllSectors,
           NEW d \in Sector
    PROVE  /\ [ota EXCEPT ![k] = d] \in [AllSectors -> Sector]
           /\ [ota EXCEPT ![k] = d][k] = d
           /\ \A j \in AllSectors : j # k => [ota EXCEPT ![k] = d][j] = ota[j]
  OBVIOUS

LEMMA EmptyType == Empty \in Sector
  BY ConstantFacts DEF Empty, Sector

LEMMA SectorZero == 0 \in AllSectors /\ \A k \in AllSectors : k \in Nat
  BY ConstantFacts DEF AllSectors

(* Data that completes the buffer: the sector is erased.                   *)
LEMMA RecvEraseStep ==
    ASSUME IInv, LongFiles, NEW n \in RecvSizes, RecvErase(n)
    PROVE  IInv'
  <1> USE DEF IInv
  <1>1. Waiting' /\ Restoring' /\ upg # "download_ok"
    BY DownloadKeeps DEF RecvErase
  <1>2. dl \in Dl /\ ~dl.ready /\ dl.st = "get" /\ pc = "app"
    BY DEF TypeOK, Downloading, RecvErase
  <1>3. /\ dl.pos \in Nat /\ dl.off \in 0 .. SectorSize
        /\ dl.part \in 0 .. SectorSize /\ dl.sect \in AllSectors
        /\ dl.sect \in Nat
    BY <1>2, ConstantFacts DEF Dl, AllSectors
  <1>4. /\ n \in 1 .. SectorSize
        /\ Filled(n) \in 0 .. SectorSize
        /\ Left(n) \in 0 .. SectorSize
        /\ Filled(n) + Left(n) = dl.off + n
    BY <1>2, FilledFacts
  <1>5. /\ dl'.st = "program" /\ dl'.img = dl.img /\ dl'.pos = dl.pos + n
        /\ dl'.off = Filled(n) /\ dl'.part = Left(n) /\ dl'.sect = dl.sect
        /\ dl'.ready = dl.ready
    BY <1>2 DEF RecvErase, Dl
  <1>6. dl' \in Dl
    <2>1. dl.pos + n \in Nat /\ "program" \in DlState
      BY <1>3, <1>4, ConstantFacts DEF DlState
    <2>2. (dl.sect = 0 \/ dl.precheck) \in BOOLEAN
      OBVIOUS
    <2> QED
      BY <1>2, <1>4, <2>1, <2>2 DEF Dl, RecvErase
  <1>7. ota' \in [AllSectors -> Sector] /\ (dl.sect > 0 => ota'[0] = ota[0])
    BY <1>3, PutSectorType, EmptyType, SectorZero DEF TypeOK, RecvErase
  <1>8. TypeOK'
    BY <1>6, <1>7 DEF RecvErase, TypeOK
  <1>9. Precheck(dl.img)' = Precheck(dl.img)
    BY <1>5, SamePrecheck DEF RecvErase
  <1>10. /\ dl.img \in Images
         /\ dl.pos + n <= Info[dl.img].file
         /\ dl.sect * (SectorSize - 1) + dl.off + dl.part <= dl.pos
         /\ Precheck(dl.img)
         /\ dl.sect > 0 => ota[0].img = dl.img
    BY <1>2, <1>3 DEF RecvErase, Downloading
  <1>11. Filled(n) >= SectorSize - 1
    BY DEF RecvErase, Flushes
  <1>12. dl.sect * (SectorSize - 1) + Filled(n) + Left(n) <= dl.pos + n
    <2>1. dl.sect * (SectorSize - 1) \in Nat
      BY <1>3, ConstantFacts
    <2> QED
      BY <1>3, <1>4, <1>10, <2>1, ConstantFacts
  <1>13. Downloading'
    BY <1>1, <1>2, <1>5, <1>7, <1>9, <1>10, <1>11, <1>12
       DEF Downloading, RecvErase
  <1> QED
    BY <1>1, <1>8, <1>13

(* ... and programmed.  Every sector takes at least SectorSize - 1 bytes   *)
(* of the file, so the next one still exists.                              *)
LEMMA RecvProgramStep ==
    ASSUME IInv, LongFiles, RecvProgram
    PROVE  IInv'
  <1> USE DEF IInv
  <1>1. Waiting' /\ Restoring' /\ upg # "download_ok"
    BY DownloadKeeps DEF RecvProgram
  <1>2. dl \in Dl /\ ~dl.ready /\ dl.st = "program" /\ pc = "app"
    BY DEF TypeOK, Downloading, RecvProgram
  <1>3. /\ dl.pos \in Nat /\ dl.off \in 0 .. SectorSize /\ dl.from \in Nat
        /\ dl.part \in 0 .. SectorSize /\ dl.sect \in AllSectors
        /\ dl.sect \in Nat
    BY <1>2, ConstantFacts DEF Dl, AllSectors
  <1>4. /\ dl.img \in Images
        /\ dl.pos <= Info[dl.img].file
        /\ dl.sect * (SectorSize - 1) + dl.off + dl.part <= dl.pos
        /\ Precheck(dl.img)
        /\ dl.off >= SectorSize - 1
        /\ dl.sect > 0 => ota[0].img = dl.img
    BY <1>2 DEF Downloading
  <1>5. /\ dl'.st = "get" /\ dl'.img = dl.img /\ dl'.pos = dl.pos
        /\ dl'.off = dl.part /\ dl'.part = 0 /\ dl'.sect = dl.sect + 1
        /\ dl'.ready = dl.ready
    BY <1>2 DEF RecvProgram, Dl
  <1>6. /\ (dl.sect + 1) * (SectorSize - 1) + dl.part <= dl.pos
        /\ dl.pos - dl.part \in Nat
    <2> DEFINE full == dl.sect * (SectorSize - 1)
    <2>1. /\ full \in Nat
          /\ (dl.sect + 1) * (SectorSize - 1) = full + (SectorSize - 1)
          /\ full + dl.off + dl.part <= dl.pos
      BY <1>3, <1>4, ConstantFacts
    <2>2. dl.part \in Nat /\ dl.off \in Nat /\ SectorSize - 1 \in Nat
      BY <1>3, ConstantFacts
    <2> HIDE DEF full
    <2>3. full + (SectorSize - 1) + dl.part <= dl.pos /\ dl.part <= dl.pos
      BY <1>3, <1>4, <2>1, <2>2
    <2> QED
      BY <1>3, <2>1, <2>2, <2>3
  <1>7. dl.sect + 1 \in AllSectors
    <2>1. Info[dl.img].file < (OtaSectors + NumBeyond) * (SectorSize - 1)
      BY <1>4, OtaEnv
    <2>2. /\ (dl.sect + 1) * (SectorSize - 1) \in Nat
          /\ (OtaSectors + NumBeyond) * (SectorSize - 1) \in Nat
          /\ Info[dl.img].file \in Nat
      BY <1>3, <1>4, ConstantFacts
    <2>3. (dl.sect + 1) * (SectorSize - 1)
            < (OtaSectors + NumBeyond) * (SectorSize - 1)
      BY <1>3, <1>4, <1>6, <2>1, <2>2, ConstantFacts
    <2>4. dl.sect + 1 < OtaSectors + NumBeyond
      BY <1>3, <2>3, MulLess, ConstantFacts
    <2> QED
      BY <1>3, <2>4, ConstantFacts DEF AllSectors
  <1>8. dl' \in Dl
    <2>1. 0 \in 0 .. SectorSize /\ "get" \in DlState
      BY ConstantFacts DEF DlState
    <2> QED
      BY <1>2, <1>3, <1>6, <1>7, <2>1 DEF Dl, RecvProgram
  <1>9. [img |-> dl.img, from |-> dl.from, len |-> dl.off] \in Sector
    BY <1>3, <1>4 DEF Sector
  <1>10. /\ ota' \in [AllSectors -> Sector]
         /\ dl.sect = 0 => ota'[0].img = dl.img
         /\ dl.sect > 0 => ota'[0] = ota[0]
    BY <1>3, <1>9, PutSectorType, SectorZero DEF TypeOK, RecvProgram
  <1>11. TypeOK'
    BY <1>8, <1>10 DEF RecvProgram, TypeOK
  <1>12. Precheck(dl.img)' = Precheck(dl.img)
    BY <1>5, SamePrecheck DEF RecvProgram
  <1>13. ota'[0].img = dl.img
    BY <1>3, <1>4, <1>10
  <1>14. dl'.sect # 0 /\ dl'.sect * (SectorSize - 1) + dl'.off + dl'.part <= dl'.pos
    <2>1. (dl.sect + 1) * (SectorSize - 1) + dl.part + 0 <= dl.pos
      <3>1. (dl.sect + 1) * (SectorSize - 1) \in Nat /\ dl.part \in Nat
        BY <1>3, ConstantFacts
      <3> QED
        BY <1>3, <1>6, <3>1
    <2> QED
      BY <1>3, <1>5, <2>1
  <1>15. Downloading'
    BY <1>1, <1>2, <1>4, <1>5, <1>12, <1>13, <1>14 DEF Downloading, RecvProgram
  <1> QED
    BY <1>1, <1>11, <1>15
(* ota_persistent_finish: a file that was prechecked has its first bytes   *)
(* in sector 0 by now, so the last write goes to a later sector.           *)
LEMMA FinishEraseStep ==
    ASSUME IInv, LongFiles, FinishErase
    PROVE  IInv'
  <1> USE DEF IInv
  <1>1. Waiting' /\ Restoring' /\ upg # "download_ok"
    BY DownloadKeeps DEF FinishErase
  <1>2. dl \in Dl /\ ~dl.ready /\ dl.st = "get" /\ pc = "app"
    BY DEF TypeOK, Downloading, FinishErase
  <1>3. dl.sect \in AllSectors /\ dl.sect \in Nat /\ dl.off \in Nat
    BY <1>2, ConstantFacts DEF Dl, AllSectors
  <1>4. dl' = [dl EXCEPT !.st = "last"] /\ dl' \in Dl
    BY <1>2 DEF FinishErase, Dl, DlState
  <1>5. /\ dl'.st = "last" /\ dl'.img = dl.img /\ dl'.pos = dl.pos
        /\ dl'.off = dl.off /\ dl'.part = dl.part /\ dl'.sect = dl.sect
        /\ dl'.ready = dl.ready /\ dl'.precheck = dl.precheck
    BY <1>2, <1>4 DEF Dl
  <1>6. ota' \in [AllSectors -> Sector] /\ (dl.sect > 0 => ota'[0] = ota[0])
    BY <1>3, PutSectorType, EmptyType, SectorZero DEF TypeOK, FinishErase
  <1>7. TypeOK'
    BY <1>4, <1>6 DEF FinishErase, TypeOK
  <1>8. Precheck(dl.img)' = Precheck(dl.img)
    BY <1>5, SamePrecheck DEF FinishErase
  <1>9. /\ dl.img \in Images
        /\ dl.pos = Info[dl.img].file
        /\ dl.pos <= Info[dl.img].file
        /\ dl.sect * (SectorSize - 1) + dl.off + dl.part <= dl.pos
        /\ dl.sect > 0 => Precheck(dl.img) /\ ota[0].img = dl.img
        /\ dl.sect = 0 /\ dl.off >= SectorSize - 1 => ~dl.precheck
        /\ dl.sect = 0 /\ dl.off < SectorSize - 1 => dl.off = dl.pos
    BY <1>2 DEF FinishErase, Downloading
  <1>10. dl.sect = 0 => ~dl.precheck
    BY <1>3, <1>9, ConstantFacts DEF LongFiles
  <1>11. Downloading'
    BY <1>1, <1>2, <1>5, <1>6, <1>8, <1>9, <1>10 DEF Downloading, FinishErase
  <1> QED
    BY <1>1, <1>7, <1>11

LEMMA FinishProgramStep ==
    ASSUME IInv, LongFiles, FinishProgram
    PROVE  IInv'
  <1> USE DEF IInv
  <1>1. Waiting' /\ Restoring' /\ upg # "download_ok"
    BY DownloadKeeps DEF FinishProgram
  <1>2. dl \in Dl /\ dl.st = "last" /\ pc = "app"
    BY DEF TypeOK, FinishProgram
  <1>3. /\ dl.sect \in AllSectors /\ dl.sect \in Nat /\ dl.from \in Nat
        /\ dl.off \in 0 .. SectorSize /\ dl.off \in Nat /\ dl.img \in Images
    BY <1>2, ConstantFacts DEF Dl, AllSectors, Downloading
  <1>4. dl' \in Dl
    BY <1>2 DEF FinishProgram, Dl, DlState
  <1>5. /\ dl'.st = "check" /\ dl'.img = dl.img /\ dl'.pos = dl.pos
        /\ dl'.precheck = dl.precheck
    BY <1>2 DEF FinishProgram, Dl
  <1>6. [img |-> dl.img, from |-> dl.from, len |-> dl.off] \in Sector
    BY <1>3 DEF Sector
  <1>7. ota' \in [AllSectors -> Sector] /\ (dl.sect > 0 => ota'[0] = ota[0])
    BY <1>3, <1>6, PutSectorType, SectorZero DEF TypeOK, FinishProgram
  <1>8. TypeOK'
    BY <1>4, <1>7 DEF FinishProgram, TypeOK
  <1>9. Precheck(dl.img)' = Precheck(dl.img)
    BY <1>5, SamePrecheck DEF FinishProgram
  <1>10. dl.precheck => dl.sect > 0
    BY <1>2, <1>3 DEF Downloading
  <1>11. dl.sect > 0 => Precheck(dl.img) /\ ota[0].img = dl.img
    BY <1>2 DEF Downloading
  <1>12. dl.pos <= Info[dl.img].file
    BY <1>2 DEF Downloading
  <1>13. Downloading'
    BY <1>1, <1>2, <1>3, <1>5, <1>7, <1>9, <1>10, <1>11, <1>12
       DEF Downloading, FinishProgram
  <1> QED
    BY <1>1, <1>8, <1>13
(* A transfer that ends early: a file that was not finished is not ready,  *)
(* and the checks that follow refuse it.                                   *)
LEMMA FailStep ==
    ASSUME IInv, Closed \/ NetError \/ CheckFails
    PROVE  IInv'
  <1> USE DEF IInv
  <1>1. Waiting' /\ Restoring' /\ upg # "download_ok"
    BY DownloadKeeps DEF Closed, NetError, CheckFails
  <1>2. dl \in Dl /\ pc = "app" /\ dl.st \in {"get", "check"}
    BY DEF TypeOK, Closed, NetError, CheckFails
  <1>3. PICK s \in {"wait", "check", "over"} :
            /\ dl' = [dl EXCEPT !.st = s]
            /\ s = "check" => dl.st = "get"
            /\ s = "wait" => dl.st = "get"
    BY <1>2 DEF Closed, NetError, CheckFails
  <1>4. dl' \in Dl
    BY <1>2, <1>3 DEF Dl, DlState
  <1>5. TypeOK'
    BY <1>4 DEF TypeOK, Closed, NetError, CheckFails
  <1>6. /\ dl'.st = s /\ dl'.img = dl.img /\ dl'.pos = dl.pos
        /\ dl'.ready = dl.ready
    BY <1>2, <1>3 DEF Dl
  <1>7. pc' = "app" /\ upg' = upg
    BY <1>2 DEF Closed, NetError, CheckFails
  <1>8. Downloading'
    BY <1>1, <1>2, <1>3, <1>6, <1>7 DEF Downloading
  <1> QED
    BY <1>1, <1>5, <1>8

(* update_ota_state: only a prechecked, complete and verified file counts. *)
LEMMA CheckOkStep ==
    ASSUME IInv, CheckOk
    PROVE  IInv'
  <1> USE DEF IInv
  <1>1. /\ app' = app /\ ota' = ota /\ pc' = pc /\ fails' = fails
        /\ pc = "app" /\ upg' = "download_ok"
        /\ dl' = [dl EXCEPT !.st = "reboot"]
        /\ dl.st = "check" /\ dl.precheck /\ dl.ready /\ OtaOk
    BY DEF CheckOk, Accepts
  <1>2. dl \in Dl /\ AppOk
    BY <1>1 DEF TypeOK, Restoring
  <1>3. Precheck(dl.img) /\ OtaImg = dl.img
    BY <1>1 DEF Downloading, OtaImg
  <1>4. Info[OtaImg].kind # "diff" /\ Ver(OtaImg) > Ver(app.hdr)
    BY <1>3 DEF Precheck
  <1>5. AppOk' = AppOk /\ OtaOk' = OtaOk /\ OtaImg' = OtaImg
    BY <1>1, SameApp, SameOta
  <1>6. dl' \in Dl /\ dl'.st = "reboot"
    BY <1>1, <1>2 DEF Dl, DlState
  <1>7. TypeOK'
    BY <1>1, <1>6 DEF TypeOK, Upg
  <1>8. Waiting' /\ Restoring'
    BY <1>1, <1>2, <1>4, <1>5 DEF Waiting, Restoring, Ver
  <1>9. Downloading'
    BY <1>1, <1>6 DEF Downloading
  <1> QED
    BY <1>7, <1>8, <1>9

(* A restart, wanted or not, loses what is in RAM and nothing else; a      *)
(* sector that was being copied may be torn.                               *)
LEMMA RestartStep ==
    ASSUME IInv, Reboot \/ Restart \/ PowerFail
    PROVE  IInv'
  <1> USE DEF IInv
  <1>1. ota' = ota /\ upg' = upg /\ pc' = "off" /\ dl' = NoDl
    BY DEF Reboot, Restart, PowerFail
  <1>2. fails' \in 0 .. MaxFail
    BY OtaEnv DEF TypeOK, Reboot, Restart, PowerFail
  <1>3. \/ app' = app
        \/ pc = "copy" /\ app' = [app EXCEPT !.img = NoImg]
    BY DEF Reboot, Restart, PowerFail
  <1>4. OtaOk' = OtaOk /\ OtaImg' = OtaImg
    BY <1>1, SameOta
  <1>5. app' \in App
    BY <1>3 DEF TypeOK, App
  <1>6. TypeOK'
    BY <1>1, <1>2, <1>5, NoDlType DEF TypeOK, PC
  <1>7. Waiting'
    <2>1. CASE app' = app
      <3>1. AppOk' = AppOk
        BY <2>1, SameApp
      <3> QED
        BY <1>1, <1>4, <2>1, <3>1 DEF Waiting
    <2>2. CASE pc = "copy" /\ app' = [app EXCEPT !.img = NoImg]
      <3>1. upg = "download_ok"
        BY <2>2 DEF Restoring
      <3>2. app'.img = NoImg
        BY <2>2 DEF TypeOK, App
      <3>3. ~AppOk'
        BY <3>2, OtaConstants DEF AppOk, Holds
      <3> QED
        BY <1>1, <1>4, <3>1, <3>3 DEF Waiting
    <2> QED
      BY <1>3, <2>1, <2>2
  <1>8. Restoring' /\ Downloading'
    BY <1>1 DEF Restoring, Downloading, NoDl
  <1> QED
    BY <1>6, <1>7, <1>8

(* Every step of the boot agent, of the download task and of the power     *)
(* supply preserves the invariant.                                         *)
LEMMA InvStep == LongFiles /\ IInv /\ [Next]_vars => IInv'
  <1> SUFFICES ASSUME LongFiles, IInv, [Next]_vars PROVE IInv'
    OBVIOUS
  <1>1. CASE Boot
    BY <1>1, BootStep, RestoreStep DEF Boot
  <1>2. CASE Receive
    BY <1>2, RecvStep, RecvEraseStep, RecvProgramStep, FinishEraseStep,
       FinishProgramStep, FailStep DEF Receive
  <1>3. CASE Commit
    BY <1>3, CheckOkStep, FailStep, RestartStep DEF Commit
  <1>4. CASE PowerFail \/ Restart
    BY <1>4, RestartStep
  <1>5. CASE \E i \in Images : StartGet(i)
    BY <1>5, StartStep
  <1>6. CASE UNCHANGED vars
    BY <1>6, SameApp, SameOta DEF vars, IInv, TypeOK, Waiting, Restoring,
       Downloading, Precheck
  <1> QED
    BY <1>1, <1>2, <1>3, <1>4, <1>5, <1>6 DEF Next

-----------------------------------------------------------------------------
(* The inductive invariant holds of every behaviour, when no file is too   *)
(* short for ota_download_precheck.                                        *)
THEOREM Invariant == LongFiles => (Spec => []IInv)
  <1> SUFFICES ASSUME LongFiles PROVE Spec => []IInv
    OBVIOUS
  <1>1. Init => IInv
    BY InitInv
  <1>2. IInv /\ [Next]_vars => IInv'
    BY InvStep
  <1> QED
    BY <1>1, <1>2, PTL DEF Spec

(* The flash, the upgrade state and the statics of ota_demo.c keep their   *)
(* types; in particular no sector index leaves the flash.                  *)
THEOREM TypeCorrect == LongFiles => (Spec => []TypeOK)
  <1> SUFFICES ASSUME LongFiles PROVE Spec => []TypeOK
    OBVIOUS
  <1>1. IInv => TypeOK
    BY DEF IInv
  <1>2. Spec => []IInv
    BY Invariant
  <1> QED
    BY <1>1, <1>2, PTL

(* The device can always be started again, wherever power fails in a       *)
(* download or in restore_image.                                           *)
THEOREM AlwaysRecoverable == LongFiles => (Spec => []Recoverable)
  <1> SUFFICES ASSUME LongFiles PROVE Spec => []Recoverable
    OBVIOUS
  <1>1. IInv => Recoverable
    BY DEF IInv, Waiting, Recoverable
  <1>2. Spec => []IInv
    BY Invariant
  <1> QED
    BY <1>1, <1>2, PTL

(* The branches that ota_agent.c calls impossible are.                     *)
THEOREM ImpossibleBranches == LongFiles => (Spec => []NoImpossibleBranch)
  <1> SUFFICES ASSUME LongFiles PROVE Spec => []NoImpossibleBranch
    OBVIOUS
  <1>1. IInv => NoImpossibleBranch
    BY DEF IInv, Waiting, Restoring, NoImpossibleBranch
  <1>2. Spec => []IInv
    BY Invariant
  <1> QED
    BY <1>1, <1>2, PTL
-----------------------------------------------------------------------------
(* With a download waiting, the next start runs it; otherwise it runs the  *)
(* application.  That changes only when update_ota_state accepts a newer   *)
(* image.                                                                  *)
LEMMA ChosenStep ==
    ASSUME IInv, IInv', [Next]_vars
    PROVE  Chosen' # Chosen => Chosen' \in Images /\ Ver(Chosen') > Ver(Chosen)
  <1>1. /\ Chosen = IF upg = "download_ok" THEN OtaImg ELSE app.hdr
        /\ Chosen' = IF upg' = "download_ok" THEN OtaImg' ELSE app'.hdr
    BY DEF IInv, Waiting, Chosen
  <1>2. CASE CheckOk
    <2>1. /\ app' = app /\ ota' = ota /\ pc = "app" /\ upg' = "download_ok"
          /\ dl.st = "check" /\ dl.precheck /\ dl.ready /\ OtaOk
      BY <1>2 DEF CheckOk, Accepts
    <2>2. upg # "download_ok" /\ Precheck(dl.img) /\ OtaImg = dl.img
      BY <2>1 DEF IInv, Downloading, OtaImg
    <2>3. Chosen = app.hdr /\ Chosen' = OtaImg
      BY <1>1, <2>1, <2>2, SameOta
    <2> QED
      BY <2>1, <2>2, <2>3, OtaNames DEF Precheck
  <1>3. CASE Boot
    <2>1. ota' = ota /\ OtaImg' = OtaImg
      BY <1>3, SameOta DEF Boot, BootApp, BootRestore, BootNotNewer, RestoreErase, RestoreHeader,
         RestoreBody, RestoreDone
    <2>2. CASE upg' = upg
      <3>1. upg # "download_ok" => app' = app
        BY <1>3 DEF IInv, Restoring, Boot, BootApp, BootRestore, BootNotNewer, RestoreErase,
           RestoreHeader, RestoreBody, RestoreDone
      <3> QED
        BY <1>1, <2>1, <2>2, <3>1
    <2>3. CASE upg' # upg
      <3>1. upg = "download_ok" /\ upg' # "download_ok" /\ app' = app
            /\ OtaImg = app.hdr
        BY <1>3, <2>3 DEF IInv, Restoring, Boot, BootApp, BootRestore, BootNotNewer, RestoreErase,
           RestoreHeader, RestoreBody, RestoreDone
      <3> QED
        BY <1>1, <3>1
    <2> QED
      BY <2>2, <2>3
  <1>4. CASE Receive \/ CheckFails \/ \E i \in Images : StartGet(i)
    <2>1. pc = "app" /\ dl.st # "reboot" /\ upg' = upg /\ app' = app
      BY <1>4 DEF Receive, Recv, RecvErase, RecvProgram, FinishErase,
         FinishProgram, Closed, NetError, CheckFails, StartGet
    <2>2. upg # "download_ok"
      BY <2>1 DEF IInv, Downloading
    <2> QED
      BY <1>1, <2>1, <2>2
  <1>5. CASE Reboot \/ Restart \/ PowerFail
    <2>1. /\ ota' = ota /\ upg' = upg
          /\ app' = app \/ app' = [app EXCEPT !.img = NoImg]
      BY <1>5 DEF Reboot, Restart, PowerFail
    <2>2. app'.hdr = app.hdr /\ OtaImg' = OtaImg
      BY <2>1, SameOta DEF IInv, TypeOK, App
    <2> QED
      BY <1>1, <2>1, <2>2
  <1>6. CASE UNCHANGED vars
    BY <1>1, <1>6, SameOta DEF vars
  <1> QED
    BY <1>2, <1>3, <1>4, <1>5, <1>6 DEF Next, Commit

(* What the device will run only ever moves to a newer image, and does so  *)
(* in the single step that commits a completed download.                   *)
THEOREM MovesForward == LongFiles => (Spec => CommitsForward)
  <1> SUFFICES ASSUME LongFiles PROVE Spec => CommitsForward
    OBVIOUS
  <1>1. Spec => []IInv
    BY Invariant
  <1>2. IInv /\ IInv' /\ [Next]_vars =>
          [Chosen' # Chosen => Chosen' \in Images /\ Ver(Chosen') > Ver(Chosen)]_vars
    BY ChosenStep
  <1> QED
    BY <1>1, <1>2, PTL DEF Spec, CommitsForward

-----------------------------------------------------------------------------
(* That only whole applications are started does not depend on LongFiles:  *)
(* the boot agent verifies what it starts and copies from a verified image.*)
WholeInv ==
    /\ app \in App
    /\ pc = "app" => AppOk
    /\ pc \in {"erase", "erased"} => OtaImg \in Images
    /\ pc = "copy" => app.hdr \in Images /\ app.img = app.hdr

LEMMA WholeStep == WholeInv /\ [Next]_vars => WholeInv'
  <1> SUFFICES ASSUME WholeInv, [Next]_vars PROVE WholeInv'
    OBVIOUS
  <1> USE DEF WholeInv
  <1>1. CASE BootApp \/ BootRestore \/ BootNotNewer
    <2>1. app' = app /\ ota' = ota /\ pc' \in {"app", "erase", "halt"}
          /\ (pc' = "app" => AppOk) /\ (pc' = "erase" => OtaOk)
      BY <1>1 DEF BootApp, BootRestore, BootNotNewer, VerifyAndJump, Jump
    <2> QED
      BY <2>1, SameApp, SameOta, OtaNames
  <1>2. CASE RestoreErase
    BY <1>2, SameOta DEF RestoreErase, App
  <1>3. CASE RestoreHeader
    BY <1>3, OtaConstants DEF RestoreHeader, App
  <1>4. CASE RestoreBody
    BY <1>4 DEF RestoreBody, App
  <1>5. CASE RestoreDone
    <2>1. app = [hdr |-> app.hdr, img |-> app.hdr, n |-> Parts(app.hdr)]
      BY <1>5 DEF RestoreDone, App
    <2>2. AppOk
      BY <1>5, <2>1, HoldsApp DEF RestoreDone
    <2> QED
      BY <1>5, <2>2, SameApp DEF RestoreDone, Jump
  <1>6. CASE \/ Receive \/ CheckOk \/ CheckFails
             \/ \E i \in Images : StartGet(i)
    <2>1. app' = app /\ pc = "app" /\ pc' = "app"
      BY <1>6 DEF Receive, Recv, RecvErase, RecvProgram, FinishErase,
         FinishProgram, Closed, NetError, CheckOk, CheckFails, StartGet
    <2> QED
      BY <2>1, SameApp
  <1>7. CASE Reboot \/ Restart \/ PowerFail
    BY <1>7 DEF Reboot, Restart, PowerFail, App
  <1>8. CASE UNCHANGED vars
    BY <1>8, SameApp, SameOta DEF vars
  <1> QED
    BY <1>1, <1>2, <1>3, <1>4, <1>5, <1>6, <1>7, <1>8 DEF Next, Boot, Commit

(* The boot agent starts only applications that are whole, whatever files  *)
(* were offered and wherever power failed.                                 *)
THEOREM OnlyWholeStarts == Spec => []StartsWhole
  <1>1. Init => WholeInv
    BY InitInv DEF Init, WholeInv, IInv, TypeOK
  <1>2. WholeInv => StartsWhole
    BY DEF WholeInv, StartsWhole
  <1> QED
    BY <1>1, <1>2, WholeStep, PTL DEF Spec
-----------------------------------------------------------------------------
(* What a download writes and how far it reaches, for callbacks of any     *)
(* length and files of any length.                                         *)

(* The sectors before n hold the bytes before e of file i, each of them at *)
(* most one byte short.                                                    *)
Linked(o, n) == \A k \in 1 .. n - 1 : o[k].from = o[k - 1].from + o[k - 1].len
Full(o, n)   == \A k \in 0 .. n - 1 : o[k].len = SectorSize
Chain(o, i, n, e) ==
    /\ \A k \in 0 .. n - 1 : /\ o[k].img = i
                             /\ o[k].len \in {SectorSize - 1, SectorSize}
    /\ IF n = 0 THEN e = 0
       ELSE o[0].from = 0 /\ o[n - 1].from + o[n - 1].len = e
    /\ Linked(o, n)
    /\ n * (SectorSize - 1) <= e
    /\ Full(o, n) => /\ e = n * SectorSize
                     /\ \A k \in 0 .. n - 1 : o[k].from = k * SectorSize

(* The sectors so far and the buffer hold the bytes received so far.       *)
Tracked ==
    /\ dl.pos = dl.from + dl.off + dl.part
    /\ IF dl.st = "program"
       THEN dl.off \in {SectorSize - 1, SectorSize} /\ dl.part <= SectorSize - 2
       ELSE dl.off <= SectorSize - 2 /\ dl.part = 0
    /\ dl.sect > 0 \/ dl.st = "program" => Precheck(dl.img)
    /\ Chain(ota, dl.img, dl.sect, dl.from)

(* The precheck refused the file, whose other bytes are dropped.           *)
Refused ==
    /\ dl.st \in {"get", "last"}
    /\ dl.sect = 0
    /\ dl.off \in {SectorSize - 1, SectorSize}
    /\ ~dl.precheck
    /\ ~Precheck(dl.img)

(* The inductive invariant of GoodDownload and ReachBounded                *)
Filling ==
    /\ dl.st \in {"get", "program", "last"} =>
          /\ dl.img \in Images
          /\ dl.pos <= Info[dl.img].file
          /\ Tracked \/ Refused
    /\ dl.st = "last" => dl.pos = Info[dl.img].file
FileInv == /\ dl \in Dl /\ ota \in [AllSectors -> Sector]
           /\ pc # "app" => dl.st = "wait"
           /\ Filling
           /\ GoodDownload
           /\ ReachBounded

(* n bytes leave two bytes of room, or the buffer is flushed.              *)
LEMMA FilledRoom ==
    ASSUME dl \in Dl, NEW n \in RecvSizes, dl.off <= SectorSize - 2
    PROVE  /\ Filled(n) + Left(n) = dl.off + n
           /\ Left(n) <= SectorSize - 2
           /\ Flushes(n) => Filled(n) \in {SectorSize - 1, SectorSize}
           /\ ~Flushes(n) => Left(n) = 0 /\ Filled(n) <= SectorSize - 2
  <1>1. /\ dl.off \in 0 .. SectorSize /\ n \in 1 .. SectorSize
        /\ SectorSize \in Nat /\ SectorSize >= 2
    BY OtaEnv, ConstantFacts DEF Dl
  <1>2. CASE dl.off + n < SectorSize
    <2>1. Filled(n) = dl.off + n /\ Left(n) = 0
      BY <1>1, <1>2 DEF Filled, Left
    <2> QED
      BY <1>1, <1>2, <2>1 DEF Flushes
  <1>3. CASE ~(dl.off + n < SectorSize)
    <2>1. Filled(n) = SectorSize /\ Left(n) = (dl.off + n) - SectorSize
      BY <1>1, <1>3 DEF Filled, Left
    <2> QED
      BY <1>1, <1>3, <2>1 DEF Flushes
  <1> QED
    BY <1>2, <1>3

(* A write behind the first n sectors leaves them alone.                   *)
LEMMA ChainKeeps ==
    ASSUME NEW o, NEW p, NEW i, NEW e, NEW s \in AllSectors, Chain(o, i, s, e),
           \A j \in AllSectors : j # s => p[j] = o[j]
    PROVE  Chain(p, i, s, e)
  <1>1. s \in Nat /\ \A k \in 0 .. s - 1 : p[k] = o[k]
    BY ConstantFacts DEF AllSectors
  <1>2. \A k \in 1 .. s - 1 : p[k] = o[k] /\ p[k - 1] = o[k - 1]
    BY <1>1
  <1>3. Linked(p, s) /\ (Full(p, s) <=> Full(o, s))
    BY <1>1, <1>2 DEF Chain, Linked, Full
  <1>4. s # 0 => p[0] = o[0] /\ p[s - 1] = o[s - 1]
    BY <1>1
  <1> QED
    BY <1>1, <1>3, <1>4 DEF Chain

(* The next sector continues the file.                                     *)
LEMMA ChainExtends ==
    ASSUME NEW o, NEW i, NEW e \in Nat, NEW s \in AllSectors, Chain(o, i, s, e),
           NEW l \in Nat, l \in {SectorSize - 1, SectorSize},
           o[s] = [img |-> i, from |-> e, len |-> l]
    PROVE  Chain(o, i, s + 1, e + l)
  <1>1. s \in Nat /\ SectorSize \in Nat /\ SectorSize >= 2
    BY ConstantFacts DEF AllSectors
  <1>2. o[s].img = i /\ o[s].from = e /\ o[s].len = l
    OBVIOUS
  <1>3. (s + 1) - 1 = s /\ s + 1 # 0 /\ \A k \in 0 .. s : k \in 0 .. s - 1 \/ k = s
    BY <1>1
  <1>4. \A k \in 0 .. s : o[k].img = i /\ o[k].len \in {SectorSize - 1, SectorSize}
    BY <1>2, <1>3 DEF Chain
  <1>5. o[0].from = 0
    BY <1>2 DEF Chain
  <1>6. Linked(o, s + 1)
    <2> SUFFICES ASSUME NEW k \in 1 .. s
                 PROVE  o[k].from = o[k - 1].from + o[k - 1].len
      BY <1>3 DEF Linked
    <2>1. CASE k = s
      <3>1. s # 0
        BY <1>1, <2>1
      <3> QED
        BY <1>2, <2>1, <3>1 DEF Chain
    <2>2. CASE k # s
      <3>1. k \in 1 .. s - 1
        BY <1>1, <2>2
      <3> QED
        BY <3>1 DEF Chain, Linked
    <2> QED
      BY <2>1, <2>2
  <1>7. (s + 1) * (SectorSize - 1) <= e + l
    <2>1. s * (SectorSize - 1) <= e /\ SectorSize - 1 <= l
      BY <1>1 DEF Chain
    <2>2. /\ (s + 1) * (SectorSize - 1) = s * (SectorSize - 1) + (SectorSize - 1)
          /\ s * (SectorSize - 1) \in Nat
      BY <1>1
    <2> QED
      BY <1>1, <2>1, <2>2
  <1>8. ASSUME Full(o, s + 1)
        PROVE  /\ e + l = (s + 1) * SectorSize
               /\ \A k \in 0 .. s : o[k].from = k * SectorSize
    <2>1. l = SectorSize /\ Full(o, s)
      BY <1>1, <1>2, <1>3, <1>8 DEF Full
    <2>2. e = s * SectorSize /\ \A k \in 0 .. s - 1 : o[k].from = k * SectorSize
      BY <2>1 DEF Chain
    <2>3. (s + 1) * SectorSize = s * SectorSize + SectorSize
      BY <1>1
    <2> QED
      BY <1>2, <1>3, <2>1, <2>2, <2>3
  <1> QED
    BY <1>2, <1>3, <1>4, <1>5, <1>6, <1>7, <1>8 DEF Chain

(* The sector of the buffer is one the precheck allows.                    *)
Within(k) == \/ k * (SectorSize - 1) <= AppSize
             \/ k * (SectorSize - 1) <= OtaSectors * SectorSize

LEMMA SectorWithin ==
    ASSUME FileInv, dl.st \in {"get", "program", "last"}
    PROVE  Within(dl.sect)
  <1>1. /\ dl.img \in Images /\ dl.pos <= Info[dl.img].file /\ (Tracked \/ Refused)
        /\ dl \in Dl
    BY DEF FileInv, Filling
  <1>2. /\ dl.sect \in Nat /\ dl.pos \in Nat /\ dl.off \in Nat /\ dl.part \in Nat
        /\ dl.from \in Nat /\ SectorSize \in Nat /\ SectorSize >= 2
        /\ AppSize \in Nat
    BY <1>1, ConstantFacts, OtaConstants DEF Dl, AllSectors
  <1>3. CASE dl.sect = 0
    BY <1>2, <1>3 DEF Within
  <1>4. CASE dl.sect # 0
    <2>1. Tracked /\ dl.sect > 0
      BY <1>1, <1>2, <1>4 DEF Refused
    <2>2. /\ dl.sect * (SectorSize - 1) <= dl.from
          /\ dl.pos = dl.from + dl.off + dl.part /\ Precheck(dl.img)
      BY <2>1 DEF Tracked, Chain
    <2>3. /\ dl.sect * (SectorSize - 1) \in Nat /\ Info[dl.img].file \in Nat
          /\ OtaSectors * SectorSize \in Nat
      BY <1>1, <1>2, ConstantFacts
    <2>4. dl.sect * (SectorSize - 1) <= Info[dl.img].file
      BY <1>1, <1>2, <2>2, <2>3
    <2>5. \/ Info[dl.img].file <= AppSize
          \/ Info[dl.img].file <= OtaSectors * SectorSize
      BY <1>1, <2>2, OtaConstants DEF Precheck
    <2> QED
      BY <1>2, <2>3, <2>4, <2>5 DEF Within
  <1> QED
    BY <1>3, <1>4

(* A write of the buffer's sector stays within that bound.                 *)
LEMMA WriteWithin ==
    ASSUME FileInv, dl.st \in {"get", "program", "last"},
           \A j \in AllSectors : j # dl.sect => ota'[j] = ota[j]
    PROVE  ReachBounded'
  <1>1. Within(dl.sect)
    BY SectorWithin
  <1>2. \A k \in Beyond : k \in AllSectors
    BY ConstantFacts DEF AllSectors, Beyond
  <1>3. ReachBounded
    BY DEF FileInv
  <1> SUFFICES ASSUME NEW k \in Beyond, ota'[k] # Foreign PROVE Within(k)
    BY DEF ReachBounded, Within
  <1>4. CASE k = dl.sect
    BY <1>1, <1>4
  <1>5. CASE k # dl.sect
    BY <1>2, <1>3, <1>5 DEF ReachBounded, Within
  <1> QED
    BY <1>4, <1>5

LEMMA SameWithin == ReachBounded /\ ota' = ota => ReachBounded'
  BY DEF ReachBounded

(* The bytes received are in the buffer, or the file is refused.           *)
LEMMA RecvFills ==
    ASSUME FileInv, NEW n \in RecvSizes, Recv(n)
    PROVE  FileInv'
  <1>1. /\ dl \in Dl /\ dl.st = "get" /\ dl.img \in Images /\ (Tracked \/ Refused)
        /\ ota \in [AllSectors -> Sector] /\ ota' = ota /\ app' = app
        /\ dl.pos + n <= Info[dl.img].file
    BY DEF FileInv, Filling, Recv
  <1>2. /\ n \in 1 .. SectorSize /\ Filled(n) \in 0 .. SectorSize
        /\ Filled(n) >= dl.off /\ SectorSize \in Nat /\ SectorSize >= 2
        /\ dl.pos \in Nat /\ dl.from \in Nat /\ dl.off \in 0 .. SectorSize
        /\ dl.sect \in Nat
    BY <1>1, FilledFacts, ConstantFacts DEF Dl, AllSectors
  <1>3. /\ dl' \in Dl /\ dl'.st = "get" /\ dl'.img = dl.img /\ dl'.pos = dl.pos + n
        /\ dl'.off = Filled(n) /\ dl'.part = dl.part /\ dl'.sect = dl.sect
        /\ dl'.from = dl.from
    <2>1. dl.pos + n \in Nat
      BY <1>2
    <2>2. CASE Flushes(n)
      <3>1. dl' = [dl EXCEPT !.pos = dl.pos + n, !.off = Filled(n),
                             !.precheck = FALSE]
        BY <2>2 DEF Recv
      <3> QED
        BY <1>1, <1>2, <2>1, <3>1 DEF Dl
    <2>3. CASE ~Flushes(n)
      <3>1. dl' = [dl EXCEPT !.pos = dl.pos + n, !.off = Filled(n)]
        BY <2>3 DEF Recv
      <3> QED
        BY <1>1, <1>2, <2>1, <3>1 DEF Dl
    <2> QED
      BY <2>2, <2>3
  <1>4. Flushes(n) => dl.sect = 0 /\ ~Precheck(dl.img) /\ ~dl'.precheck
    BY <1>1 DEF Recv, Dl
  <1>5. Precheck(dl.img)' <=> Precheck(dl.img)
    BY <1>1, <1>3, SamePrecheck
  <1>6. Tracked' \/ Refused'
    <2>1. CASE Flushes(n)
      <3>1. Filled(n) \in {SectorSize - 1, SectorSize}
        BY <1>2, <2>1 DEF Flushes
      <3> QED
        BY <1>3, <1>4, <1>5, <2>1, <3>1 DEF Refused
    <2>2. CASE ~Flushes(n)
      <3>1. Tracked
        BY <1>1, <1>2, <2>2 DEF Refused, Flushes
      <3>2. /\ dl.pos = dl.from + dl.off + dl.part
            /\ dl.off <= SectorSize - 2 /\ dl.part = 0
            /\ dl.sect > 0 => Precheck(dl.img)
            /\ Chain(ota, dl.img, dl.sect, dl.from)
        BY <1>1, <3>1 DEF Tracked
      <3>3. Filled(n) = dl.off + n /\ Filled(n) <= SectorSize - 2
        BY <1>1, <1>2, <2>2, <3>2, FilledRoom
      <3>4. dl.pos + n = dl.from + Filled(n) + 0
        BY <1>2, <3>2, <3>3
      <3>5. Chain(ota, dl.img, dl.sect, dl.from)'
        BY <1>1, <1>3, <3>2 DEF Chain, Linked, Full
      <3> QED
        BY <1>3, <1>5, <3>2, <3>3, <3>4, <3>5 DEF Tracked
    <2> QED
      BY <2>1, <2>2
  <1>7. GoodDownload' /\ ReachBounded'
    BY <1>1, <1>3, SameWithin DEF FileInv, GoodDownload
  <1> QED
    BY <1>1, <1>3, <1>6, <1>7 DEF FileInv, Filling, Recv

(* The sector behind the written ones is erased for a full buffer.         *)
LEMMA RecvEraseFills ==
    ASSUME FileInv, NEW n \in RecvSizes, RecvErase(n)
    PROVE  FileInv'
  <1>1. /\ dl \in Dl /\ dl.st = "get" /\ dl.img \in Images /\ (Tracked \/ Refused)
        /\ ota \in [AllSectors -> Sector] /\ ota' = [ota EXCEPT ![dl.sect] = Empty]
        /\ dl.pos + n <= Info[dl.img].file /\ Flushes(n) /\ app' = app
        /\ dl.sect = 0 => Precheck(dl.img)
    BY DEF FileInv, Filling, RecvErase
  <1>2. /\ n \in 1 .. SectorSize /\ Filled(n) \in 0 .. SectorSize
        /\ Left(n) \in 0 .. SectorSize /\ SectorSize \in Nat /\ SectorSize >= 2
        /\ dl.pos \in Nat /\ dl.from \in Nat /\ dl.off \in 0 .. SectorSize
        /\ dl.sect \in AllSectors /\ dl.sect \in Nat
    BY <1>1, FilledFacts, ConstantFacts DEF Dl, AllSectors
  <1>3. /\ dl.pos = dl.from + dl.off + dl.part
        /\ dl.off <= SectorSize - 2 /\ dl.part = 0
        /\ dl.sect > 0 => Precheck(dl.img)
        /\ Chain(ota, dl.img, dl.sect, dl.from)
    BY <1>1 DEF Tracked, Refused
  <1>4. /\ Left(n) <= SectorSize - 2 /\ Filled(n) + Left(n) = dl.off + n
        /\ Filled(n) \in {SectorSize - 1, SectorSize}
    BY <1>1, <1>3, FilledRoom
  <1>5. /\ dl' \in Dl /\ dl'.st = "program" /\ dl'.img = dl.img /\ dl'.pos = dl.pos + n
        /\ dl'.off = Filled(n) /\ dl'.part = Left(n) /\ dl'.sect = dl.sect
        /\ dl'.from = dl.from
    <2>1. dl.pos + n \in Nat /\ "program" \in DlState
      BY <1>2 DEF DlState
    <2>2. (dl.sect = 0 \/ dl.precheck) \in BOOLEAN
      OBVIOUS
    <2> QED
      BY <1>1, <1>2, <2>1, <2>2 DEF Dl, RecvErase
  <1>6. /\ ota' \in [AllSectors -> Sector]
        /\ \A j \in AllSectors : j # dl.sect => ota'[j] = ota[j]
    BY <1>1, <1>2, PutSectorType, EmptyType
  <1>7. Chain(ota', dl.img, dl.sect, dl.from)
    BY <1>2, <1>3, <1>6, ChainKeeps
  <1>8. Precheck(dl.img)'
    <2>1. Precheck(dl.img)
      BY <1>1, <1>2, <1>3
    <2> QED
      BY <1>1, <1>5, <2>1, SamePrecheck
  <1>9. dl.pos + n = dl.from + Filled(n) + Left(n)
    BY <1>2, <1>3, <1>4
  <1>10. Tracked'
    BY <1>4, <1>5, <1>7, <1>8, <1>9 DEF Tracked
  <1>11. ReachBounded'
    BY <1>1, <1>6, WriteWithin
  <1> QED
    BY <1>1, <1>5, <1>6, <1>10, <1>11 DEF FileInv, Filling, RecvErase, GoodDownload

(* The sector extends the chain, and the rest of the data starts the next  *)
(* buffer.                                                                 *)
LEMMA RecvProgramFills ==
    ASSUME FileInv, RecvProgram
    PROVE  FileInv'
  <1>1. /\ dl \in Dl /\ dl.st = "program" /\ dl.img \in Images
        /\ dl.pos <= Info[dl.img].file /\ Tracked
        /\ ota \in [AllSectors -> Sector] /\ app' = app
        /\ ota' = [ota EXCEPT ![dl.sect] = [img |-> dl.img, from |-> dl.from,
                                            len |-> dl.off]]
    BY DEF FileInv, Filling, RecvProgram, Refused
  <1>2. /\ SectorSize \in Nat /\ SectorSize >= 2
        /\ dl.pos \in Nat /\ dl.from \in Nat /\ dl.off \in 0 .. SectorSize
        /\ dl.part \in 0 .. SectorSize
        /\ dl.sect \in AllSectors /\ dl.sect \in Nat
    BY <1>1, ConstantFacts DEF Dl, AllSectors
  <1>3. /\ dl.pos = dl.from + dl.off + dl.part
        /\ dl.off \in {SectorSize - 1, SectorSize} /\ dl.part <= SectorSize - 2
        /\ Precheck(dl.img)
        /\ Chain(ota, dl.img, dl.sect, dl.from)
    BY <1>1 DEF Tracked
  <1>4. dl.pos - dl.part = dl.from + dl.off /\ dl.pos - dl.part \in Nat
    BY <1>2, <1>3
  <1>5. [img |-> dl.img, from |-> dl.from, len |-> dl.off] \in Sector
    BY <1>1, <1>2 DEF Sector
  <1>6. /\ ota' \in [AllSectors -> Sector]
        /\ ota'[dl.sect] = [img |-> dl.img, from |-> dl.from, len |-> dl.off]
        /\ \A j \in AllSectors : j # dl.sect => ota'[j] = ota[j]
    BY <1>1, <1>2, <1>5, PutSectorType
  <1>7. Chain(ota', dl.img, dl.sect + 1, dl.from + dl.off)
    <2>1. Chain(ota', dl.img, dl.sect, dl.from)
      BY <1>2, <1>3, <1>6, ChainKeeps
    <2>2. dl.off \in Nat
      BY <1>2
    <2> QED
      BY <1>2, <1>3, <1>6, <2>1, <2>2, ChainExtends
  <1>8. dl.sect + 1 \in AllSectors
    <2>1. Info[dl.img].file < (OtaSectors + NumBeyond) * (SectorSize - 1)
      BY <1>1, OtaEnv
    <2>2. /\ (dl.sect + 1) * (SectorSize - 1) \in Nat
          /\ (OtaSectors + NumBeyond) * (SectorSize - 1) \in Nat
          /\ Info[dl.img].file \in Nat
      BY <1>1, <1>2, ConstantFacts
    <2>3. (dl.sect + 1) * (SectorSize - 1) <= dl.from + dl.off
      BY <1>7 DEF Chain
    <2>4. (dl.sect + 1) * (SectorSize - 1)
            < (OtaSectors + NumBeyond) * (SectorSize - 1)
      BY <1>1, <1>2, <1>3, <2>1, <2>2, <2>3
    <2>5. dl.sect + 1 < OtaSectors + NumBeyond
      <3>1. SectorSize - 1 \in Nat /\ dl.sect + 1 \in Nat /\ OtaSectors + NumBeyond \in Nat
        BY <1>2, ConstantFacts
      <3> QED
        BY <2>4, <3>1, MulLess
    <2> QED
      BY <1>2, <2>5, ConstantFacts DEF AllSectors
  <1>9. /\ dl' \in Dl /\ dl'.st = "get" /\ dl'.img = dl.img /\ dl'.pos = dl.pos
        /\ dl'.off = dl.part /\ dl'.part = 0 /\ dl'.sect = dl.sect + 1
        /\ dl'.from = dl.pos - dl.part
    <2>1. 0 \in 0 .. SectorSize /\ "get" \in DlState
      BY <1>2 DEF DlState
    <2> QED
      BY <1>1, <1>2, <1>4, <1>8, <2>1 DEF Dl, RecvProgram
  <1>10. Precheck(dl.img)'
    BY <1>1, <1>3, <1>9, SamePrecheck
  <1>11. dl.pos = (dl.pos - dl.part) + dl.part + 0
    BY <1>2
  <1>12. Tracked'
    BY <1>3, <1>4, <1>7, <1>9, <1>10, <1>11 DEF Tracked
  <1>13. ReachBounded'
    BY <1>1, <1>6, WriteWithin
  <1> QED
    BY <1>1, <1>6, <1>9, <1>12, <1>13
       DEF FileInv, Filling, RecvProgram, GoodDownload

(* The end of the file: the sector of the rest is erased ...               *)
LEMMA FinishEraseFills ==
    ASSUME FileInv, FinishErase
    PROVE  FileInv'
  <1>1. /\ dl \in Dl /\ dl.st = "get" /\ dl.img \in Images /\ (Tracked \/ Refused)
        /\ ota \in [AllSectors -> Sector] /\ ota' = [ota EXCEPT ![dl.sect] = Empty]
        /\ dl.pos = Info[dl.img].file /\ app' = app
    BY DEF FileInv, Filling, FinishErase
  <1>2. dl.sect \in AllSectors /\ dl.sect \in Nat /\ dl.pos \in Nat
    BY <1>1, ConstantFacts DEF Dl, AllSectors
  <1>3. /\ dl' \in Dl /\ dl'.st = "last" /\ dl'.img = dl.img /\ dl'.pos = dl.pos
        /\ dl'.off = dl.off /\ dl'.part = dl.part /\ dl'.sect = dl.sect
        /\ dl'.from = dl.from /\ dl'.precheck = dl.precheck
    BY <1>1 DEF FinishErase, Dl, DlState
  <1>4. /\ ota' \in [AllSectors -> Sector]
        /\ \A j \in AllSectors : j # dl.sect => ota'[j] = ota[j]
    BY <1>1, <1>2, PutSectorType, EmptyType
  <1>5. Precheck(dl.img)' <=> Precheck(dl.img)
    BY <1>1, <1>3, SamePrecheck
  <1>6. Tracked' \/ Refused'
    <2>1. CASE Refused
      BY <1>3, <1>5, <2>1 DEF Refused
    <2>2. CASE Tracked
      <3>1. /\ dl.pos = dl.from + dl.off + dl.part
            /\ dl.off <= SectorSize - 2 /\ dl.part = 0
            /\ dl.sect > 0 => Precheck(dl.img)
            /\ Chain(ota, dl.img, dl.sect, dl.from)
        BY <1>1, <2>2 DEF Tracked
      <3>2. Chain(ota', dl.img, dl.sect, dl.from)
        BY <1>2, <1>4, <3>1, ChainKeeps
      <3> QED
        BY <1>3, <1>5, <3>1, <3>2 DEF Tracked
    <2> QED
      BY <1>1, <2>1, <2>2
  <1>7. ReachBounded'
    BY <1>1, <1>4, WriteWithin
  <1> QED
    BY <1>1, <1>2, <1>3, <1>4, <1>6, <1>7
       DEF FileInv, Filling, FinishErase, GoodDownload

(* A chain of full sectors and the rest behind it are the file.            *)
LEMMA ChainHolds ==
    ASSUME NEW o \in [AllSectors -> Sector], NEW i \in Images,
           NEW s \in AllSectors, NEW l \in Nat, l < SectorSize,
           Chain(o, i, s, s * SectorSize), Full(o, s),
           o[s] = [img |-> i, from |-> s * SectorSize, len |-> l],
           Info[i].file = s * SectorSize + l
    PROVE  HoldsFile(o, i)
  <1>1. s \in Nat /\ SectorSize \in Nat /\ SectorSize >= 2
    BY ConstantFacts DEF AllSectors
  <1>2. PICK len \in Nat, b \in Nat : /\ len = Info[i].file
                                      /\ b = s * SectorSize /\ len = b + l
    <2>1. s * SectorSize \in Nat /\ s * SectorSize + l \in Nat
      BY <1>1
    <2> QED
      BY <2>1
  <1> SUFFICES ASSUME NEW k \in 0 .. SectorsOf(len) - 1
               PROVE  k \in AllSectors /\ o[k] = Piece(i, k)
    BY <1>2 DEF HoldsFile
  <1>3. k \in Nat /\ (k = s \/ k < s)
    <2>1. SectorsOf(len) = IF l = 0 THEN s ELSE s + 1
      <3>1. len + SectorSize - 1 = s * SectorSize + (l + (SectorSize - 1))
        BY <1>1, <1>2
      <3> QED
        BY <1>1, <3>1 DEF SectorsOf
    <2> QED
      BY <1>1, <2>1
  <1>4. CASE k = s
    <2>1. /\ k * SectorSize = b /\ (k + 1) * SectorSize = b + SectorSize
          /\ len - b = l /\ ~(b + SectorSize <= len)
      BY <1>1, <1>2, <1>4
    <2>2. Piece(i, k) = [img |-> i, from |-> b, len |-> l]
      BY <1>2, <2>1 DEF Piece
    <2> QED
      BY <1>2, <1>4, <2>2
  <1>5. CASE k < s
    <2>1. k \in 0 .. s - 1 /\ k \in AllSectors
      BY <1>1, <1>3, <1>5, ConstantFacts DEF AllSectors
    <2>2. o[k].img = i /\ o[k].from = k * SectorSize /\ o[k].len = SectorSize
      BY <2>1 DEF Chain, Full
    <2>3. o[k] = [img |-> i, from |-> k * SectorSize, len |-> SectorSize]
      <3>1. o[k] \in Sector
        BY <2>1
      <3> QED
        BY <2>2, <3>1 DEF Sector
    <2>4. (k + 1) * SectorSize <= len
      <3>1. k + 1 <= s
        BY <1>1, <1>3, <1>5
      <3>2. (k + 1) * SectorSize <= s * SectorSize
        BY <1>1, <1>3, <3>1
      <3> QED
        BY <1>1, <1>2, <1>3, <3>2
    <2>5. Piece(i, k) = [img |-> i, from |-> k * SectorSize, len |-> SectorSize]
      BY <1>2, <2>4 DEF Piece
    <2> QED
      BY <2>1, <2>3, <2>5
  <1> QED
    BY <1>3, <1>4, <1>5

(* ... and programmed.  The last piece of the file is what the buffer      *)
(* holds; with nothing in it the file ends with the sector before.         *)
LEMMA FinishProgramFills ==
    ASSUME FileInv, FinishProgram
    PROVE  FileInv'
  <1>1. /\ dl \in Dl /\ dl.st = "last" /\ dl.img \in Images /\ (Tracked \/ Refused)
        /\ ota \in [AllSectors -> Sector]
        /\ ota' = [ota EXCEPT ![dl.sect] = [img |-> dl.img, from |-> dl.from,
                                            len |-> dl.off]]
        /\ dl.pos = Info[dl.img].file
    BY DEF FileInv, Filling, FinishProgram
  <1>2. /\ SectorSize \in Nat /\ SectorSize >= 2
        /\ dl.pos \in Nat /\ dl.from \in Nat /\ dl.off \in 0 .. SectorSize
        /\ dl.sect \in AllSectors /\ dl.sect \in Nat /\ dl.off \in Nat
    BY <1>1, ConstantFacts DEF Dl, AllSectors
  <1>3. /\ dl' \in Dl /\ dl'.st = "check" /\ dl'.img = dl.img /\ dl'.pos = dl.pos
        /\ dl'.precheck = dl.precheck /\ dl'.sect = dl.sect
    BY <1>1 DEF FinishProgram, Dl, DlState
  <1>4. [img |-> dl.img, from |-> dl.from, len |-> dl.off] \in Sector
    BY <1>1, <1>2 DEF Sector
  <1>5. /\ ota' \in [AllSectors -> Sector]
        /\ ota'[dl.sect] = [img |-> dl.img, from |-> dl.from, len |-> dl.off]
        /\ \A j \in AllSectors : j # dl.sect => ota'[j] = ota[j]
    BY <1>1, <1>2, <1>4, PutSectorType
  <1>6. ASSUME dl.precheck
        PROVE  /\ Complete(dl.img, dl.sect)'
               /\ Full(ota', dl.sect) => HoldsFile(ota', dl.img)
    <2>1. /\ dl.off <= SectorSize - 2 /\ dl.part = 0
          /\ dl.pos = dl.from + dl.off + dl.part
          /\ Chain(ota, dl.img, dl.sect, dl.from)
      BY <1>1, <1>6 DEF Tracked, Refused
    <2>2. Chain(ota', dl.img, dl.sect, dl.from)
      BY <1>2, <1>5, <2>1, ChainKeeps
    <2>3. Info[dl.img].file = dl.from + dl.off
      BY <1>1, <1>2, <2>1
    <2>4. /\ ota'[dl.sect].img = dl.img /\ ota'[dl.sect].from = dl.from
          /\ ota'[dl.sect].len = dl.off
      BY <1>5
    <2>5. \A k \in 0 .. dl.sect : k \in 0 .. dl.sect - 1 \/ k = dl.sect
      BY <1>2
    <2>6. Complete(dl.img, dl.sect)'
      <3>1. \A k \in 0 .. dl.sect : ota'[k].img = dl.img
        BY <2>2, <2>4, <2>5 DEF Chain
      <3>2. ota'[0].from = 0
        BY <2>2, <2>4 DEF Chain
      <3>3. \A k \in 1 .. dl.sect : ota'[k].from = ota'[k - 1].from + ota'[k - 1].len
        <4> SUFFICES ASSUME NEW k \in 1 .. dl.sect
                     PROVE  ota'[k].from = ota'[k - 1].from + ota'[k - 1].len
          OBVIOUS
        <4>1. CASE k = dl.sect
          <5>1. dl.sect # 0
            BY <1>2, <4>1
          <5> QED
            BY <2>2, <2>4, <4>1, <5>1 DEF Chain
        <4>2. CASE k # dl.sect
          <5>1. k \in 1 .. dl.sect - 1
            BY <1>2, <4>2
          <5> QED
            BY <2>2, <5>1 DEF Chain, Linked
        <4> QED
          BY <4>1, <4>2
      <3>4. \A k \in 0 .. dl.sect - 1 : ota'[k].len \in {SectorSize - 1, SectorSize}
        BY <2>2 DEF Chain
      <3> QED
        BY <1>3, <2>3, <2>4, <3>1, <3>2, <3>3, <3>4 DEF Complete
    <2>7. ASSUME Full(ota', dl.sect) PROVE HoldsFile(ota', dl.img)
      <3>1. dl.from = dl.sect * SectorSize
        BY <2>2, <2>7 DEF Chain
      <3>2. dl.off < SectorSize
        BY <1>2, <2>1
      <3>3. /\ Chain(ota', dl.img, dl.sect, dl.sect * SectorSize)
            /\ ota'[dl.sect] = [img |-> dl.img, from |-> dl.sect * SectorSize,
                                len |-> dl.off]
            /\ Info[dl.img].file = dl.sect * SectorSize + dl.off
        BY <1>5, <2>2, <2>3, <3>1
      <3> QED
        BY <1>1, <1>2, <1>5, <2>7, <3>2, <3>3, ChainHolds
    <2> QED
      BY <2>6, <2>7
  <1>7. GoodDownload'
    BY <1>3, <1>6 DEF GoodDownload, Full, Complete
  <1>8. ReachBounded'
    BY <1>1, <1>5, WriteWithin
  <1> QED
    BY <1>3, <1>5, <1>7, <1>8 DEF FileInv, Filling, FinishProgram

(* A new request starts with an empty buffer.                              *)
LEMMA StartFills ==
    ASSUME FileInv, NEW i \in Images, StartGet(i)
    PROVE  FileInv'
  <1>1. /\ dl \in Dl /\ ota' = ota /\ ota \in [AllSectors -> Sector]
        /\ dl' = [dl EXCEPT !.st = "get", !.img = i, !.pos = 0, !.from = 0,
                            !.off = 0, !.part = 0, !.sect = 0]
    BY DEF FileInv, StartGet
  <1>2. /\ 0 \in 0 .. SectorSize /\ 0 \in AllSectors /\ SectorSize \in Nat
        /\ SectorSize >= 2 /\ Info[i].file \in Nat
    BY ConstantFacts DEF AllSectors
  <1>3. /\ dl' \in Dl /\ dl'.st = "get" /\ dl'.img = i /\ dl'.pos = 0 /\ dl'.from = 0
        /\ dl'.off = 0 /\ dl'.part = 0 /\ dl'.sect = 0
    BY <1>1, <1>2 DEF Dl, DlState
  <1>4. Chain(ota', i, 0, 0)
    BY <1>2 DEF Chain, Linked
  <1>5. Tracked'
    BY <1>2, <1>3, <1>4 DEF Tracked
  <1>6. GoodDownload' /\ ReachBounded'
    BY <1>1, <1>3, SameWithin DEF FileInv, GoodDownload
  <1> QED
    BY <1>1, <1>2, <1>3, <1>5, <1>6 DEF FileInv, Filling, StartGet

(* Steps that end a download, or that are none of it                       *)
LEMMA RestFills ==
    ASSUME FileInv, ota' = ota, dl' \in Dl,
           pc' # "app" => dl'.st = "wait",
           \/ dl' = dl /\ app' = app
           \/ dl'.st \in {"wait", "reboot", "over"}
           \/ dl'.st = "check" /\ dl'.img = dl.img /\ dl'.pos = dl.pos
              /\ dl.pos # Info[dl.img].file
    PROVE  FileInv'
  <1>0. ReachBounded'
    BY SameWithin DEF FileInv
  <1>1. CASE dl' = dl /\ app' = app
    <2>1. Precheck(dl.img)' <=> Precheck(dl.img)
      BY <1>1, SamePrecheck
    <2>2. Tracked' <=> Tracked
      BY <1>1, <2>1 DEF Tracked, Chain, Linked, Full
    <2>3. Refused' <=> Refused
      BY <1>1, <2>1 DEF Refused
    <2>4. GoodDownload'
      BY <1>1 DEF FileInv, GoodDownload, Complete
    <2> QED
      BY <1>0, <1>1, <2>2, <2>3, <2>4 DEF FileInv, Filling
  <1>2. CASE dl'.st \in {"wait", "reboot", "over"}
    BY <1>0, <1>2 DEF FileInv, Filling, GoodDownload
  <1>3. CASE /\ dl'.st = "check" /\ dl'.img = dl.img /\ dl'.pos = dl.pos
             /\ dl.pos # Info[dl.img].file
    BY <1>0, <1>3 DEF FileInv, Filling, GoodDownload
  <1> QED
    BY <1>1, <1>2, <1>3

(* Every step keeps the invariant of the file.                             *)
LEMMA FileStep ==
    ASSUME FileInv, [Next]_vars
    PROVE  FileInv'
  <1>0. dl \in Dl /\ NoDl \in Dl /\ NoDl.st = "wait"
    BY NoDlType DEF FileInv, NoDl
  <1>1. CASE Boot \/ Reboot \/ Restart \/ PowerFail
    <2>1. ota' = ota /\ (dl' = NoDl \/ (pc # "app" /\ dl' = dl))
      BY <1>1 DEF Boot, BootApp, BootRestore, BootNotNewer, RestoreErase, RestoreHeader, RestoreBody, RestoreDone,
         Reboot, Restart, PowerFail, VerifyAndJump, Jump
    <2>2. dl' \in Dl /\ dl'.st = "wait"
      BY <1>0, <2>1 DEF FileInv
    <2> QED
      BY <2>1, <2>2, RestFills
  <1>3. CASE Receive \/ (\E i \in Images : StartGet(i))
    <2>1. CASE Closed \/ NetError
      <3>1. ota' = ota /\ pc' = "app" /\ dl' \in Dl
        BY <1>0, <2>1 DEF Closed, NetError, Dl, DlState
      <3>2. \/ dl'.st \in {"wait", "reboot", "over"}
            \/ dl'.st = "check" /\ dl'.img = dl.img /\ dl'.pos = dl.pos
               /\ dl.pos < Info[dl.img].file /\ dl.st = "get"
        BY <1>0, <2>1 DEF Closed, NetError, Dl
      <3>3. dl.st = "get" => dl.img \in Images
        BY DEF FileInv, Filling
      <3>4. dl.st = "get" /\ dl.pos < Info[dl.img].file => dl.pos # Info[dl.img].file
        BY <1>0, <3>3, ConstantFacts DEF Dl
      <3> QED
        BY <3>1, <3>2, <3>4, RestFills
    <2> QED
      BY <1>3, <2>1, RecvFills, RecvEraseFills, RecvProgramFills, FinishEraseFills,
         FinishProgramFills, StartFills DEF Receive
  <1>4. CASE CheckOk \/ CheckFails
    <2>1. /\ ota' = ota /\ pc' = "app" /\ dl' \in Dl
          /\ dl'.st \in {"wait", "reboot", "over"}
      BY <1>0, <1>4 DEF CheckOk, CheckFails, Dl, DlState
    <2> QED
      BY <2>1, RestFills
  <1>5. CASE UNCHANGED vars
    BY <1>0, <1>5, RestFills DEF vars, FileInv
  <1> QED
    BY <1>1, <1>3, <1>4, <1>5 DEF Next, Boot, Commit

(* The invariant of the file holds in every state.                         *)
LEMMA FileInvariant == Spec => []FileInv
  <1>1. Init => FileInv
    <2> SUFFICES ASSUME Init PROVE FileInv
      OBVIOUS
    <2>1. dl \in Dl /\ dl.st = "wait"
      BY NoDlType DEF Init, NoDl
    <2>2. ota \in [AllSectors -> Sector]
      BY InitInv DEF IInv, TypeOK
    <2>3. ReachBounded
      BY ConstantFacts DEF Init, ReachBounded, AllSectors, Beyond
    <2> QED
      BY <2>1, <2>2, <2>3 DEF FileInv, Filling, GoodDownload
  <1>2. FileInv /\ [Next]_vars => FileInv'
    BY FileStep
  <1> QED
    BY <1>1, <1>2, PTL DEF Spec

(* A file that ota_persistent_write received to its end and that passed    *)
(* the precheck is in flash without a gap or a repetition, and verifies if *)
(* no sector was written a byte short, whatever the lengths of files and   *)
(* callbacks are and whatever happened to earlier attempts.                *)
THEOREM DownloadsWhole == Spec => []GoodDownload
  <1>1. FileInv => GoodDownload
    BY DEF FileInv
  <1> QED
    BY <1>1, FileInvariant, PTL

(* How far behind the OTA partition a download can write: the precheck of  *)
(* ota_demo.c bounds it, for any files and callbacks, by the larger of the *)
(* two partitions with a byte lost in each sector and one sector more.     *)
THEOREM ReachLimited == Spec => []ReachBounded
  <1>1. FileInv => ReachBounded
    BY DEF FileInv
  <1> QED
    BY <1>1, FileInvariant, PTL
=============================================================================
