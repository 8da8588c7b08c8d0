--------------------------------- MODULE Ota ---------------------------------
(***************************************************************************)
(* Firmware update: the boot agent of components/fota/ota_agent and the    *)
(* download task of project/wifi_mcu_ota_demo/examples/ota_demo.c, which   *)
(* share the flash and the upgrade state kept in NVDS.  A write of that    *)
(* state is one step: module Nvds shows it is atomic.  Every other flash   *)
(* operation is a step, and power may fail before or in the middle of it.  *)
(* Behind OTA lie partitions of others (KV and the user's data), which a   *)
(* download that is too long overwrites; their owners do not write here.   *)
(***************************************************************************)
EXTENDS OtaImage

CONSTANTS Installed,     \* the image the device is shipped with
          RecvSizes,     \* how many bytes one http callback may deliver
          NumBeyond,     \* sectors of other partitions behind OTA
          MaxFail        \* bound on power failures

ASSUME OtaEnv == /\ Installed \in Images
                 /\ RecvSizes \subseteq 1 .. SectorSize
                 /\ NumBeyond \in Nat
                 /\ MaxFail \in Nat
                 /\ \A i \in Images : Info[i].file <
                       (OtaSectors + NumBeyond) * (SectorSize - 1)

VARIABLES app,       \* the APP partition
          ota,       \* the OTA partition and the sectors behind it
          upg,       \* upg_state_t in NVDS
          pc,        \* "off", a step of the boot agent, "app", or "halt"
          dl,        \* the download task of the running application
          fails

vars == <<app, ota, upg, pc, dl, fails>>

PC == {"off", "erase", "erased", "copy", "app", "halt"}
DlState == {"wait", "get", "program", "last", "check", "reboot", "over"}
Upg == {"none", "download_ok", "restore_ok"}

AllSectors == 0 .. OtaSectors + NumBeyond - 1
Beyond == OtaSectors .. OtaSectors + NumBeyond - 1

\* The statics of ota_demo.c: the file being received and how far, the
\* sector buffer (its first file position and temp4k_offset), the bytes of
\* the callback's data that do not fit it, flash_ota_offset in sectors.
NoDl == [st |-> "wait", img |-> NoImg, pos |-> 0, from |-> 0, off |-> 0,
         part |-> 0, sect |-> 0, precheck |-> FALSE, ready |-> FALSE]

\* A sector that holds other data than images
Foreign == [img |-> NoImg, from |-> 0, len |-> SectorSize]

Init == /\ app = [hdr |-> Installed, img |-> Installed, n |-> Parts(Installed)]
        /\ ota = [k \in AllSectors |-> IF k \in Beyond THEN Foreign ELSE Empty]
        /\ upg = "none"
        /\ pc = "off"
        /\ dl = NoDl
        /\ fails = 0

-----------------------------------------------------------------------------
(* ota_boot_upgrade_agent                                                  *)

\* verify_total_img_partition of either partition
AppOk == \E i \in Images : Holds(app, i)
OtaOk == \E i \in Images : HoldsFile(ota, i)
OtaImg == ota[0].img          \* the image when OtaOk

Jump == pc' = "app" /\ dl' = NoDl

\* verify, then start the application; a damaged one is an error, and the
\* agent returns without starting anything.
VerifyAndJump == IF AppOk THEN Jump ELSE pc' = "halt" /\ UNCHANGED dl

\* No update is pending, or the one that is pending has a damaged image.
BootApp ==
    /\ pc = "off"
    /\ ~(upg = "download_ok" /\ OtaOk)
    /\ VerifyAndJump
    /\ UNCHANGED <<app, ota, upg, fails>>

\* Restore: the application is damaged (a restore was interrupted) or older.
BootRestore ==
    /\ pc = "off"
    /\ upg = "download_ok"
    /\ OtaOk
    /\ AppOk => Ver(OtaImg) > Ver(app.hdr)
    /\ pc' = "erase"
    /\ UNCHANGED <<app, ota, upg, dl, fails>>

\* The application is not older.  It is the same image when the restore was
\* complete and only the upgrade state is missing; with any other one "it's
\* impossible to go into this branch".
BootNotNewer ==
    /\ pc = "off"
    /\ upg = "download_ok"
    /\ OtaOk
    /\ AppOk
    /\ Ver(OtaImg) <= Ver(app.hdr)
    /\ upg' = IF OtaImg = app.hdr THEN "restore_ok" ELSE upg
    /\ Jump
    /\ UNCHANGED <<app, ota, fails>>

-----------------------------------------------------------------------------
(* restore_image                                                           *)

\* The erase of the APP partition starts at its header.
RestoreErase ==
    /\ pc = "erase"
    /\ app' = [app EXCEPT !.hdr = NoImg]
    /\ pc' = "erased"
    /\ UNCHANGED <<ota, upg, dl, fails>>

\* Fault: the upgrade state is advanced before the image is copied.
RestoreHeader_StateFirst ==
    /\ pc = "erased"
    /\ app' = [hdr |-> OtaImg, img |-> OtaImg, n |-> 0]
    /\ upg' = "restore_ok"
    /\ pc' = "copy"
    /\ UNCHANGED <<ota, dl, fails>>

\* The rest of the erase, then the header; a diff image is refused here.
RestoreHeader ==
    /\ pc = "erased"
    /\ IF Info[OtaImg].kind = "diff"
       THEN /\ app' = [hdr |-> NoImg, img |-> NoImg, n |-> 0]
            /\ pc' = "halt"
       ELSE /\ app' = [hdr |-> OtaImg, img |-> OtaImg, n |-> 0]
            /\ pc' = "copy"
    /\ UNCHANGED <<ota, upg, dl, fails>>

\* orig_image_do_restore or xz_image_do_restore: the next sector of the body
RestoreBody ==
    /\ pc = "copy"
    /\ app.n < Parts(app.hdr)
    /\ app' = [app EXCEPT !.n = @ + 1]
    /\ UNCHANGED <<ota, upg, pc, dl, fails>>

\* Fault: the upgrade state is not saved.
RestoreDone_NoState ==
    /\ pc = "copy"
    /\ app.n = Parts(app.hdr)
    /\ Jump
    /\ UNCHANGED <<app, ota, upg, fails>>

\* Fault: the copied image is not verified.
RestoreDone_Early ==
    /\ pc = "copy"
    /\ upg' = "restore_ok"
    /\ Jump
    /\ UNCHANGED <<app, ota, fails>>

\* The new application is verified, the state saved and the image started.
RestoreDone ==
    /\ pc = "copy"
    /\ app.n = Parts(app.hdr)
    /\ upg' = "restore_ok"
    /\ Jump
    /\ UNCHANGED <<app, ota, fails>>

-----------------------------------------------------------------------------
(* The download task                                                       *)

\* ota_persistent_start and the request; the server offers image i
StartGet(i) ==
    /\ pc = "app"
    /\ dl.st = "wait"
    /\ dl' = [dl EXCEPT !.st = "get", !.img = i, !.pos = 0, !.from = 0,
                        !.off = 0, !.part = 0, !.sect = 0]
    /\ UNCHANGED <<app, ota, upg, pc, fails>>

\* Fault: equal versions pass.
Precheck_SameVersion(i) ==
    /\ Ver(i) >= Ver(app.hdr)
    /\ Info[i].kind \in {"orig", "xz"}
    /\ Info[i].orig <= AppSize
    /\ Info[i].xz <= OtaSectors * SectorSize

\* Fault: the size of the file is not compared with the OTA partition.
Precheck_NoSize(i) ==
    /\ Ver(i) > Ver(app.hdr)
    /\ Info[i].kind \in {"orig", "xz"}

\* ota_download_precheck
Precheck(i) ==
    /\ Ver(i) > Ver(app.hdr)
    /\ Info[i].kind \in {"orig", "xz"}
    /\ Info[i].orig <= AppSize
    /\ Info[i].xz <= OtaSectors * SectorSize

\* Fault: data that crosses the end of the buffer is not split.
Filled_NoSplit(n) == dl.off + n

\* The buffer after n more bytes: filled up to a whole sector at most
Filled(n) == IF dl.off + n < SectorSize THEN dl.off + n ELSE SectorSize
Left(n)   == dl.off + n - Filled(n)

\* Fault: the buffer is written once it is half full.
Flushes_Half(n) == 2 * Filled(n) >= SectorSize

\* The test that sends the buffer to flash
Flushes(n) == Filled(n) >= SectorSize - 1

\* ota_persistent_write of n bytes that stay in the buffer, or that fail the
\* precheck: the buffer then stays full and the rest is dropped
Recv(n) ==
    /\ pc = "app"
    /\ dl.st = "get"
    /\ dl.pos + n <= Info[dl.img].file
    /\ \/ ~Flushes(n) /\ dl' = [dl EXCEPT !.pos = @ + n, !.off = Filled(n)]
       \/ /\ Flushes(n)
          /\ dl.sect = 0
          /\ ~Precheck(dl.img)
          /\ dl' = [dl EXCEPT !.pos = @ + n, !.off = Filled(n),
                              !.precheck = FALSE]
    /\ UNCHANGED <<app, ota, upg, pc, fails>>

\* ota_persistent_write of n bytes that complete the buffer: the erase
RecvErase(n) ==
    /\ pc = "app"
    /\ dl.st = "get"
    /\ dl.pos + n <= Info[dl.img].file
    /\ Flushes(n)
    /\ dl.sect = 0 => Precheck(dl.img)
    /\ ota' = [ota EXCEPT ![dl.sect] = Empty]
    /\ dl' = [dl EXCEPT !.st = "program", !.pos = @ + n, !.off = Filled(n),
                        !.part = Left(n),
                        !.precheck = (dl.sect = 0 \/ @)]
    /\ UNCHANGED <<app, upg, pc, fails>>

\* ... and the program
RecvProgram ==
    /\ pc = "app"
    /\ dl.st = "program"
    /\ ota' = [ota EXCEPT ![dl.sect] = [img |-> dl.img, from |-> dl.from,
                                        len |-> dl.off]]
    /\ dl' = [dl EXCEPT !.st = "get", !.sect = @ + 1, !.off = dl.part,
                        !.from = dl.pos - dl.part, !.part = 0]
    /\ UNCHANGED <<app, upg, pc, fails>>

\* End of the file: ota_persistent_finish writes the buffer as it is.
FinishErase ==
    /\ pc = "app"
    /\ dl.st = "get"
    /\ dl.pos = Info[dl.img].file
    /\ ota' = [ota EXCEPT ![dl.sect] = Empty]
    /\ dl' = [dl EXCEPT !.st = "last"]
    /\ UNCHANGED <<app, upg, pc, fails>>

FinishProgram ==
    /\ pc = "app"
    /\ dl.st = "last"
    /\ ota' = [ota EXCEPT ![dl.sect] = [img |-> dl.img, from |-> dl.from,
                                        len |-> dl.off]]
    /\ dl' = [dl EXCEPT !.st = "check", !.ready = TRUE]
    /\ UNCHANGED <<app, upg, pc, fails>>

\* The server closes the connection early: with bytes received the attempt
\* counts as a success, without any it is repeated.
Closed ==
    /\ pc = "app"
    /\ dl.st = "get"
    /\ dl.pos < Info[dl.img].file
    /\ dl' = [dl EXCEPT !.st = IF dl.pos > 0 THEN "check" ELSE "wait"]
    /\ UNCHANGED <<app, ota, upg, pc, fails>>

\* http_get_with_callback returns -1: repeated only when a precheck passed
NetError ==
    /\ pc = "app"
    /\ dl.st = "get"
    /\ dl' = [dl EXCEPT !.st = IF dl.precheck THEN "wait" ELSE "over"]
    /\ UNCHANGED <<app, ota, upg, pc, fails>>

\* Fault: the downloaded image is not verified.
Accepts_Unverified == dl.precheck /\ dl.ready

Accepts == dl.precheck /\ dl.ready /\ OtaOk

\* update_ota_state
CheckOk ==
    /\ pc = "app"
    /\ dl.st = "check"
    /\ Accepts
    /\ upg' = "download_ok"
    /\ dl' = [dl EXCEPT !.st = "reboot"]
    /\ UNCHANGED <<app, ota, pc, fails>>

CheckFails ==
    /\ pc = "app"
    /\ dl.st = "check"
    /\ ~Accepts
    /\ dl' = [dl EXCEPT !.st = "over"]
    /\ UNCHANGED <<app, ota, upg, pc, fails>>

Reboot ==
    /\ pc = "app"
    /\ dl.st = "reboot"
    /\ pc' = "off"
    /\ dl' = NoDl
    /\ UNCHANGED <<app, ota, upg, fails>>

-----------------------------------------------------------------------------
\* Power fails; a sector that was being programmed may be left torn.
PowerFail ==
    /\ pc # "off"
    /\ fails < MaxFail
    /\ fails' = fails + 1
    /\ pc' = "off"
    /\ dl' = NoDl
    /\ \/ app' = app
       \/ pc = "copy" /\ app' = [app EXCEPT !.img = NoImg]
    /\ UNCHANGED <<ota, upg>>

\* Somebody restarts a device that has nothing left to do.
Restart ==
    /\ pc = "halt" \/ (pc = "app" /\ dl.st = "over")
    /\ pc' = "off"
    /\ dl' = NoDl
    /\ UNCHANGED <<app, ota, upg, fails>>

Boot == \/ BootApp \/ BootRestore \/ BootNotNewer
        \/ RestoreErase \/ RestoreHeader \/ RestoreBody \/ RestoreDone
Receive == \/ \E n \in RecvSizes : Recv(n) \/ RecvErase(n)
           \/ RecvProgram \/ FinishErase \/ FinishProgram
           \/ Closed \/ NetError
Commit == CheckOk \/ CheckFails \/ Reboot

Next == \/ Boot \/ Receive \/ Commit \/ PowerFail \/ Restart
        \/ \E i \in Images : StartGet(i)

Spec == Init /\ [][Next]_vars
FairSpec == Spec /\ WF_vars(Boot) /\ WF_vars(Commit)

-----------------------------------------------------------------------------
(* Properties                                                              *)

Dl == [st : DlState, img : Images \cup {NoImg}, pos : Nat, from : Nat,
       off : 0 .. SectorSize, part : 0 .. SectorSize, sect : AllSectors,
       precheck : BOOLEAN, ready : BOOLEAN]

\* The values the variables range over.
TypeOK == /\ app \in App
          /\ ota \in [AllSectors -> Sector]
          /\ upg \in Upg
          /\ pc \in PC
          /\ dl \in Dl
          /\ fails \in 0 .. MaxFail

\* The device can always be started: the application is whole, or the boot
\* agent will restore a whole image of a kind it supports, at every moment of
\* a download or a restore and whenever power fails.
Recoverable == \/ AppOk
               \/ /\ upg = "download_ok"
                  /\ OtaOk
                  /\ Info[OtaImg].kind # "diff"

\* The branches of ota_boot_upgrade_agent and restore_image that are marked
\* "it's impossible to go into this branch" are never entered.
NoImpossibleBranch ==
    /\ pc = "off" /\ upg = "download_ok" /\ OtaOk /\ AppOk =>
           OtaImg = app.hdr \/ Ver(OtaImg) > Ver(app.hdr)
    /\ pc \in {"erase", "erased"} => Info[OtaImg].kind # "diff"

\* The boot agent only starts an application that is whole.
StartsWhole == pc = "app" => AppOk

\* A download writes no sector behind the OTA partition, as the partition
\* table and the comment "check file size" have it.  The code breaks it: an
\* uncompressed file is compared with the APP partition only, and behind a
\* file that ends with the partition ota_persistent_finish writes a sector.
InsideOta == \A k \in Beyond : ota[k] = Foreign

\* What the precheck does enforce: with a byte of each sector left unused at
\* worst, and one sector more at the end, a download reaches as far behind
\* the OTA partition as the larger of the two partitions makes it.
ReachBounded == \A k \in Beyond : ota[k] # Foreign =>
                    \/ k * (SectorSize - 1) <= AppSize
                    \/ k * (SectorSize - 1) <= OtaSectors * SectorSize

\* The sectors 0 .. n hold the file of image i from its start to its end,
\* without a gap or a repetition; each but the last may be a byte short.
Complete(i, n) == /\ \A k \in 0 .. n : ota[k].img = i
                  /\ ota[0].from = 0
                  /\ \A k \in 1 .. n : ota[k].from = ota[k - 1].from + ota[k - 1].len
                  /\ ota[n].from + ota[n].len = Info[i].file
                  /\ \A k \in 0 .. n - 1 : ota[k].len \in {SectorSize - 1, SectorSize}

\* Whatever lengths the http callbacks deliver, a file that was received to
\* its end and passed the precheck is in flash from its first byte to its
\* last, and it is what image_body_verify looks for unless a sector was
\* written a byte short: no byte is lost or doubled where a callback's data
\* is split between two buffers, nor left over from an earlier attempt.
GoodDownload ==
    dl.st = "check" /\ dl.precheck /\ dl.pos = Info[dl.img].file =>
        /\ Complete(dl.img, dl.sect)
        /\ (\A k \in 0 .. dl.sect - 1 : ota[k].len = SectorSize) => HoldsFile(ota, dl.img)

\* The image that the next start of the device will run; it changes only by
\* a completed download of a newer one.
Chosen == IF /\ upg = "download_ok"
             /\ OtaOk
             /\ AppOk => Ver(OtaImg) > Ver(app.hdr)
          THEN OtaImg ELSE app.hdr
CommitsForward ==
    [][Chosen' # Chosen => Chosen' \in Images /\ Ver(Chosen') > Ver(Chosen)]_vars

\* An accepted update is installed, and every start of the device reaches
\* the application, once power stays on.
UpdateInstalled == (upg = "download_ok") ~> (upg = "restore_ok")
BootsUp == (pc = "off") ~> (pc = "app")
\* No file is too short to fill the sector buffer, so each is prechecked.
LongFiles == \A i \in Images : Info[i].file >= SectorSize - 1

\* The inductive invariant, when LongFiles holds.  A waiting download is
\* whole, of a supported kind, and newer than the application or already
\* restored; without one the application is whole.
Waiting ==
    IF upg = "download_ok"
    THEN /\ OtaOk
         /\ Info[OtaImg].kind # "diff"
         /\ AppOk => OtaImg = app.hdr \/ Ver(OtaImg) > Ver(app.hdr)
    ELSE AppOk

\* The boot agent only overwrites the application while a download waits,
\* and what it has copied is the downloaded image.
Restoring ==
    /\ pc \in {"erase", "erased", "copy"} => upg = "download_ok"
    /\ pc = "copy" => /\ app.hdr = OtaImg
                      /\ app.img = OtaImg
                      /\ app.n <= Parts(OtaImg)
    /\ pc = "app" => AppOk
    /\ pc # "halt"

\* A download starts only while none waits.  Bytes received so far are in
\* complete sectors and the buffer; a result of the precheck that counts is
\* about the file that is now in sector 0.
Downloading ==
    /\ pc # "app" => dl = NoDl
    /\ upg = "download_ok" /\ pc = "app" => dl.st = "reboot"
    /\ dl.st = "reboot" => upg = "download_ok"
    /\ dl.ready => dl.st \in {"check", "reboot", "over"}
    /\ dl.st \in {"get", "program", "last", "check"} =>
          /\ dl.img \in Images
          /\ dl.pos <= Info[dl.img].file
    /\ dl.st \in {"get", "program", "last"} =>
          dl.sect * (SectorSize - 1) + dl.off + dl.part <= dl.pos
    /\ dl.st \in {"get", "last"} /\ dl.sect > 0 =>
          Precheck(dl.img) /\ ota[0].img = dl.img
    /\ dl.st = "program" => /\ Precheck(dl.img)
                            /\ dl.off >= SectorSize - 1
                            /\ dl.sect > 0 => ota[0].img = dl.img
    /\ dl.st = "get" /\ dl.sect = 0 /\ dl.off >= SectorSize - 1 => ~dl.precheck
    /\ dl.st = "get" /\ dl.sect = 0 /\ dl.off < SectorSize - 1 => dl.off = dl.pos
    /\ dl.st = "last" => /\ dl.pos = Info[dl.img].file
                         /\ dl.sect = 0 => ~dl.precheck
    /\ dl.st = "check" /\ dl.ready /\ dl.precheck =>
          Precheck(dl.img) /\ ota[0].img = dl.img
IInv == TypeOK /\ Waiting /\ Restoring /\ Downloading
=============================================================================
