------------------------------ MODULE OtaImage ------------------------------
(***************************************************************************)
(* Firmware images in the APP and OTA partitions and the checks of         *)
(* components/fota/ota_agent/ota_image.c.  A CRC matches exactly when the  *)
(* bytes are the ones it was computed from.                                *)
(*                                                                         *)
(* A file is as long as the flash bytes it needs, header included; lengths *)
(* count abstract bytes and a flash sector has SectorSize of them.         *)
(***************************************************************************)
EXTENDS Naturals

CONSTANTS Images,       \* image files a server may offer
          NoImg,        \* bytes that are no image: erased, torn or padding
          Info,         \* what the header of each image says
          SectorSize,   \* SECTOR_SIZE_4KB
          OtaSectors,   \* OTA_SPACE_SIZE in sectors
          AppSize       \* APP_SPACE_SIZE

Kinds == {"orig", "xz", "diff"}    \* image_type_t; both diff types alike

\* image_hdr_t: kind, version (major << 8) + minor, and the lengths of the
\* original, the compressed and the transferred form
Header == [kind : Kinds, ver : Nat, orig : Nat, xz : Nat, file : Nat \ {0}]

ASSUME OtaConstants ==
    /\ NoImg \notin Images
    /\ Info \in [Images -> Header]
    /\ SectorSize \in Nat \ {0}
    /\ OtaSectors \in Nat
    /\ AppSize \in Nat
    /\ \A i \in Images : /\ Info[i].kind = "orig" => Info[i].file = Info[i].orig
                         /\ Info[i].kind = "xz" => Info[i].file = Info[i].xz

Ver(i) == Info[i].ver

\* Sectors that n bytes take
SectorsOf(n) == (n + SectorSize - 1) \div SectorSize

\* A flash sector: len bytes of a file from position "from", then padding.
Sector == [img : Images \cup {NoImg}, from : Nat, len : 0 .. SectorSize]
Empty  == [img |-> NoImg, from |-> 0, len |-> 0]

\* The bytes of sector k of a file
Piece(i, k) ==
    [img |-> i, from |-> k * SectorSize,
     len |-> IF (k + 1) * SectorSize <= Info[i].file THEN SectorSize
             ELSE Info[i].file - k * SectorSize]

\* image_header_verify and image_body_verify of the OTA partition
HoldsFile(o, i) == \A k \in 0 .. SectorsOf(Info[i].file) - 1 :
                       k \in DOMAIN o /\ o[k] = Piece(i, k)

(***************************************************************************)
(* The APP partition: the header of the image in it and how many sectors   *)
(* of which image's body follow.  It always holds the original form.       *)
(***************************************************************************)
Parts(i) == SectorsOf(Info[i].orig)
App == [hdr : Images \cup {NoImg}, img : Images \cup {NoImg}, n : Nat]
Holds(a, i) == a = [hdr |-> i, img |-> i, n |-> Parts(i)]
=============================================================================
