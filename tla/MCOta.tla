-------------------------------- MODULE MCOta --------------------------------
(* Instances of Ota for TLC.                                               *)
EXTENDS Ota

\* kind, version, length of the original and of the compressed form, which
\* the header of an uncompressed image leaves out
Img(k, v, o, x) == [kind |-> k, ver |-> v, orig |-> o, xz |-> x,
                    file |-> IF k = "orig" THEN o ELSE x]

\* For sectors of four bytes, an OTA partition of two of them and an APP
\* partition of ten bytes: two newer images of the same version, one of them
\* compressed and as long as OTA, one that is longer than OTA and fits APP,
\* one that is longer than both, and one of a kind that is not supported.
Firmware == [i \in Images |->
    CASE i = "v1"   -> Img("orig", 1, 5, 0)
      [] i = "v2"   -> Img("orig", 2, 6, 0)
      [] i = "v2b"  -> Img("xz", 2, 9, 8)
      [] i = "big"  -> Img("orig", 3, 10, 0)
      [] i = "long" -> Img("xz", 3, 10, 12)
      [] i = "diff" -> Img("diff", 3, 6, 6)]

\* Images that do not fill the sector buffer
WithTiny == [i \in Images |->
    CASE i = "v1"   -> Img("orig", 1, 5, 0)
      [] i = "v2"   -> Img("orig", 2, 6, 0)
      [] i = "tiny" -> Img("orig", 1, 2, 0)
      [] i = "tinydiff" -> Img("diff", 2, 2, 2)]

\* A compressed file that is as long as OTA, and an uncompressed one that is
\* longer and fits APP
AtTheLimit == [i \in Images |->
    CASE i = "v1"   -> Img("orig", 1, 5, 0)
      [] i = "full" -> Img("xz", 2, 16, 12)
      [] i = "big"  -> Img("orig", 2, 16, 0)]
=============================================================================
