------------------------------ MODULE NvdsStore ------------------------------
(***************************************************************************)
(* What the non-volatile data store (components/fs/nvds) promises: one     *)
(* record of fields that a write changes in one step or not at all,        *)
(* whenever power fails, and a write that returns has taken effect.        *)
(***************************************************************************)
EXTENDS Naturals

CONSTANTS NumField, Vals, Blank, VersionField, Version

Fields == 1 .. NumField
Data   == Vals \cup {Blank}

VARIABLES formatted, \* does the area hold a record?
          rec,       \* the record; all Blank as long as there is none
          req,       \* <<field, value>> of the write in progress
          status     \* "up": between calls, "busy": in a write, "down"

vars == <<formatted, rec, req, status>>

NoReq == <<0, Blank>>

Init == /\ formatted = FALSE
        /\ rec = [f \in Fields |-> Blank]
        /\ req = NoReq
        /\ status = "down"

Request(f, v) == /\ status = "up"
                 /\ req' = <<f, v>>
                 /\ status' = "busy"
                 /\ UNCHANGED <<formatted, rec>>

\* ln_nvds_init formats an area it cannot read by writing the version
Format == /\ status = "down"
          /\ ~formatted
          /\ req' = <<VersionField, Version>>
          /\ status' = "busy"
          /\ UNCHANGED <<formatted, rec>>

Apply == /\ status = "busy"
         /\ formatted' = TRUE
         /\ rec' = [rec EXCEPT ![req[1]] = req[2]]
         /\ UNCHANGED <<req, status>>

Return == /\ status = "busy"
          /\ formatted
          /\ rec[req[1]] = req[2]
          /\ status' = "up"
          /\ req' = NoReq
          /\ UNCHANGED <<formatted, rec>>

Restart == /\ status = "down"
           /\ formatted
           /\ status' = "up"
           /\ UNCHANGED <<formatted, rec, req>>

PowerFail == /\ status' = "down"
             /\ req' = NoReq
             /\ UNCHANGED <<formatted, rec>>

Next == \/ \E f \in Fields, v \in Data : Request(f, v)
        \/ Format \/ Apply \/ Return \/ Restart \/ PowerFail

Spec == Init /\ [][Next]_vars
=============================================================================
