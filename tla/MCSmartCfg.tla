----------------------------- MODULE MCSmartCfg -----------------------------
(* The instance of SmartCfg for TLC: the phone's session with an SSID of two *)
(* bytes and a password of one, and an earlier one with two and three.  Of   *)
(* the sizes that a mixture of both announces, one is refused and one taken. *)
EXTENDS SmartCfg

TotalSizes == [phone |-> 3, old |-> 5]
PwdSizes == [phone |-> 1, old |-> 3]
=============================================================================
