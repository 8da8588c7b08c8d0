----------------------------- MODULE MCNetwork ------------------------------
(* The instance of WifiManager and Dhcpd for TLC.                            *)
EXTENDS WifiManager, TLC

Symmetry == Permutations(Stations)
=============================================================================
