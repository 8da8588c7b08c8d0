------------------------------- MODULE MCNvds -------------------------------
(* The instance of Nvds for TLC.                                           *)
EXTENDS Nvds
=============================================================================
