----------------------------- MODULE MCConsole -----------------------------
(* The instance of Console for TLC.                                          *)
EXTENDS Console
=============================================================================
