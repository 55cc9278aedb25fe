---------------------------- MODULE MCFloodWait ----------------------------
(* A small instance of FloodWait.                                          *)
EXTENDS FloodWait
=============================================================================
