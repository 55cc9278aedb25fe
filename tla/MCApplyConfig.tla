---------------------------- MODULE MCApplyConfig ---------------------------
(* Small instances of ApplyConfig for TLC.                                 *)
EXTENDS ApplyConfig
=============================================================================
