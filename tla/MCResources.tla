---------------------------- MODULE MCResources -----------------------------
(* One member for TLC.                                                     *)
EXTENDS Resources, TLC
=============================================================================
