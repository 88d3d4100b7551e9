------------------------------ MODULE MCArchive ------------------------------
(* Instances of Archive for TLC.                                           *)
EXTENDS Archive

CONSTANTS u1, u2
=============================================================================
