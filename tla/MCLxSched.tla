------------------------------ MODULE MCLxSched ------------------------------
(* Instances of LxSched for TLC.                                           *)
EXTENDS LxSched
=============================================================================
