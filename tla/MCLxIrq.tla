------------------------------ MODULE MCLxIrq ------------------------------
(* Instances of LxIrq for TLC.                                             *)
EXTENDS LxIrq
=============================================================================
