---------------------------- MODULE MCLxafsDate ----------------------------
(* Instances of LxafsDate for TLC.                                         *)
EXTENDS LxafsDate
=============================================================================
