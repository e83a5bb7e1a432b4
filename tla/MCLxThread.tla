----------------------------- MODULE MCLxThread -----------------------------
(* Instances of LxThread for TLC.                                          *)
EXTENDS LxThread
=============================================================================
