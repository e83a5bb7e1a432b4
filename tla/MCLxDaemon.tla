----------------------------- MODULE MCLxDaemon -----------------------------
(* Instances of LxDaemon for TLC.                                          *)
EXTENDS LxDaemonCall, TLC

Symmetry == Permutations(Client) \cup Permutations(Daemon)
=============================================================================
