----------------------------- MODULE MCLxWaitOn -----------------------------
(* The instance of LxWaitOn for TLC.  WaitList.cfg checks liveness, so the  *)
(* model values of Waiter and Id are not declared symmetric.               *)
EXTENDS LxWaitOn, TLC
=============================================================================
