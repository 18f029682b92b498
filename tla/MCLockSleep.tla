---------------------------- MODULE MCLockSleep ----------------------------
(* LockManager with the logind bridge, on one output. *)
EXTENDS LockSleep
=============================================================================
