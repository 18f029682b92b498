-------------------------- MODULE MCNotifications --------------------------
(* Notifications with a few ids. *)
EXTENDS Notifications
=============================================================================
