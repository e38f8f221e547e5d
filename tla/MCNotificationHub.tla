-------------------------- MODULE MCNotificationHub --------------------------
(* The instance of NotificationHub that is model-checked. *)
EXTENDS NotificationHub
=============================================================================
