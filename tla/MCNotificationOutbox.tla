------------------------ MODULE MCNotificationOutbox ------------------------
(* Small instance of NotificationOutbox for TLC. *)
EXTENDS NotificationOutbox
=============================================================================
