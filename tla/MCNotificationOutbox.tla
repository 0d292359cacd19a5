------------------------ MODULE MCNotificationOutbox ------------------------
(* Small instances of NotificationOutbox for TLC.                          *)
EXTENDS NotificationOutbox, TLC

Interchangeable == Permutations(Workers \ MailDisabled)
=============================================================================
