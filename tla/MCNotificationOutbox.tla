------------------------- MODULE MCNotificationOutbox -------------------------
(***************************************************************************)
(* Small instances of NotificationOutbox for TLC.                          *)
(***************************************************************************)
EXTENDS NotificationOutbox, TLC

WorkerSymmetry == Permutations(Worker)
=============================================================================
