------------------------ MODULE MCNotificationOutbox ------------------------
(***************************************************************************)
(* One paper run and one monthly report, three attempts and two operator   *)
(* decisions each: the second attempt meets the orphan of the first, the   *)
(* third what was decided about both.                                      *)
(***************************************************************************)
EXTENDS NotificationOutbox
=============================================================================
