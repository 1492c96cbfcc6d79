-------------------------- MODULE MCNotificationWall --------------------------
(* Instances of NotificationWall for TLC: a content in each of two spaces, *)
(* the tab that leads and another one.                                     *)
EXTENDS NotificationWall

CONSTANTS A, B, L, O

MCExisting == <<A, B>>
=============================================================================
